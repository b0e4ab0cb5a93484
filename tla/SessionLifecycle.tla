-------------------------- MODULE SessionLifecycle --------------------------
(***************************************************************************)
(* What the session manager promises about the life of a session, without  *)
(* its clock, its callers or the table of single state changes.  A session *)
(* is unborn, then active (it may record), then ending, then ended; it can *)
(* be forgotten from any of these, and a forgotten id never comes back.    *)
(* One step forgets any number of sessions, because every call of the      *)
(* manager sweeps the whole store, and carries at most one other session   *)
(* forward.                                                                *)
(***************************************************************************)
CONSTANT SessionIds

VARIABLE phase      \* phase[s] is where session s is in its life

Phases == {"unborn", "active", "ending", "ended", "gone"}

\* The phases a session in phase p can be carried to by a call.
Onward(p) ==
  CASE p = "unborn" -> {"active"}
    [] p = "active" -> {"ending", "ended"}
    [] p = "ending" -> {"ended"}
    [] OTHER        -> {}

Init == phase = [s \in SessionIds |-> "unborn"]

Forgettable == {s \in SessionIds : phase[s] \in {"active", "ending", "ended"}}

Sweep(expired) == phase' = [s \in SessionIds |-> IF s \in expired THEN "gone" ELSE phase[s]]

SweepAndCarry(expired, s, p) ==
  /\ s \notin expired
  /\ p \in Onward(phase[s])
  /\ phase' = [x \in SessionIds |-> IF x \in expired THEN "gone"
                                    ELSE IF x = s THEN p ELSE phase[x]]

Next ==
  \E expired \in SUBSET Forgettable :
    \/ Sweep(expired)
    \/ \E s \in SessionIds, p \in Phases : SweepAndCarry(expired, s, p)

Spec == Init /\ [][Next]_phase

=============================================================================
