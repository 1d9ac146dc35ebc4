---------------------------- MODULE Availability ----------------------------
(***************************************************************************)
(* What the gateway remembers of one scope that failed: a provider, or one *)
(* tenant's credential for one model.                                      *)
(*                                                                         *)
(* Time is what is left of a cooldown, in ticks, instead of an instant on  *)
(* the clock: `until` is null (unset), in the future (left > 0) or past    *)
(* (left = 0), and nothing else is asked of it.  The fault counter is only *)
(* ever compared with the threshold and saturates there.                   *)
(***************************************************************************)
EXTENDS Naturals

CONSTANTS
    Threshold,      \* faultsBeforeSkipping
    Cooldown,       \* cooldownMs, in ticks
    MaxCooldown,    \* maxCooldownMs, in ticks
    RetryAfters     \* the waits a provider may ask for; 0 stands for none given

ASSUME PolicyAssumption ==
    /\ Threshold \in Nat \ {0}
    /\ Cooldown \in Nat \ {0}
    /\ MaxCooldown \in Nat
    /\ Cooldown <= MaxCooldown
    /\ RetryAfters \subseteq Nat

Fault == {"provider", "credential"}

Memory == [faults : 0..Threshold, cooldown : Cooldown..MaxCooldown,
           set : BOOLEAN, left : Nat, probing : BOOLEAN]

(* A scope nothing is known of; recordSuccess goes back to it. *)
Unknown == [faults |-> 0, cooldown |-> Cooldown, set |-> FALSE, left |-> 0,
            probing |-> FALSE]

Lesser(a, b) == IF a < b THEN a ELSE b

(* Bug: while a probe is out everybody else is held, whatever became of it. *)
BlockedWhileProbing(m) == m.set /\ (m.left > 0 \/ m.probing)

(* blocked: what it answers ... *)
Blocked(m) == m.set /\ m.left > 0

(* ... and what it leaves behind: past the cooldown, a probe is let through. *)
Asked(m) ==
    [faults |-> m.faults, cooldown |-> m.cooldown, set |-> m.set, left |-> m.left,
     probing |-> m.probing \/ (m.set /\ m.left = 0)]

Enough(kind) == IF kind = "credential" THEN 1 ELSE Threshold

(* Bug: the wait doubles without a ceiling. *)
NextCooldownUncapped(m) == IF m.probing THEN m.cooldown * 2 ELSE m.cooldown

(* A failed probe doubles the wait, up to the ceiling. *)
NextCooldown(m) ==
    IF m.probing THEN Lesser(m.cooldown * 2, MaxCooldown) ELSE m.cooldown

(* Bug: the provider's wait comes on top of ours. *)
FaultedAdding(m, kind, retryAfter) ==
    LET cooldown == NextCooldown(m)
        faults == Lesser(m.faults + 1, Threshold)
        skip == faults >= Lesser(Enough(kind), Threshold)
    IN  [faults |-> faults, cooldown |-> cooldown, probing |-> FALSE,
         set |-> m.set \/ skip,
         left |-> IF skip THEN retryAfter + cooldown ELSE m.left]

(* recordFault *)
Faulted(m, kind, retryAfter) ==
    LET cooldown == NextCooldown(m)
        faults == Lesser(m.faults + 1, Threshold)
        skip == faults >= Lesser(Enough(kind), Threshold)
    IN  [faults |-> faults, cooldown |-> cooldown, probing |-> FALSE,
         set |-> m.set \/ skip,
         left |-> IF ~ skip THEN m.left
                  ELSE IF retryAfter > 0 THEN retryAfter ELSE cooldown]

(* One tick of the clock. *)
Aged(m) ==
    [faults |-> m.faults, cooldown |-> m.cooldown, set |-> m.set,
     left |-> IF m.left > 0 THEN m.left - 1 ELSE 0, probing |-> m.probing]

(* What is true of every memory, whatever happened to its scope: the wait is  *)
(* within its ceiling or what the provider asked for, only a scope that is    *)
(* being skipped has one, and nothing is kept of a scope that never failed.   *)
Sane(m) ==
    /\ m.left <= MaxCooldown \/ \E r \in RetryAfters : m.left <= r
    /\ m.left > 0 => m.set
    /\ m.faults = 0 => m = Unknown

=============================================================================
