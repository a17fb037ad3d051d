------------------------------ MODULE Command ------------------------------
(***************************************************************************)
(* What running commands one after another promises: each takes effect     *)
(* once at most, and its caller is told once how it ended.  A caller that  *)
(* is told "ok" knows of the effect; one that is told "untouched" knows    *)
(* that there is none and will be none; one that is told "error" knows     *)
(* nothing: the command may take effect later still.                       *)
(***************************************************************************)
EXTENDS Integers

CONSTANT Commands

VARIABLES begun,   \* the commands that have been run
          times,   \* how often each took effect
          told     \* what the caller of each was told

Outcomes == {"ok", "read", "untouched", "error"}

Init == /\ begun = {}
        /\ times = [c \in Commands |-> 0]
        /\ told = [c \in Commands |-> "nothing"]

\* The next command, when the one before it has been reported.
Begin(c) ==
    /\ c \notin begun
    /\ \A d \in begun : told[d] # "nothing"
    /\ begun' = begun \cup {c}
    /\ UNCHANGED <<times, told>>

\* While it runs, or after its caller gave up.
Effect(c) ==
    /\ c \in begun
    /\ times[c] = 0
    /\ told[c] \in {"nothing", "error"}
    /\ times' = [times EXCEPT ![c] = 1]
    /\ UNCHANGED <<begun, told>>

Tell(c, t) ==
    /\ c \in begun
    /\ told[c] = "nothing"
    /\ t = "ok" => times[c] = 1
    /\ t \in {"read", "untouched"} => times[c] = 0
    /\ told' = [told EXCEPT ![c] = t]
    /\ UNCHANGED <<begun, times>>

Next == \E c \in Commands :
            Begin(c) \/ Effect(c) \/ \E t \in Outcomes : Tell(c, t)

Spec == Init /\ [][Next]_<<begun, times, told>>
=============================================================================
