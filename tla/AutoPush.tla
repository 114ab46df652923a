------------------------------ MODULE AutoPush ------------------------------
(***************************************************************************)
(* What the auto-push scheduler promises, without tasks, ticks or chunks:  *)
(* a push-enabled flag, whether a scheduler loop exists, whether one of    *)
(* its cycles (fetch and delivery) is in flight, and whether the process   *)
(* has shut down.  A cycle starts only while pushing is enabled; a loop    *)
(* ends only once pushing is disabled and no cycle is in flight (or at     *)
(* shutdown); a loop is started only when none exists.  PriceNoticeBot     *)
(* implements this module under the mapping given there.                   *)
(***************************************************************************)
CONSTANT AutoPushDefault

VARIABLES enabled, running, pushing, halted

vars == <<enabled, running, pushing, halted>>

TypeOK ==
    /\ {enabled, running, pushing, halted} \subseteq BOOLEAN
    /\ pushing => running

Init ==
    /\ enabled = AutoPushDefault
    /\ running = AutoPushDefault
    /\ pushing = FALSE
    /\ halted = FALSE

\* An operator switches pushing on or off.
Enable  == ~halted /\ enabled' = TRUE  /\ UNCHANGED <<running, pushing, halted>>
Disable == ~halted /\ enabled' = FALSE /\ UNCHANGED <<running, pushing, halted>>

\* A loop is started; there is none already.
Spawn ==
    /\ ~halted /\ enabled /\ ~running
    /\ running' = TRUE
    /\ UNCHANGED <<enabled, pushing, halted>>

\* The running loop starts a cycle, only while pushing is enabled.
BeginCycle ==
    /\ ~halted /\ enabled /\ running /\ ~pushing
    /\ pushing' = TRUE
    /\ UNCHANGED <<enabled, running, halted>>

\* The cycle ends; if pushing was disabled meanwhile the loop may end
\* with it.
EndCycle ==
    /\ pushing
    /\ pushing' = FALSE
    /\ \/ running' = running
       \/ ~enabled /\ running' = FALSE
    /\ UNCHANGED <<enabled, halted>>

\* A loop with no cycle in flight ends once pushing is disabled.
Exit ==
    /\ running /\ ~enabled /\ ~pushing
    /\ running' = FALSE
    /\ UNCHANGED <<enabled, pushing, halted>>

\* Shutdown abandons the loop wherever it is, a cycle included.
Halt ==
    /\ ~halted
    /\ halted' = TRUE
    /\ running' = FALSE
    /\ pushing' = FALSE
    /\ UNCHANGED enabled

Next == Enable \/ Disable \/ Spawn \/ BeginCycle \/ EndCycle \/ Exit \/ Halt

\* A loop keeps cycling while enabled, a cycle finishes, and a disabled
\* loop ends.  Spawn is not fair: whether a loop is (re)started is up to
\* the operator's commands.
Spec ==
    /\ Init /\ [][Next]_vars
    /\ WF_vars(BeginCycle) /\ WF_vars(EndCycle) /\ WF_vars(Exit)
=============================================================================
