------------------------------- MODULE Counts -------------------------------
(* What the platform counts: tool calls and reports by the day, in the database *)
(* (ToolCalls), and requests by the minute, in the memory of the process        *)
(* (Limits). No route goes by both (app.ts), so a behaviour is one of either:   *)
(* with no limiter it is of the calls, and with one it is of that limiter.      *)
EXTENDS ToolCalls, Limits

countsVars == <<vars, limitsVars>>

\* No call comes: one user, of whom nothing is stored.
NoCalls == Init /\ snapshots = {} /\ tier = [u \in Users |-> "free"]

CountsInit ==
  \/ Init /\ limiter = "none" /\ Started
  \/ NoCalls /\ LimitsInit

CallsStep == limiter = "none" /\ Next /\ UNCHANGED limitsVars
LimitsStep == limiter # "none" /\ LimitsNext /\ UNCHANGED vars
CountsNext == CallsStep \/ LimitsStep

CountsSpec == CountsInit /\ [][CountsNext]_countsVars
=============================================================================
