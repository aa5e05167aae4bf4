------------------------- MODULE MCExecutionRuntime -------------------------
(***************************************************************************)
(* Calls of one Codex turn: a tool's start and finish and the Stop that    *)
(* completes the run.  Any call may deliver any of them, so the runs       *)
(* include duplicates, reordering and a tool that reports after Stop.      *)
(***************************************************************************)
EXTENDS ExecutionRuntime, TLC

Event(id, op, kind, lifecycle) ==
  [run |-> "turn-1", id |-> id, op |-> op, kind |-> kind, lifecycle |-> lifecycle,
   status |-> "none", runStatus |-> "none", at |-> 0, scope |-> "none",
   duration |-> NotSet, deps |-> {}]

MCEvents ==
  {Event("toolStart", "tool", "tool_call", "start"),
   Event("toolFinish", "tool", "tool_call", "finish"),
   [Event("stop", "turn", "turn", "point") EXCEPT !.status = "ok", !.runStatus = "ok"]}

CallSymmetry == Permutations(Calls)
=============================================================================
