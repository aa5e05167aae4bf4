----------------------------- MODULE MCCodexTurn -----------------------------
(***************************************************************************)
(* Two Codex turns, a command under manual-exec, and one bundle.           *)
(***************************************************************************)
EXTENDS CodexTurn, TLC

CONSTANTS turn1, turn2, manualRun

TurnEvent(run, id, op, kind, lifecycle) ==
  [run |-> run, id |-> id, op |-> op, kind |-> kind, lifecycle |-> lifecycle,
   status |-> "none", runStatus |-> "none", at |-> 0, scope |-> "none",
   duration |-> NotSet, deps |-> {}]

MCHookEvents ==
  {TurnEvent(turn1, <<"prompt">>, <<"prompt">>, "user_prompt", "point"),
   [TurnEvent(turn1, <<"stop">>, <<"turn">>, "turn", "point") EXCEPT
      !.status = "ok", !.runStatus = "ok"],
   TurnEvent(turn2, <<"prompt">>, <<"prompt">>, "user_prompt", "point")}

\* createManualCommandEvent
MCManualEvent(m, r, lifecycle, status, runStatus) ==
  [TurnEvent(r, <<"manual", m, lifecycle>>, <<"manual", m>>, "tool_call", lifecycle) EXCEPT
     !.status = status, !.runStatus = runStatus]

\* finishManualRun
MCFinishEvent(r) ==
  [TurnEvent(r, <<"finish-turn">>, <<"turn">>, "turn", "point") EXCEPT
     !.status = "ok", !.runStatus = "ok"]

MCManualRun(m) == manualRun

MCCalls == Hooks \cup {StartCall(m) : m \in Manuals} \cup {FinishCall(m) : m \in Manuals}

MCEvents ==
  MCHookEvents \cup {MCFinishEvent(r) : r \in Runs}
    \cup {MCManualEvent(m, r, "start", "none", "none") : m \in Manuals, r \in Runs}
    \cup {MCManualEvent(m, r, "finish", s, t) :
            m \in Manuals, r \in Runs, s \in {"ok", "error"}, t \in {"none", "ok", "error"}}

HookSymmetry == Permutations(Hooks)
=============================================================================
