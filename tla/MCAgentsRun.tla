----------------------------- MODULE MCAgentsRun -----------------------------
(***************************************************************************)
(* Instances of AgentsRun.  A task ends once, so everything here is finite *)
(* without further bounds: a run's events are its tasks' and its own.      *)
(***************************************************************************)
EXTENDS AgentsRun

CONSTANTS r1, r2

Task(run, via, kind, name) ==
  [run |-> run, via |-> via, kind |-> kind, name |-> name, metadata |-> FALSE, wrapper |-> 0]
WithMetadata(t) == [t EXCEPT !.metadata = TRUE]
Through(t, wrapper) == [t EXCEPT !.wrapper = wrapper]

\* Two runs given one id, which share files and a place in the registry; a hook
\* and a span announce the agent of the second.  When the first settles it takes
\* the spans of the second with it.
SharedTasks == {Task(r2, "hook", "agent_step", "agent"),
                WithMetadata(Task(r2, "span", "agent_step", "agent"))}

\* One run, with a model call whose span finds the recorder by its trace.  A
\* handoff is recorded like it, less what is written to an ended node.
CallTasks == {Task(r1, "hook", "tool_call", "tool"), Task(r1, "span", "model_call", "m")}

\* One run that calls a model through two wrappers, as with a model provider.
ModelTasks == {Through(Task(r1, "model", "model_call", "m1"), 1),
               Through(Task(r1, "model", "model_call", "m2"), 2)}

OneRun == [r \in {r1} |-> "run"]
SharedId == [r \in {r1, r2} |-> "run"]
=============================================================================
