------------------------------- MODULE Assistant -------------------------------
(***************************************************************************)
(* AssistantService.reply (src/smart_desk/modules/assistant/service.py):   *)
(* one turn of Responses calls and tools over a history that is replaced   *)
(* only when the turn has its reply. A history is kept as how many items   *)
(* of each kind it has. The service's lock has one user, voice-main.       *)
(***************************************************************************)
EXTENDS Naturals

CONSTANTS SessionMaxTurns,      \* session_max_turns
          MaxToolCalls,         \* max_tool_calls_per_turn
          StepCalls             \* tool calls one response may ask for

ASSUME SessionAssumption ==
    /\ SessionMaxTurns \in Nat \ {0} /\ MaxToolCalls \in Nat
    /\ StepCalls \subseteq Nat \ {0}

VARIABLES
    history, turns,     \* _session
    pending,            \* the turn's copy
    calls, todo         \* len(tool_names); calls of the step not executed yet

assistantVars == <<history, turns, pending, calls, todo>>

Empty == [user |-> 0, call |-> 0, output |-> 0, reply |-> 0]
Resetting == turns >= SessionMaxTurns

\* Every path out of a turn but Commit leaves the session alone.
Forget == pending' = Empty /\ calls' = 0 /\ todo' = 0 /\ UNCHANGED <<history, turns>>

BeginTurn == /\ pending' = [IF Resetting THEN Empty ELSE history EXCEPT !.user = @ + 1]
             /\ calls' = 0 /\ todo' = 0
             /\ UNCHANGED <<history, turns>>

\* A step that asks for k tools.
AskTools(k) == /\ pending' = [pending EXCEPT !.call = @ + k]
               /\ todo' = k
               /\ UNCHANGED <<history, turns, calls>>

\* Mutant of RunTool: what was done is remembered at once.
RunToolCommitted == /\ calls < MaxToolCalls
                    /\ pending' = [pending EXCEPT !.output = @ + 1]
                    /\ history' = pending'
                    /\ calls' = calls + 1 /\ todo' = todo - 1
                    /\ UNCHANGED turns

\* The registry executes one call: a result and a refusal are outputs alike.
RunTool == /\ calls < MaxToolCalls
           /\ pending' = [pending EXCEPT !.output = @ + 1]
           /\ calls' = calls + 1 /\ todo' = todo - 1
           /\ UNCHANGED <<history, turns>>

Commit == /\ history' = [pending EXCEPT !.reply = @ + 1]
          /\ turns' = IF Resetting THEN 1 ELSE turns + 1
          /\ pending' = Empty /\ calls' = 0 /\ todo' = 0

AssistantInit == /\ history = Empty /\ turns = 0
                 /\ pending = Empty /\ calls = 0 /\ todo = 0

\* (AssistantService.reply) Whatever fails or is cancelled in the middle of a turn,
\* tools that have run included, the history is made of whole turns: a reply for
\* every user text, an output for every call, no more of them than the session may
\* hold.
HistoryIsWhole ==
    /\ history.user = turns /\ history.reply = turns
    /\ history.call = history.output
    /\ turns <= SessionMaxTurns
=============================================================================
