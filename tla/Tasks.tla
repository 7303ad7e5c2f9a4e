------------------------------- MODULE Tasks -------------------------------
(***************************************************************************)
(* Requests of a trace and the nodes of their DAG (request.py, node.py,    *)
(* task.py, flow.py): a prompt task, a token task and, when the scheduler  *)
(* places them on different instances, a KV-cache flow between them.       *)
(*                                                                         *)
(* Sizes are counted in tokens of KV-cache.  estimate_kv_cache_size() is   *)
(* linear in the number of tokens, so one token is one unit of memory.     *)
(***************************************************************************)
EXTENDS Integers, FiniteSets

CONSTANTS Requests,   \* the requests of the trace
          Shapes      \* the request sizes the trace may contain

ASSUME ShapesAssumption ==
  Shapes \subseteq [prompt : Nat \ {0}, token : Nat \ {0}]

(* A trace is a file, read to its end.                                     *)
ASSUME TraceAssumption == IsFiniteSet(Requests)

VARIABLE trace        \* request -> prompt_size, token_size

Prompt(r) == [req |-> r, kind |-> "prompt"]
Token(r)  == [req |-> r, kind |-> "token"]
Flow(r)   == [req |-> r, kind |-> "flow"]

TaskNodes == {Prompt(r) : r \in Requests} \cup {Token(r) : r \in Requests}
Nodes     == TaskNodes \cup {Flow(r) : r \in Requests}

IsPrompt(t) == t.kind = "prompt"

(* The memory a task allocates when it first runs: the cache of the prompt *)
(* and of the first token, then the cache of the remaining tokens.         *)
PromptMemory(r) == trace[r].prompt + 1
TokenMemory(r)  == trace[r].token - 1
TotalMemory(r)  == PromptMemory(r) + TokenMemory(r)
TaskMemory(t)   == IF IsPrompt(t) THEN PromptMemory(t.req) ELSE TokenMemory(t.req)

(* The tokens a task has to generate.  The prompt task generates the first *)
(* token, the token task the token_size - 1 others.                        *)
TokensToGenerate(t) == IF IsPrompt(t) THEN 1 ELSE trace[t.req].token - 1

(* The tokens a task brings to the batch in every iteration.               *)
TokensPerIteration(t) == IF IsPrompt(t) THEN trace[t.req].prompt ELSE 1
=============================================================================
