----------------------------- MODULE RequestPath -----------------------------
(***************************************************************************)
(* What the cluster promises to one request: the order in which the nodes  *)
(* of its DAG run (node.py, executor.py) and where its KV-cache is held    *)
(* meanwhile (task.py, flow.py, instance.py).                              *)
(*                                                                         *)
(* When a task runs, is preempted or waits for memory is left open: an     *)
(* event that submits a node either leaves it queued or runs it at once    *)
(* (runs).  Cluster.tla implements this specification for each request.    *)
(***************************************************************************)
EXTENDS Integers

CONSTANT Shapes       \* the request sizes the trace may contain

ASSUME PathAssumption ==
  Shapes \subseteq [prompt : Nat \ {0}, token : Nat \ {0}]

VARIABLES size,       \* prompt_size and token_size
          placed,     \* "no", or "same" or "apart": instances of the tasks
          prompt, flow, token,   \* NodeState of the three nodes
          generated,  \* tokens generated by the token task
          memory,     \* request.memory
          heldSrc,    \* memory_allocs[request] on the prompt's instance
          heldDest    \* the same on the token's instance, if another

pvars == <<size, placed, prompt, flow, token, generated, memory, heldSrc, heldDest>>

NodeState == {"NONE", "QUEUED", "RUNNING", "BLOCKED", "COMPLETED"}

PromptCache == size.prompt + 1
TokenCache  == size.token - 1
FullCache   == PromptCache + TokenCache

(* The types; no instance frees more of a request than it holds.           *)
TypeOK ==
  /\ size \in Shapes
  /\ placed \in {"no", "same", "apart"}
  /\ prompt \in NodeState /\ flow \in NodeState /\ token \in NodeState
  /\ generated \in Nat
  /\ memory \in Nat /\ heldSrc \in Nat /\ heldDest \in Nat

Init ==
  /\ size \in Shapes
  /\ placed = "no"
  /\ prompt = "NONE" /\ flow = "NONE" /\ token = "NONE"
  /\ generated = 0
  /\ memory = 0 /\ heldSrc = 0 /\ heldDest = 0
-----------------------------------------------------------------------------
Submitted(runs) == IF runs THEN "RUNNING" ELSE "QUEUED"

Amount(runs, n) == IF runs THEN n ELSE 0

(* The scheduler places the request and the executor submits its root and, *)
(* when they are chained, its token task.                                  *)
Arrive(where, runs) ==
  /\ placed = "no"
  /\ placed' = where
  /\ prompt' = Submitted(runs)
  /\ token' = IF where = "same" THEN "QUEUED" ELSE "NONE"
  /\ heldSrc' = heldSrc + Amount(runs, PromptCache)
  /\ memory' = memory + Amount(runs, PromptCache)
  /\ UNCHANGED <<size, flow, generated, heldDest>>

RunPrompt ==
  /\ prompt = "QUEUED"
  /\ prompt' = "RUNNING"
  /\ heldSrc' = heldSrc + PromptCache
  /\ memory' = memory + PromptCache
  /\ UNCHANGED <<size, placed, flow, token, generated, heldDest>>

(* The prompt task keeps its memory when it completes.  Next is the flow,  *)
(* which copies the cache, or the token task in the next batch.            *)
FinishPrompt(runs) ==
  /\ prompt = "RUNNING"
  /\ prompt' = "COMPLETED"
  /\ IF placed = "apart"
     THEN /\ flow' = Submitted(runs)
          /\ heldDest' = heldDest + Amount(runs, memory)
          /\ UNCHANGED <<token, heldSrc, memory>>
     ELSE /\ token' = Submitted(runs)
          /\ heldSrc' = heldSrc + Amount(runs, TokenCache)
          /\ memory' = memory + Amount(runs, TokenCache)
          /\ UNCHANGED <<flow, heldDest>>
  /\ UNCHANGED <<size, placed, generated>>

RunFlow ==
  /\ flow = "QUEUED"
  /\ flow' = "RUNNING"
  /\ heldDest' = heldDest + memory
  /\ UNCHANGED <<size, placed, prompt, token, generated, memory, heldSrc>>

(* Flow.complete frees request.memory at the source before the token task  *)
(* can add to it.                                                          *)
FinishFlow(runs) ==
  /\ flow = "RUNNING"
  /\ flow' = "COMPLETED"
  /\ token' = Submitted(runs)
  /\ heldSrc' = heldSrc - memory
  /\ heldDest' = heldDest + Amount(runs, TokenCache)
  /\ memory' = memory + Amount(runs, TokenCache)
  /\ UNCHANGED <<size, placed, prompt, generated>>

(* Faulty: does not wait for the prompt task of the chain.                 *)
RunTokenEarly ==
  /\ token = "QUEUED"
  /\ token' = "RUNNING"
  /\ heldSrc' = heldSrc + (IF placed = "same" THEN TokenCache ELSE 0)
  /\ heldDest' = heldDest + (IF placed = "apart" THEN TokenCache ELSE 0)
  /\ memory' = memory + TokenCache
  /\ UNCHANGED <<size, placed, prompt, flow, generated>>

(* The token task starts once its predecessors are complete.               *)
RunToken ==
  /\ token = "QUEUED" /\ prompt = "COMPLETED"
  /\ token' = "RUNNING"
  /\ heldSrc' = heldSrc + (IF placed = "same" THEN TokenCache ELSE 0)
  /\ heldDest' = heldDest + (IF placed = "apart" THEN TokenCache ELSE 0)
  /\ memory' = memory + TokenCache
  /\ UNCHANGED <<size, placed, prompt, flow, generated>>

(* A run of iterations ends before the last token; the next batch retains  *)
(* the task or preempts it.                                                *)
Generate(n, preempts) ==
  /\ token = "RUNNING"
  /\ generated + n < TokenCache
  /\ generated' = generated + n
  /\ token' = IF preempts THEN "BLOCKED" ELSE "RUNNING"
  /\ UNCHANGED <<size, placed, prompt, flow, memory, heldSrc, heldDest>>

Resume ==
  /\ token = "BLOCKED"
  /\ token' = "RUNNING"
  /\ UNCHANGED <<size, placed, prompt, flow, generated, memory, heldSrc, heldDest>>

(* Faulty: frees what the token task allocated.                            *)
FinishTokenFreesOwn ==
  /\ token = "RUNNING"
  /\ token' = "COMPLETED"
  /\ generated' = TokenCache
  /\ heldSrc' = heldSrc - (IF placed = "same" THEN TokenCache ELSE 0)
  /\ heldDest' = heldDest - (IF placed = "apart" THEN TokenCache ELSE 0)
  /\ memory' = 0
  /\ UNCHANGED <<size, placed, prompt, flow>>

(* The last token: all memory of the request is freed.                     *)
FinishToken ==
  /\ token = "RUNNING"
  /\ token' = "COMPLETED"
  /\ generated' = TokenCache
  /\ heldSrc' = heldSrc - (IF placed = "same" THEN memory ELSE 0)
  /\ heldDest' = heldDest - (IF placed = "apart" THEN memory ELSE 0)
  /\ memory' = 0
  /\ UNCHANGED <<size, placed, prompt, flow>>

Done == token = "COMPLETED" /\ UNCHANGED pvars

Next ==
  \/ \E where \in {"same", "apart"}, runs \in BOOLEAN : Arrive(where, runs)
  \/ RunPrompt
  \/ \E runs \in BOOLEAN : FinishPrompt(runs) \/ FinishFlow(runs)
  \/ RunFlow
  \/ RunToken
  \/ \E n \in 1 .. TokenCache, preempts \in BOOLEAN : Generate(n, preempts)
  \/ Resume
  \/ FinishToken
  \/ Done

Spec == Init /\ [][Next]_pvars
-----------------------------------------------------------------------------
(* The cache is held where the request is and nowhere else: from the start *)
(* of the prompt task on its instance; on both sides while the flow runs;  *)
(* then, with room for the whole answer from the moment it starts, on that *)
(* of the token task, preempted or not.  Nothing is left at the end.       *)
CacheFollowsRequest ==
  /\ token \in {"RUNNING", "BLOCKED"} =>
       IF placed = "same" THEN heldSrc = FullCache
                          ELSE heldSrc = 0 /\ heldDest = FullCache
  /\ flow = "RUNNING" => heldSrc = PromptCache /\ heldDest = PromptCache
  /\ flow = "COMPLETED" => heldSrc = 0
  /\ token = "COMPLETED" => heldSrc = 0 /\ heldDest = 0

(* A token task runs only after the prompt task and the transfer, and only *)
(* the answer that was asked for is generated.                             *)
DecodeAfterPrefill ==
  /\ token \in {"RUNNING", "BLOCKED", "COMPLETED"} =>
       prompt = "COMPLETED" /\ (placed = "apart" => flow = "COMPLETED")
  /\ generated <= TokenCache
  /\ token = "COMPLETED" => generated = TokenCache
=============================================================================
