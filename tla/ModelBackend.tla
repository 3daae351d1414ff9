---------------------------- MODULE ModelBackend ----------------------------
(***************************************************************************)
(* An InferenceBackend of model-runtime behind the Arc<RwLock<..>> that    *)
(* ModelExecutor shares with whoever loads and unloads models: either of   *)
(* the two implementations, MockBackend and LlamaCppBackend.               *)
(*                                                                         *)
(* The guard of the lock is held from is_loaded to the end of infer, token *)
(* after token, and across load.  Of a model its context length is kept,   *)
(* of an inference the number of tokens generated.  What the calls of the  *)
(* llama.cpp library do is left open: each may succeed or fail, decode     *)
(* too, in a full context or not.                                          *)
(***************************************************************************)
EXTENDS Naturals

CONSTANTS ContextLengths,  \* ModelConfig::context_length of the models there are
          PromptTokens,    \* how many tokens a prompt may have; not 0 for LlamaCppBackend
          MaxTokens,       \* InferenceRequest::max_tokens; ModelExecutor asks for 128
          Nothing          \* no model, no inference

ASSUME BackendAssumption == /\ ContextLengths \subseteq Nat
                            /\ PromptTokens \subseteq Nat
                            /\ MaxTokens \in Nat
                            /\ Nothing \notin Nat

VARIABLES kind,       \* which implementation this is
          model,      \* the context length of the loaded model
          lock,       \* the RwLock: free, or who holds its guard
          inference   \* the invocation in progress: see FindsModel

backendVars == <<kind, model, lock, inference>>

BackendInit == /\ kind \in {"mock", "llama"}
               /\ model = Nothing
               /\ lock = "free"
               /\ inference = Nothing

is_loaded == model # Nothing

Unlock == lock' = "free" /\ inference' = Nothing
-----------------------------------------------------------------------------
(* ModelExecutor::execute, the part that holds the read guard.             *)

ReadLock == /\ lock = "free"
            /\ lock' = "read"
            /\ UNCHANGED <<kind, model, inference>>

\* Nothing is loaded: the executor passes the action through.
FindsNoModel == /\ lock = "read"
                /\ ~is_loaded
                /\ Unlock
                /\ UNCHANGED <<kind, model>>

\* A mutant: the guard lives to the end of the condition only, and infer is to take
\* another.
MutFindsModelUnlocks == /\ lock = "read" /\ inference = Nothing
                        /\ is_loaded
                        /\ inference' = [model |-> model, stage |-> "found", completion |-> 0]
                        /\ lock' = "free"
                        /\ UNCHANGED <<kind, model>>

\* A model is loaded, and goes into the invocation; it is "found" until infer has
\* taken the prompt, and then alternates between "decoded" and "sampled".
FindsModel == /\ lock = "read" /\ inference = Nothing
              /\ is_loaded
              /\ inference' = [model |-> model, stage |-> "found", completion |-> 0]
              /\ UNCHANGED <<kind, model, lock>>

At(place) == inference # Nothing /\ inference.stage = place

\* The checks that infer begins with: NotLoaded, ContextLengthExceeded.
Accepts(p) == is_loaded /\ p <= model

InferBegins(p) == /\ At("found")
                  /\ Accepts(p)
                  /\ inference' = [inference EXCEPT !.stage = "decoded"]
                  /\ UNCHANGED <<kind, model, lock>>

InferRefuses(p) == /\ At("found")
                   /\ ~Accepts(p)
                   /\ Unlock
                   /\ UNCHANGED <<kind, model>>

\* A round of the loop: a token is sampled and counted, and then decoded, the last
\* one, too.
InferSamples == /\ At("decoded") /\ kind = "llama"
                /\ inference.completion < MaxTokens
                /\ inference' = [inference EXCEPT !.stage = "sampled", !.completion = @ + 1]
                /\ UNCHANGED <<kind, model, lock>>

InferDecodes == /\ At("sampled")
                /\ inference' = [inference EXCEPT !.stage = "decoded"]
                /\ UNCHANGED <<kind, model, lock>>

\* MockBackend answers at once; the loop ends after max_tokens rounds or at a
\* token that ends the generation.  llmd asks for no stop sequences.
InferEnds == /\ At("decoded")
             /\ Unlock
             /\ UNCHANGED <<kind, model>>

\* A call of the library fails: what was generated so far is dropped.
InferFails == /\ inference # Nothing /\ kind = "llama"
              /\ Unlock
              /\ UNCHANGED <<kind, model>>
-----------------------------------------------------------------------------
(* load and unload, under the write guard.                                 *)

LoadBegins == /\ lock = "free"
              /\ lock' = "write"
              /\ UNCHANGED <<kind, model, inference>>

\* LlamaBackend::init succeeds once at a time: with a model loaded,
\* LlamaCppBackend cannot load another.
LoadEnds(n) == /\ lock = "write"
               /\ kind = "llama" => ~is_loaded
               /\ model' = n
               /\ lock' = "free"
               /\ UNCHANGED <<kind, inference>>

\* init or load_from_file fails: what was loaded stays.
LoadFails == /\ lock = "write" /\ kind = "llama"
             /\ lock' = "free"
             /\ UNCHANGED <<kind, model, inference>>

UnloadModel == /\ lock = "free"
               /\ is_loaded
               /\ model' = Nothing
               /\ UNCHANGED <<kind, lock, inference>>

BackendChanges == \/ LoadBegins \/ LoadFails \/ UnloadModel
                  \/ \E n \in ContextLengths : LoadEnds(n)
-----------------------------------------------------------------------------
BackendTypeOK == /\ kind \in {"mock", "llama"}
                 /\ model \in ContextLengths \cup {Nothing}
                 /\ lock \in {"free", "read", "write"}
                 /\ inference \in [model : ContextLengths, completion : 0..MaxTokens,
                                   stage : {"found", "decoded", "sampled"}] \cup {Nothing}

\* An invocation that found a model keeps it to its end: no load and no unload
\* comes between is_loaded and infer, or into a generation, so that an action
\* that was allowed never fails because its model went away.
InvocationKeepsModel == inference # Nothing => model = inference.model
=============================================================================
