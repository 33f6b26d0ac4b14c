----------------------------- MODULE RunnerStartup -----------------------------
(***************************************************************************)
(* The model runner before its first request, from                         *)
(* docker/model_runner_profile_trace.py: the traced profile run, the       *)
(* throwaway cache on which the graphs are measured, the real cache, its   *)
(* zeroing metadata and the capture.  The worker calls these in this       *)
(* order, the measurement of the graphs only if it is wanted.              *)
(*                                                                         *)
(* Every cache gets a number; `uses` says on which cache each of the parts *)
(* that keep a reference to one was built.                                 *)
(***************************************************************************)
EXTENDS Naturals, FiniteSets

VARIABLES
    phase,    \* how far the worker is
    caches,   \* the caches that hold memory
    made,     \* how many were made
    uses,     \* uses[c]: the cache that part c was built on, 0 for none
    hooks,    \* the tracing hooks of the profile run are registered
    muted     \* the KV connector is disabled

startupVars == <<phase, caches, made, uses, hooks, muted>>

Part == {"block_tables", "attn_groups", "cudagraph_manager", "speculator", "connector", "zeroer"}

StartupTypeOK ==
    /\ phase \in {"loaded", "profiling", "profiled", "measuring", "ready", "zeroed",
                  "serving", "dead", "down"}
    /\ caches \subseteq 1..made /\ made \in 0..2
    /\ uses \in [Part -> 0..2]
    /\ hooks \in BOOLEAN /\ muted \in BOOLEAN

StartupInit ==
    /\ phase = "loaded" /\ caches = {} /\ made = 0
    /\ uses = [c \in Part |-> 0] /\ hooks = FALSE /\ muted = FALSE

(* profile_run up to the dummy run, which turns the connector off.         *)
BeginProfile ==
    /\ phase = "loaded" /\ phase' = "profiling"
    /\ hooks' = TRUE /\ muted' = TRUE
    /\ UNCHANGED <<caches, made, uses>>

(* The dummy run returns, or raises: the hooks go, the worker dies with    *)
(* the connector still off.                                                *)
EndProfile ==
    /\ phase = "profiling"
    /\ hooks' = FALSE
    /\ \/ phase' = "profiled" /\ muted' = FALSE
       \/ phase' = "dead" /\ UNCHANGED muted
    /\ UNCHANGED <<caches, made, uses>>

Rebuilt == {"block_tables", "attn_groups", "cudagraph_manager", "speculator", "connector"}

InitializeKvCache ==
    /\ made' = made + 1 /\ caches' = caches \union {made + 1}
    /\ uses' = [c \in Part |-> IF c \in Rebuilt THEN made + 1 ELSE uses[c]]

(* profile_cudagraph_memory: _init_minimal_kv_cache_for_profiling ...      *)
InitMinimal ==
    /\ phase = "profiled" /\ made = 0 /\ phase' = "measuring"
    /\ InitializeKvCache
    /\ UNCHANGED <<hooks, muted>>

Released == {"block_tables", "attn_groups", "cudagraph_manager"}
BugNeedlessCleans == FALSE   \* faulty: returns before the cleanup
NeedlessCleans == TRUE   \* no graph to capture: the cache is torn down all the same

(* ... and, whether no graph needs capture, the measurement succeeds or it *)
(* raises, _cleanup_profiling_kv_cache.                                    *)
Measure ==
    /\ phase = "measuring"
    /\ \E needed \in BOOLEAN :
         /\ IF needed \/ NeedlessCleans
            THEN /\ caches' = {}
                 /\ uses' = [c \in Part |-> IF c \in Released THEN 0 ELSE uses[c]]
            ELSE UNCHANGED <<caches, uses>>
         /\ phase' \in IF needed THEN {"profiled", "dead"} ELSE {"profiled"}
    /\ UNCHANGED <<made, hooks, muted>>

InitReal ==
    /\ phase = "profiled" /\ phase' = "ready"
    /\ InitializeKvCache
    /\ UNCHANGED <<hooks, muted>>

(* _init_kv_zero_meta                                                      *)
InitZeroMeta ==
    /\ phase = "ready" /\ phase' = "zeroed"
    /\ uses' = [uses EXCEPT !["zeroer"] = CHOOSE c \in caches : TRUE]
    /\ UNCHANGED <<caches, made, hooks, muted>>

(* capture_model: the graphs, if any, are captured on the current tables.  *)
CaptureModel ==
    /\ phase = "zeroed" /\ uses["cudagraph_manager"] # 0
    /\ phase' = "serving"
    /\ UNCHANGED <<caches, made, uses, hooks, muted>>

Shutdown ==
    /\ phase = "serving" /\ phase' = "down"
    /\ caches' = {}
    /\ uses' = [uses EXCEPT !["attn_groups"] = 0, !["speculator"] = 0]
    /\ UNCHANGED <<made, hooks, muted>>

Startup ==
    \/ BeginProfile \/ EndProfile \/ InitMinimal \/ Measure
    \/ InitReal \/ InitZeroMeta \/ CaptureModel

(* Requests are served on one cache, the only one that holds memory, and   *)
(* every part was built on it; no tracing hook of the profile run is left  *)
(* and the connector is on (profile_run, profile_cudagraph_memory,         *)
(* initialize_kv_cache).                                                   *)
ServesOnOneCache ==
    phase = "serving" =>
        /\ \E g \in 1..made : caches = {g} /\ \A c \in Part : uses[c] = g
        /\ ~hooks /\ ~muted
================================================================================
