--------------------------- MODULE CompileService ---------------------------
(***************************************************************************)
(* What the backend promises the tester about compiling, with none of its  *)
(* caches, modules and symbols: PrepareCases succeeds or fails as a whole, *)
(* and a key asked for in RunCase is ready to be called, unsupported, or a *)
(* backend error.                                                          *)
(*                                                                         *)
(* JitCache implements it; TestRun is built on it.                         *)
(***************************************************************************)
CONSTANT Keys  \* the (address, opcode) pairs

VARIABLES
  fate,      \* what Remill and the JIT can do with each key (external)
  mayFail,   \* whether they may fail beyond that (external)
  batch,     \* the keys that were prepared
  prepared,  \* what PrepareCases returned
  verdict    \* the last answer for each key

vars == <<fate, mayFail, batch, prepared, verdict>>

Fates == {"ok", "decode", "lift", "unresolved"}

Init ==
  /\ fate \in [Keys -> Fates]
  /\ mayFail \in BOOLEAN
  /\ batch = {}
  /\ prepared = "no"
  /\ verdict = [k \in Keys |-> "none"]

Refused(k) == fate[k] \in {"decode", "lift"}

Prepared(k) == prepared = "done" /\ k \in batch

\* The answer for k will not change any more.
Settled(k) == Prepared(k) \/ verdict[k] \in {"ready", "unsupported"}

\* A key that does not link was asked for.  The backend goes on looking for
\* its symbol, and so links no further key.
Stuck == \E k \in Keys : fate[k] = "unresolved" /\ verdict[k] = "backend"

\* The batch is one module, which links as a whole.
Links(keys) == \A k \in keys : fate[k] # "unresolved"

Prepare(keys) ==
  /\ prepared = "no"
  /\ \A k \in Keys : verdict[k] = "none"
  /\ \/ prepared' = "done" /\ Links(keys)
     \/ prepared' = "failed" /\ (mayFail \/ ~ Links(keys))
  /\ batch' = keys
  /\ UNCHANGED <<fate, mayFail, verdict>>

IsReady(k) == fate[k] = "ok" /\ (Settled(k) \/ ~ Stuck \/ mayFail)

IsBackendError(k) ==
  /\ ~ Settled(k)
  /\ mayFail \/ fate[k] = "unresolved" \/ (fate[k] = "ok" /\ Stuck)

Demand(k) ==
  /\ prepared # "failed"
  /\ \E answer \in {"ready", "unsupported", "backend"} :
       /\ answer = "ready" => IsReady(k)
       /\ answer = "unsupported" => Refused(k)
       /\ answer = "backend" => IsBackendError(k)
       /\ verdict' = [verdict EXCEPT ![k] = answer]
  /\ UNCHANGED <<fate, mayFail, batch, prepared>>

Next ==
  \/ \E keys \in SUBSET Keys : Prepare(keys)
  \/ \E k \in Keys : Demand(k)

Spec == Init /\ [][Next]_vars

=============================================================================
