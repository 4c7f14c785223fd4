------------------------------ MODULE JitCache ------------------------------
(***************************************************************************)
(* The compile caches of RemillBackend (remill_backend.cpp).               *)
(*                                                                         *)
(* A row is compiled under its key, address and opcode.  Its function is   *)
(* first defined in a pending module that many keys share, and gets a      *)
(* machine address only when the module is moved into the JIT and its      *)
(* symbols are looked up.  PrepareCases compiles a batch this way before   *)
(* any row runs; RunCase compiles a key it does not know on demand.        *)
(*                                                                         *)
(* Remill, LLVM and the JIT are external.  What they make of a key is its  *)
(* fate, fixed but unknown; what may go wrong in them at any attempt is    *)
(* allowed when mayFail holds.                                             *)
(***************************************************************************)
EXTENDS Integers, Sequences, SequencesExt

CONSTANTS
  Keys,          \* the (address, opcode) pairs of the rows
  Environments   \* the values mayFail may have

ASSUME KeysAssumption == \A k \in Keys : DOMAIN k = {"address", "opcode"}
ASSUME EnvironmentAssumption == Environments \subseteq BOOLEAN

(***************************************************************************)
(* "ok": decodes, lifts, and every helper it calls resolves.               *)
(* "decode", "lift": Remill refuses it there.                              *)
(* "unresolved": it lifts, but calls a helper that the JIT cannot find.    *)
(***************************************************************************)
Fates == {"ok", "decode", "lift", "unresolved"}

VARIABLES
  fate,             \* what becomes of each key (external)
  mayFail,          \* whether LLVM, Remill or a module may fail to be set up
                    \* (external)
  initialized,      \* initialized_
  pending,          \* pending_module_: is one loaded, and what it defines
  pendingCompiled,  \* pending_compiled_, as keys
  cache,            \* cache_: key -> name, and the code its function points to
  failed,           \* failed_compile_cache_: key -> error
  nextId,           \* next_function_id_
  dylib,            \* what the JIT has been given: name -> code
  pc,               \* where the request in progress is
  request,          \* which request that is
  todo,             \* the rows PrepareCases has still to define
  batch,            \* the keys PrepareCases was called with
  prepared,         \* what PrepareCases returned
  verdict           \* what the last RunCase of a key came to

caches == <<pending, pendingCompiled, cache, failed, nextId>>
client == <<request, todo, batch, prepared, verdict>>
vars == <<fate, mayFail, initialized, caches, dylib, pc, client>>

NoRequest == [op |-> "none"]

Requests == {NoRequest, [op |-> "prepare"]} \cup [op : {"run"}, key : Keys]

NoModule == [loaded |-> FALSE, symbols |-> <<>>]
NewModule == [loaded |-> TRUE, symbols |-> <<>>]

\* The classes of error strings; "" stands for success.
Errors == {"", "decode", "lift", "other"}

Verdicts == {"none", "ready", "unsupported", "backend"}

Init ==
  /\ fate \in [Keys -> Fates]
  /\ mayFail \in Environments
  /\ initialized = FALSE
  /\ pending = NoModule
  /\ pendingCompiled = <<>>
  /\ cache = <<>>
  /\ failed = <<>>
  /\ nextId = 0
  /\ dylib = <<>>
  /\ pc = "idle"
  /\ request = NoRequest
  /\ todo = <<>>
  /\ batch = {}
  /\ prepared = "no"
  /\ verdict = [k \in Keys |-> "none"]

\* f with g's pairs added; f's own win.
Extend(f, g) == [x \in DOMAIN f \cup DOMAIN g |->
                   IF x \in DOMAIN f THEN f[x] ELSE g[x]]

Pair(x, y) == [z \in {x} |-> y]

IsUnsupportedCompileError(e) == e \in {"decode", "lift"}

----------------------------------------------------------------------------
(* EnsureInitialized and EnsurePendingModule.                              *)

\* Whether the set-up succeeds; when it does it is not done again.
EnsureInitialized(ok) ==
  /\ ok \/ (mayFail /\ ~ initialized)
  /\ initialized' = ok

\* The module a new function goes into: the pending one, or a fresh copy of
\* the semantics.
PendingModule == IF pending.loaded THEN pending ELSE NewModule

----------------------------------------------------------------------------
(* DefineInPendingModule.                                                  *)

\* A defect: next_function_id_ is read and not advanced.
SameId == nextId

NextId == nextId + 1

FunctionName(k) == <<nextId, k.opcode>>

\* A function whose name is taken in its module is renamed by LLVM, so the
\* name keeps denoting the first.
DefinedIn(module, k) ==
  [loaded |-> TRUE, symbols |-> Extend(module.symbols, Pair(FunctionName(k), k))]

\* A defect: the refusals are not consulted.
NotCompiled(k) == k \notin DOMAIN cache

\* Neither cache knows the key.
New(k) == k \notin DOMAIN cache /\ k \notin DOMAIN failed

\* In what follows e is the error the call comes to.
DefineKnown(k, e) ==
  /\ ~ New(k)
  /\ e = IF k \in DOMAIN cache THEN "" ELSE failed[k]
  /\ UNCHANGED caches

\* EnsurePendingModule fails: nothing is remembered.
NoPendingModule(k, e) ==
  /\ New(k) /\ e = "other"
  /\ mayFail /\ ~ pending.loaded
  /\ UNCHANGED caches

\* fail(): the key is not tried again.  The intrinsic table of Remill may be
\* missing, or it refuses the instruction; a function that does not lift is
\* erased again, and its id is spent.
DefineFails(k, e) ==
  /\ New(k)
  /\ \/ e = "other" /\ mayFail
     \/ e = fate[k] /\ e \in {"decode", "lift"}
  /\ failed' = Extend(failed, Pair(k, e))
  /\ pending' = PendingModule
  /\ nextId' = IF e = "lift" THEN NextId ELSE nextId
  /\ UNCHANGED <<pendingCompiled, cache>>

Lifts(k, e) ==
  /\ New(k) /\ e = ""
  /\ fate[k] \in {"ok", "unresolved"}
  /\ nextId' = NextId
  /\ pending' = DefinedIn(PendingModule, k)
  /\ pendingCompiled' = Append(pendingCompiled, k)
  /\ cache' = Extend(cache, Pair(k, [name |-> FunctionName(k), function |-> {}]))
  /\ UNCHANGED failed

DefineInPendingModule(k, e) ==
  \/ DefineKnown(k, e)
  \/ NoPendingModule(k, e)
  \/ DefineFails(k, e)
  \/ Lifts(k, e)

----------------------------------------------------------------------------
(* PrepareCases.  The tester calls it once, before it runs any row, and    *)
(* gives up when it returns false.                                         *)

PrepareFailed ==
  /\ prepared' = "failed"
  /\ pc' = "idle"
  /\ request' = NoRequest

PrepareCases(rows) ==
  /\ pc = "idle" /\ prepared = "no"
  /\ \A k \in Keys : verdict[k] = "none"
  /\ batch' = ToSet(rows)
  /\ \/ /\ EnsureInitialized(TRUE)
        /\ pc' = "define"
        /\ request' = [op |-> "prepare"]
        /\ todo' = rows
        /\ UNCHANGED prepared
     \/ /\ EnsureInitialized(FALSE)
        /\ PrepareFailed
        /\ UNCHANGED todo
  /\ UNCHANGED <<fate, mayFail, caches, dylib, verdict>>

\* A defect: no error of a single row stops the batch.
AnyError(e) == TRUE

\* Refusals are expected, any other error ends the batch.
MayGoOn(e) == e = "" \/ IsUnsupportedCompileError(e)

\* A defect: the loop does not advance.
Same(rows) == rows

Rest(rows) == Tail(rows)

PrepareRow ==
  /\ pc = "define" /\ todo # <<>>
  /\ \E e \in Errors :
       /\ DefineInPendingModule(Head(todo), e)
       /\ IF MayGoOn(e)
            THEN todo' = Rest(todo) /\ UNCHANGED <<pc, request, prepared>>
            ELSE todo' = <<>> /\ PrepareFailed
  /\ UNCHANGED <<fate, mayFail, initialized, dylib, batch, verdict>>

\* A defect: PrepareCases returns without finalizing the module.
PrepareWithoutFinalize ==
  /\ pc = "define" /\ todo = <<>>
  /\ pc' = "linked"
  /\ UNCHANGED <<fate, mayFail, initialized, caches, dylib, client>>

PrepareAllDefined ==
  /\ pc = "define" /\ todo = <<>>
  /\ pc' = "finalize"
  /\ UNCHANGED <<fate, mayFail, initialized, caches, dylib, client>>

----------------------------------------------------------------------------
(* RunCase up to the call of the compiled function, with Compile.          *)

Verdict(k, v) ==
  /\ verdict' = [verdict EXCEPT ![k] = v]
  /\ pc' = "idle"
  /\ request' = NoRequest

CompileFailed(k, e) ==
  Verdict(k, IF IsUnsupportedCompileError(e) THEN "unsupported" ELSE "backend")

Finalizing(k) ==
  /\ pc' = "finalize"
  /\ request' = [op |-> "run", key |-> k]
  /\ UNCHANGED verdict

RunUninitialized(k) ==
  /\ EnsureInitialized(FALSE)
  /\ Verdict(k, "backend")
  /\ UNCHANGED <<fate, mayFail, caches, dylib, todo, batch, prepared>>

RunKnown(k) ==
  /\ EnsureInitialized(TRUE)
  /\ ~ New(k)
  /\ IF k \in DOMAIN failed
       THEN CompileFailed(k, failed[k])
       ELSE IF cache[k].function # {} THEN Verdict(k, "ready")
                                      ELSE Finalizing(k)
  /\ UNCHANGED <<fate, mayFail, caches, dylib, todo, batch, prepared>>

RunNew(k) ==
  /\ EnsureInitialized(TRUE)
  /\ New(k)
  /\ \E e \in Errors :
       /\ DefineInPendingModule(k, e)
       /\ IF e = "" THEN Finalizing(k) ELSE CompileFailed(k, e)
  /\ UNCHANGED <<fate, mayFail, dylib, todo, batch, prepared>>

RunCase(k) ==
  /\ pc = "idle" /\ prepared # "failed"
  /\ RunUninitialized(k) \/ RunKnown(k) \/ RunNew(k)

----------------------------------------------------------------------------
(* FinalizePendingModule.  It leaves the request "linked" when it returns  *)
(* true, else "broken", and Finish goes on from there.                     *)

NothingToFinalize ==
  /\ pc = "finalize"
  /\ ~ pending.loaded \/ pendingCompiled = <<>>
  /\ pending' = NoModule
  /\ pc' = "linked"
  /\ UNCHANGED <<fate, mayFail, initialized, pendingCompiled, cache, failed,
                 nextId, dylib, client>>

\* The module is moved away whether the JIT accepts it or not, and a name the
\* JIT already has makes it refuse.
AddIRModule ==
  /\ pc = "finalize"
  /\ pending.loaded /\ pendingCompiled # <<>>
  /\ pending' = NoModule
  /\ \/ /\ DOMAIN pending.symbols \cap DOMAIN dylib = {}
        /\ dylib' = Extend(dylib,
                      [n \in DOMAIN pending.symbols |->
                         [code |-> pending.symbols[n],
                          module |-> DOMAIN pending.symbols]])
        /\ pc' = "lookup"
     \/ /\ \/ mayFail
           \/ DOMAIN pending.symbols \cap DOMAIN dylib # {}
        /\ pc' = "broken"
        /\ UNCHANGED dylib
  /\ UNCHANGED <<fate, mayFail, initialized, pendingCompiled, cache, failed,
                 nextId, client>>

\* The JIT links a module as a whole: one helper it cannot find and no symbol
\* of the module resolves.
Resolves(name) ==
  /\ name \in DOMAIN dylib
  /\ \A n \in dylib[name].module : fate[dylib[n].code] # "unresolved"

\* The symbols before the first that does not resolve get their address.
Looked ==
  {k \in ToSet(pendingCompiled) :
     \E i \in 1..Len(pendingCompiled) :
        /\ pendingCompiled[i] = k
        /\ \A j \in 1..i : Resolves(cache[pendingCompiled[j]].name)}

\* A defect: the pointer is taken from the first symbol of the batch.
FirstSymbol(k) == {dylib[cache[pendingCompiled[1]].name].code}

SymbolOf(k) == {dylib[cache[k].name].code}

\* A defect: the list is emptied on failure too.
NoneLeft == <<>>

\* The list is only emptied when every lookup has succeeded.
StillPending ==
  IF Looked = ToSet(pendingCompiled) THEN <<>> ELSE pendingCompiled

LookupAll ==
  /\ pc = "lookup"
  /\ cache' = [k \in DOMAIN cache |->
                 IF k \in Looked THEN [cache[k] EXCEPT !.function = SymbolOf(k)]
                                 ELSE cache[k]]
  /\ pendingCompiled' = StillPending
  /\ pc' = IF Looked = ToSet(pendingCompiled) THEN "linked" ELSE "broken"
  /\ UNCHANGED <<fate, mayFail, initialized, pending, failed, nextId,
                 dylib, client>>

\* A defect: a key whose function has no address counts as ready.
AnswerAnyway(k) == "ready"

\* A defect: the error stands in for the outcome.
ErrorAsAnswer(k) == "other"

\* Compile returns null when the key still has no function.
Answer(k) ==
  IF pc = "linked" /\ cache[k].function # {} THEN "ready" ELSE "backend"

Finish ==
  /\ pc \in {"linked", "broken"}
  /\ pc' = "idle" /\ request' = NoRequest
  /\ IF request.op = "prepare"
       THEN /\ prepared' = IF pc = "linked" THEN "done" ELSE "failed"
            /\ UNCHANGED verdict
       ELSE /\ verdict' = [verdict EXCEPT ![request.key] = Answer(request.key)]
            /\ UNCHANGED prepared
  /\ UNCHANGED <<fate, mayFail, initialized, caches, dylib, todo, batch>>

----------------------------------------------------------------------------

Finalize == NothingToFinalize \/ AddIRModule \/ LookupAll

Proceed == PrepareRow \/ PrepareAllDefined \/ Finalize \/ Finish

\* Run gives PrepareCases each key at most once.
Batches == {s \in UNION {[1..n -> Keys] : n \in 0..3} :
              \A i, j \in DOMAIN s : s[i] = s[j] => i = j}

Next ==
  \/ \E rows \in Batches : PrepareCases(rows)
  \/ \E k \in Keys : RunCase(k)
  \/ Proceed

\* A request that has begun runs to its end.
Spec == Init /\ [][Next]_vars /\ WF_vars(Proceed)

(* Properties.                                                             *)

Compiled == [name : Nat \X {k.opcode : k \in Keys},
             function : {{}} \cup {{k} : k \in Keys}]

TypeOK ==
  /\ fate \in [Keys -> Fates]
  /\ mayFail \in BOOLEAN
  /\ initialized \in BOOLEAN
  /\ pending.loaded \in BOOLEAN
  /\ \A n \in DOMAIN pending.symbols : pending.symbols[n] \in Keys
  /\ pendingCompiled \in Seq(Keys)
  /\ DOMAIN cache \subseteq Keys
  /\ \A k \in DOMAIN cache : cache[k] \in Compiled
  /\ DOMAIN failed \subseteq Keys
  /\ \A k \in DOMAIN failed : failed[k] \in Errors \ {""}
  /\ nextId \in Nat
  /\ \A n \in DOMAIN dylib : dylib[n].code \in Keys
  /\ pc \in {"idle", "define", "finalize", "lookup", "linked", "broken"}
  /\ request \in Requests
  /\ todo \in Seq(Keys)
  /\ batch \subseteq Keys
  /\ prepared \in {"no", "done", "failed"}
  /\ verdict \in [Keys -> Verdicts]

\* The function a row calls was lifted from that row's own opcode at its own
\* address: two rows with the same opcode never get each other's code, which
\* only the counter in the symbol names keeps apart.
OwnCode ==
  \A k \in DOMAIN cache : cache[k].function \subseteq {k}

\* A key is either compiled or refused, and a compiled key without a function
\* is still on the list that the next Finalize looks up.
NoKeyIsForgotten ==
  /\ DOMAIN cache \cap DOMAIN failed = {}
  /\ \A k \in DOMAIN cache :
       cache[k].function = {} => k \in ToSet(pendingCompiled)

\* Verdicts tell the truth: a row is only called when its code really links,
\* and only skipped when Remill really refuses it.
VerdictsAreTrue ==
  \A k \in Keys :
    /\ verdict[k] = "ready" => fate[k] = "ok"
    /\ verdict[k] = "unsupported" => fate[k] \in {"decode", "lift"}

\* After a successful PrepareCases no row of the batch can end in a backend
\* error, whatever is compiled on demand in between.
PreparedNeverBackend ==
  prepared = "done" => \A k \in batch : verdict[k] # "backend"

\* The verdict of a key does not change from row to row: once ready or
\* unsupported, always so.
VerdictsAreFinal ==
  [][\A k \in Keys : verdict[k] \in {"ready", "unsupported"}
                       => verdict'[k] = verdict[k]]_vars

\* Running a key of the batch compiles nothing: RunCase answers at once, and
\* the semantics module is not loaded again for it.
PreparedKeysAnswerAtOnce ==
  prepared = "done" /\ request.op = "run" => request.key \notin batch

\* What Run relies on: the tester sees requests that are answered at once, the
\* answers depend on nothing but what Remill and the JIT can do and on whether
\* a key that does not link was asked for before, and without failures of the
\* environment they are determined by that.  A batch is seen when it returns.
Service == INSTANCE CompileService
             WITH batch <- IF prepared = "no" THEN {} ELSE batch

ImplementsCompileService == Service!Spec

----------------------------------------------------------------------------
(* The inductive invariant.                                                *)

\* An id is spent once, so no new name is taken already.
NamesAreSpent ==
  /\ \A n \in DOMAIN pending.symbols \cup DOMAIN dylib : n[1] \in 0..(nextId - 1)
  /\ \A k \in DOMAIN cache : cache[k].name[1] \in 0..(nextId - 1)

\* Wherever the name of a compiled key is defined, it denotes that key's code.
NamesDenoteTheirKey ==
  \A k \in DOMAIN cache :
    /\ cache[k].name \in DOMAIN pending.symbols =>
         pending.symbols[cache[k].name] = k
    /\ cache[k].name \in DOMAIN dylib => dylib[cache[k].name].code = k

\* A symbol is a symbol of its own module.
ModulesAreWhole == \A n \in DOMAIN dylib : n \in dylib[n].module

\* What is on the list is in the cache.
ListedAreCached == ToSet(pendingCompiled) \subseteq DOMAIN cache

Refused(k) == k \in DOMAIN failed /\ IsUnsupportedCompileError(failed[k])

Callable(k) == k \in DOMAIN cache /\ cache[k].function # {}

CachesTellFates ==
  /\ \A k \in DOMAIN cache : fate[k] \in {"ok", "unresolved"}
  /\ \A k \in Keys : /\ Callable(k) => fate[k] = "ok"
                     /\ Refused(k) => fate[k] = failed[k]

VerdictsHaveGrounds ==
  \A k \in Keys : /\ verdict[k] = "ready" => Callable(k)
                  /\ verdict[k] = "unsupported" => Refused(k)

\* A request that goes on to finalize is for a key without a final verdict.
RequestInProgress ==
  /\ pc # "idle" => request # NoRequest
  /\ pc = "idle" => request = NoRequest
  /\ request.op = "run" =>
       /\ pc # "define"
       /\ request.key \in DOMAIN cache
       /\ verdict[request.key] \in {"none", "backend"}

Untouched == \A k \in Keys : verdict[k] = "none"

\* How far PrepareCases has come with its batch.
BatchInProgress ==
  /\ prepared = "no" /\ Untouched /\ pc = "idle" =>
       DOMAIN cache = {} /\ DOMAIN failed = {}
  /\ request.op = "prepare" => prepared = "no" /\ Untouched /\ initialized
  /\ request.op = "prepare" /\ pc # "broken" =>
       \A k \in batch : \/ pc = "define" /\ k \in ToSet(todo)
                        \/ k \in DOMAIN cache
                        \/ Refused(k)
  /\ request.op = "prepare" /\ pc \in {"define", "finalize"} =>
       pendingCompiled = <<>> \/ pending.loaded
  /\ request.op = "prepare" /\ pc = "linked" => pendingCompiled = <<>>

BatchIsReady ==
  prepared = "done" =>
    /\ initialized
    /\ \A k \in batch : /\ Callable(k) \/ Refused(k)
                        /\ verdict[k] # "backend"
    /\ request.op = "run" => request.key \notin batch

IInv ==
  /\ TypeOK
  /\ OwnCode /\ NoKeyIsForgotten
  /\ NamesAreSpent /\ NamesDenoteTheirKey /\ ModulesAreWhole
  /\ ListedAreCached /\ CachesTellFates /\ VerdictsHaveGrounds
  /\ RequestInProgress /\ BatchInProgress /\ BatchIsReady

\* Every request ends: Run is never left waiting for a compile.
RequestsEnd == pc # "idle" ~> pc = "idle"

(***************************************************************************)
(* What README.md says of gaps in coverage: they are kept apart from the   *)
(* other results.  So a helper that the JIT does not have costs the rows   *)
(* that need it; a row that Remill and the JIT can handle is executed.     *)
(***************************************************************************)
GapsStayApart ==
  \A k \in Keys : fate[k] = "ok" => verdict[k] \in {"none", "ready"}

=============================================================================
