-------------------------- MODULE JitCacheProofs ---------------------------
(***************************************************************************)
(* Theorems about JitCache, for every set of keys, whatever becomes of     *)
(* each and whether or not the environment may fail.  The inductive        *)
(* invariant is IInv.  The part of it that is about the caches alone is    *)
(* CacheInv; it is shown once for what PrepareCases and RunCase both do,   *)
(* DefineInPendingModule.                                                  *)
(***************************************************************************)
EXTENDS JitCache, TLAPS

CacheTypes ==
  /\ pending.loaded \in BOOLEAN
  /\ \A n \in DOMAIN pending.symbols : pending.symbols[n] \in Keys
  /\ pendingCompiled \in Seq(Keys)
  /\ DOMAIN cache \subseteq Keys
  /\ \A k \in DOMAIN cache : cache[k] \in Compiled
  /\ DOMAIN failed \subseteq Keys
  /\ \A k \in DOMAIN failed : failed[k] \in Errors \ {""}
  /\ nextId \in Nat
  /\ \A n \in DOMAIN dylib : dylib[n].code \in Keys

CacheInv ==
  /\ CacheTypes
  /\ OwnCode /\ NoKeyIsForgotten
  /\ NamesAreSpent /\ NamesDenoteTheirKey /\ ModulesAreWhole
  /\ ListedAreCached /\ CachesTellFates

\* What a step never takes back: a key in the cache, a refusal, an address.
Kept ==
  /\ DOMAIN cache \subseteq DOMAIN cache'
  /\ \A k \in Keys : (Callable(k) => Callable(k)') /\ (Refused(k) => Refused(k)')

----------------------------------------------------------------------------
(* Sequences and functions.                                                *)

LEMMA ToSetAppend ==
  ASSUME NEW S, NEW s \in Seq(S), NEW x \in S
  PROVE  ToSet(Append(s, x)) = ToSet(s) \cup {x}
<1>1. /\ DOMAIN s = 1..Len(s) /\ Len(s) \in Nat
      /\ DOMAIN Append(s, x) = 1..(Len(s) + 1)
      /\ \A i \in 1..Len(s) : Append(s, x)[i] = s[i]
      /\ Append(s, x)[Len(s) + 1] = x
  OBVIOUS
<1>2. \A i : i \in 1..(Len(s) + 1) <=> i \in 1..Len(s) \/ i = Len(s) + 1
  BY <1>1
<1> QED
  BY <1>1, <1>2 DEF ToSet

LEMMA ToSetTail ==
  ASSUME NEW S, NEW s \in Seq(S), s # <<>>
  PROVE  /\ Head(s) \in S
         /\ Tail(s) \in Seq(S)
         /\ ToSet(s) \subseteq {Head(s)} \cup ToSet(Tail(s))
<1>1. Head(s) \in S /\ Tail(s) \in Seq(S)
  OBVIOUS
<1>2. /\ DOMAIN s = 1..Len(s) /\ Len(s) \in Nat \ {0}
      /\ DOMAIN Tail(s) = 1..(Len(s) - 1)
      /\ \A i \in 1..(Len(s) - 1) : Tail(s)[i] = s[i + 1]
      /\ Head(s) = s[1]
  OBVIOUS
<1>3. ASSUME NEW i \in 1..Len(s)
      PROVE  s[i] \in {Head(s)} \cup ToSet(Tail(s))
  <2>1. CASE i = 1
    BY <1>2, <2>1
  <2>2. CASE i # 1
    <3>1. i - 1 \in 1..(Len(s) - 1) /\ (i - 1) + 1 = i
      BY <1>2, <2>2
    <3>2. Tail(s)[i - 1] = s[i]
      BY <1>2, <3>1
    <3> QED
      BY <1>2, <3>1, <3>2 DEF ToSet
  <2> QED
    BY <2>1, <2>2
<1> QED
  BY <1>1, <1>2, <1>3 DEF ToSet

LEMMA ToSetEmpty ==
  /\ ToSet(<<>>) = {}
  /\ \A S : \A s \in Seq(S) : ToSet(s) = {} => s = <<>>
<1>1. ToSet(<<>>) = {}
  BY DEF ToSet
<1>2. ASSUME NEW S, NEW s \in Seq(S), ToSet(s) = {}
      PROVE  s = <<>>
  <2>1. SUFFICES ASSUME s # <<>> PROVE FALSE
    OBVIOUS
  <2>2. 1 \in DOMAIN s
    BY <2>1
  <2> QED
    BY <1>2, <2>2 DEF ToSet
<1> QED
  BY <1>1, <1>2

LEMMA ExtendPair ==
  ASSUME NEW f, NEW x, NEW y, x \notin DOMAIN f
  PROVE  /\ DOMAIN Extend(f, Pair(x, y)) = DOMAIN f \cup {x}
         /\ \A z \in DOMAIN f : Extend(f, Pair(x, y))[z] = f[z]
         /\ Extend(f, Pair(x, y))[x] = y
  BY DEF Extend, Pair

----------------------------------------------------------------------------
(* The initial state.                                                      *)

LEMMA InitIInv == Init => IInv
<1> SUFFICES ASSUME Init PROVE IInv
  OBVIOUS
<1>1. /\ DOMAIN cache = {} /\ DOMAIN failed = {} /\ DOMAIN dylib = {}
      /\ DOMAIN pending.symbols = {}
      /\ ToSet(pendingCompiled) = {}
  BY ToSetEmpty DEF Init, NoModule
<1>2. TypeOK
  <2>1. ~ pending.loaded /\ pending.loaded \in BOOLEAN
    BY DEF Init, NoModule
  <2>2. <<>> \in Seq(Keys)
    OBVIOUS
  <2>3. request \in Requests /\ verdict \in [Keys -> Verdicts]
    BY DEF Init, Requests, Verdicts
  <2> QED
    BY <1>1, <2>1, <2>2, <2>3, EnvironmentAssumption DEF Init, TypeOK
<1> QED
  BY <1>1, <1>2
  DEF Init, IInv, OwnCode, NoKeyIsForgotten, NamesAreSpent, NamesDenoteTheirKey,
      ModulesAreWhole, ListedAreCached, CachesTellFates, VerdictsHaveGrounds,
      Refused, Callable, RequestInProgress, BatchInProgress, BatchIsReady,
      Untouched, NoRequest

----------------------------------------------------------------------------
(* DefineInPendingModule.                                                  *)

LEMMA Fresh ==
  ASSUME CacheInv, NEW k \in Keys
  PROVE  /\ FunctionName(k) \notin DOMAIN pending.symbols
         /\ FunctionName(k) \notin DOMAIN dylib
         /\ \A j \in DOMAIN cache : cache[j].name # FunctionName(k)
         /\ FunctionName(k)[1] = nextId
<1>1. FunctionName(k)[1] = nextId /\ nextId \in Nat
  BY DEF FunctionName, CacheInv, CacheTypes
<1>2. nextId \notin 0..(nextId - 1)
  BY <1>1
<1> QED
  BY <1>1, <1>2 DEF CacheInv, NamesAreSpent

LEMMA PendingModuleFacts ==
  ASSUME CacheInv
  PROVE  /\ PendingModule.loaded
         /\ DOMAIN PendingModule.symbols \subseteq DOMAIN pending.symbols
         /\ \A n \in DOMAIN PendingModule.symbols :
              PendingModule.symbols[n] = pending.symbols[n]
<1>1. CASE pending.loaded
  BY <1>1 DEF PendingModule
<1>2. CASE ~ pending.loaded
  <2>1. PendingModule.loaded /\ PendingModule.symbols = <<>>
    BY <1>2 DEF PendingModule, NewModule
  <2>2. DOMAIN PendingModule.symbols = {}
    BY <2>1
  <2> QED
    BY <2>1, <2>2
<1> QED
  BY <1>1, <1>2

\* A refusal leaves the caches as they have to be.
LEMMA DefineFailsInv ==
  ASSUME CacheInv, fate \in [Keys -> Fates], NEW k \in Keys, NEW e \in Errors,
         DefineFails(k, e), UNCHANGED <<fate, dylib>>
  PROVE  CacheInv' /\ Kept /\ k \in DOMAIN failed' /\ failed'[k] = e
<1>0. failed' = Extend(failed, Pair(k, e)) /\ k \notin DOMAIN failed
  BY DEF DefineFails, New
<1>1. /\ DOMAIN failed' = DOMAIN failed \cup {k}
      /\ \A j \in DOMAIN failed : failed'[j] = failed[j]
      /\ failed'[k] = e
  BY <1>0 DEF Extend, Pair
<1>2. /\ UNCHANGED <<pendingCompiled, cache, fate, dylib>>
      /\ pending' = PendingModule
      /\ nextId' \in {nextId, nextId + 1}
      /\ k \notin DOMAIN cache /\ k \notin DOMAIN failed
      /\ e # "" /\ (e \in {"decode", "lift"} => e = fate[k])
  BY DEF DefineFails, NextId, New, Errors
<1>3. nextId \in Nat /\ nextId' \in Nat /\ 0..(nextId - 1) \subseteq 0..(nextId' - 1)
  <2>1. nextId \in Nat
    BY DEF CacheInv, CacheTypes
  <2>2. nextId' = nextId \/ nextId' = nextId + 1
    BY <1>2
  <2> QED
    BY <2>1, <2>2
<1>4. CacheTypes' /\ NamesAreSpent'
  <2>1. \A j \in DOMAIN failed' : failed'[j] \in Errors \ {""}
    BY <1>1, <1>2 DEF CacheInv, CacheTypes
  <2>2. /\ pending'.loaded \in BOOLEAN
        /\ \A n \in DOMAIN pending'.symbols : pending'.symbols[n] \in Keys
    BY <1>2, PendingModuleFacts DEF CacheInv, CacheTypes
  <2>3. DOMAIN failed' \subseteq Keys
    BY <1>1 DEF CacheInv, CacheTypes
  <2>4. /\ pendingCompiled' \in Seq(Keys)
        /\ DOMAIN cache' \subseteq Keys
        /\ \A j \in DOMAIN cache' : cache'[j] \in Compiled
        /\ \A n \in DOMAIN dylib' : dylib'[n].code \in Keys
    BY <1>2 DEF CacheInv, CacheTypes
  <2>5. CacheTypes'
    BY <1>3, <2>1, <2>2, <2>3, <2>4 DEF CacheTypes, Compiled
  <2> QED
    BY <1>2, <1>3, <2>5, PendingModuleFacts DEF CacheInv, NamesAreSpent
<1>5. NamesDenoteTheirKey' /\ ModulesAreWhole' /\ ListedAreCached'
  BY <1>2, PendingModuleFacts
  DEF CacheInv, NamesDenoteTheirKey, ModulesAreWhole, ListedAreCached
<1>6. OwnCode' /\ NoKeyIsForgotten'
  <2>1. DOMAIN cache' \cap DOMAIN failed' = {}
    BY <1>1, <1>2 DEF CacheInv, NoKeyIsForgotten
  <2> QED
    BY <1>2, <2>1 DEF CacheInv, OwnCode, NoKeyIsForgotten
<1>7. CachesTellFates' /\ Kept
  BY <1>1, <1>2 DEF CacheInv, CacheTypes, CachesTellFates, Kept, Callable, Refused,
                    IsUnsupportedCompileError
<1> QED
  BY <1>1, <1>4, <1>5, <1>6, <1>7 DEF CacheInv

\* So does a new function.
LEMMA LiftsInv ==
  ASSUME CacheInv, fate \in [Keys -> Fates], NEW k \in Keys, NEW e \in Errors,
         Lifts(k, e), UNCHANGED <<fate, dylib>>
  PROVE  CacheInv' /\ Kept /\ k \in DOMAIN cache' /\ cache'[k].function = {}
<1> DEFINE name == FunctionName(k)
<1>1. /\ UNCHANGED <<failed, fate, dylib>>
      /\ nextId' = nextId + 1
      /\ k \notin DOMAIN cache /\ k \notin DOMAIN failed
      /\ fate[k] \in {"ok", "unresolved"}
  BY DEF Lifts, NextId, New
<1>2. /\ DOMAIN cache' = DOMAIN cache \cup {k}
      /\ \A j \in DOMAIN cache : cache'[j] = cache[j]
      /\ cache'[k] = [name |-> name, function |-> {}]
  <2>1. cache' = Extend(cache, Pair(k, [name |-> name, function |-> {}]))
    BY DEF Lifts
  <2> QED
    BY <1>1, <2>1 DEF Extend, Pair
<1>3. /\ pending'.loaded
      /\ DOMAIN pending'.symbols = DOMAIN PendingModule.symbols \cup {name}
      /\ \A n \in DOMAIN PendingModule.symbols :
           pending'.symbols[n] = pending.symbols[n]
      /\ pending'.symbols[name] = k
  <2>1. name \notin DOMAIN PendingModule.symbols
    BY Fresh, PendingModuleFacts
  <2>2. pending' = [loaded |-> TRUE,
                    symbols |-> Extend(PendingModule.symbols, Pair(name, k))]
    BY DEF Lifts, DefinedIn
  <2> QED
    BY <2>1, <2>2, PendingModuleFacts DEF Extend, Pair
<1>4. /\ pendingCompiled' \in Seq(Keys)
      /\ ToSet(pendingCompiled') = ToSet(pendingCompiled) \cup {k}
  <2>1. pendingCompiled \in Seq(Keys) /\ pendingCompiled' = Append(pendingCompiled, k)
    BY DEF Lifts, CacheInv, CacheTypes
  <2> QED
    BY <2>1, ToSetAppend
<1>5. nextId \in Nat /\ name[1] = nextId /\ name \in Nat \X {j.opcode : j \in Keys}
  BY DEF CacheInv, CacheTypes, FunctionName
<1>6. CacheTypes'
  <2>1. cache'[k] \in Compiled
    BY <1>2, <1>5 DEF Compiled
  <2>2. \A j \in DOMAIN cache' : cache'[j] \in Compiled
    BY <1>2, <2>1 DEF CacheInv, CacheTypes
  <2>3. \A n \in DOMAIN pending'.symbols : pending'.symbols[n] \in Keys
    BY <1>3, PendingModuleFacts DEF CacheInv, CacheTypes
  <2>4. DOMAIN cache' \subseteq Keys
    BY <1>2 DEF CacheInv, CacheTypes
  <2>5. /\ DOMAIN failed' \subseteq Keys
        /\ \A j \in DOMAIN failed' : failed'[j] \in Errors \ {""}
        /\ \A n \in DOMAIN dylib' : dylib'[n].code \in Keys
    BY <1>1 DEF CacheInv, CacheTypes
  <2>6. nextId' \in Nat
    BY <1>1, <1>5
  <2>7. pending'.loaded \in BOOLEAN
    BY <1>3
  <2> QED
    BY <1>4, <2>2, <2>3, <2>4, <2>5, <2>6, <2>7 DEF CacheTypes, Compiled
<1>7. NamesAreSpent'
  <2>1. 0..(nextId - 1) \subseteq 0..(nextId' - 1) /\ nextId \in 0..(nextId' - 1)
    BY <1>1, <1>5
  <2>2. \A n \in DOMAIN pending'.symbols : n[1] \in 0..(nextId' - 1)
    BY <1>3, <1>5, <2>1, PendingModuleFacts DEF CacheInv, NamesAreSpent
  <2>3. \A j \in DOMAIN cache' : cache'[j].name[1] \in 0..(nextId' - 1)
    BY <1>2, <1>5, <2>1 DEF CacheInv, NamesAreSpent
  <2>4. \A n \in DOMAIN dylib' : n[1] \in 0..(nextId' - 1)
    BY <1>1, <2>1 DEF CacheInv, NamesAreSpent
  <2> QED
    BY <2>2, <2>3, <2>4 DEF NamesAreSpent
<1>8. NamesDenoteTheirKey'
  BY <1>1, <1>2, <1>3, Fresh, PendingModuleFacts DEF CacheInv, NamesDenoteTheirKey
<1>9. ModulesAreWhole' /\ ListedAreCached' /\ OwnCode' /\ NoKeyIsForgotten'
  BY <1>1, <1>2, <1>4
  DEF CacheInv, ModulesAreWhole, ListedAreCached, OwnCode, NoKeyIsForgotten
<1>10. CachesTellFates' /\ Kept
  BY <1>1, <1>2 DEF CacheInv, CachesTellFates, Kept, Callable, Refused
<1> QED
  BY <1>2, <1>6, <1>7, <1>8, <1>9, <1>10 DEF CacheInv

LEMMA DefineInv ==
  ASSUME CacheInv, fate \in [Keys -> Fates], NEW k \in Keys, NEW e \in Errors,
         DefineInPendingModule(k, e), UNCHANGED <<fate, dylib>>
  PROVE  /\ CacheInv' /\ Kept
         /\ e = "" => k \in DOMAIN cache'
         /\ IsUnsupportedCompileError(e) => Refused(k)'
         /\ (pendingCompiled = <<>> \/ pending.loaded) =>
              (pendingCompiled' = <<>> \/ pending'.loaded)
<1>1. CASE DefineKnown(k, e)
  <2>1. UNCHANGED <<pending, pendingCompiled, cache, failed, nextId, dylib, fate>>
    BY <1>1 DEF DefineKnown, caches
  <2>2. CacheInv' /\ Kept
    BY <2>1 DEF CacheInv, CacheTypes, OwnCode, NoKeyIsForgotten, NamesAreSpent,
                NamesDenoteTheirKey, ModulesAreWhole, ListedAreCached,
                CachesTellFates, Kept, Callable, Refused
  <2>3. (e = "" => k \in DOMAIN cache') /\ (IsUnsupportedCompileError(e) => Refused(k)')
    BY <1>1, <2>1 DEF DefineKnown, New, Refused, IsUnsupportedCompileError,
                      CacheInv, CacheTypes, Errors
  <2> QED
    BY <2>1, <2>2, <2>3
<1>2. CASE NoPendingModule(k, e)
  <2>1. UNCHANGED <<pending, pendingCompiled, cache, failed, nextId, dylib, fate>>
    BY <1>2 DEF NoPendingModule, caches
  <2>2. CacheInv' /\ Kept
    BY <2>1 DEF CacheInv, CacheTypes, OwnCode, NoKeyIsForgotten, NamesAreSpent,
                NamesDenoteTheirKey, ModulesAreWhole, ListedAreCached,
                CachesTellFates, Kept, Callable, Refused
  <2> QED
    BY <1>2, <2>1, <2>2 DEF NoPendingModule, IsUnsupportedCompileError
<1>3. CASE DefineFails(k, e)
  <2>1. pending'.loaded /\ e # ""
    BY <1>3, PendingModuleFacts DEF DefineFails
  <2> QED
    BY <1>3, <2>1, DefineFailsInv DEF Refused
<1>4. CASE Lifts(k, e)
  <2>1. pending'.loaded /\ e = ""
    BY <1>4 DEF Lifts, DefinedIn
  <2> QED
    BY <1>4, <2>1, LiftsInv DEF IsUnsupportedCompileError
<1> QED
  BY <1>1, <1>2, <1>3, <1>4 DEF DefineInPendingModule

----------------------------------------------------------------------------
(* The rest of the invariant, about the client.                            *)

ClientTypes ==
  /\ fate \in [Keys -> Fates]
  /\ mayFail \in BOOLEAN
  /\ initialized \in BOOLEAN
  /\ pc \in {"idle", "define", "finalize", "lookup", "linked", "broken"}
  /\ request \in Requests
  /\ todo \in Seq(Keys)
  /\ batch \subseteq Keys
  /\ prepared \in {"no", "done", "failed"}
  /\ verdict \in [Keys -> Verdicts]

ClientInv ==
  /\ ClientTypes
  /\ VerdictsHaveGrounds /\ RequestInProgress
  /\ BatchInProgress /\ BatchIsReady

LEMMA Parts == IInv <=> CacheInv /\ ClientInv
  BY DEF IInv, CacheInv, ClientInv, TypeOK, CacheTypes, ClientTypes

LEMMA PartsNext == IInv' <=> CacheInv' /\ ClientInv'
  BY DEF IInv, CacheInv, ClientInv, TypeOK, CacheTypes, ClientTypes

\* A step that leaves the caches alone.
LEMMA SameCaches ==
  ASSUME CacheInv, UNCHANGED <<fate, caches, dylib>>
  PROVE  CacheInv' /\ Kept
  BY DEF caches, CacheInv, CacheTypes, OwnCode, NoKeyIsForgotten, NamesAreSpent,
         NamesDenoteTheirKey, ModulesAreWhole, ListedAreCached, CachesTellFates,
         Kept, Callable, Refused

LEMMA RequestKinds ==
  /\ NoRequest \in Requests /\ NoRequest.op = "none"
  /\ [op |-> "prepare"] \in Requests
  /\ \A k \in Keys : /\ [op |-> "run", key |-> k] \in Requests
                     /\ [op |-> "run", key |-> k] # NoRequest
  /\ [op |-> "prepare"] # NoRequest
  BY DEF Requests, NoRequest

\* A key that is neither callable nor refused has no final verdict.
LEMMA NotFinal ==
  ASSUME ClientInv, NEW k \in Keys, ~ Callable(k), ~ Refused(k)
  PROVE  verdict[k] \in {"none", "backend"}
<1>1. verdict[k] \in Verdicts
  BY DEF ClientInv, ClientTypes
<1>2. verdict[k] # "ready" /\ verdict[k] # "unsupported"
  BY DEF ClientInv, VerdictsHaveGrounds
<1> QED
  BY <1>1, <1>2 DEF Verdicts

\* RunCase that comes to a verdict at once.
LEMMA VerdictInv ==
  ASSUME ClientInv, Kept, NEW k \in Keys, NEW v \in Verdicts \ {"none"},
         Verdict(k, v), UNCHANGED <<fate, mayFail, todo, batch, prepared>>,
         pc = "idle",
         initialized' \in BOOLEAN, prepared = "done" => initialized',
         v = "ready" => Callable(k)',
         v = "unsupported" => Refused(k)',
         v = "backend" => ~ (prepared = "done" /\ k \in batch)
  PROVE  ClientInv'
<1>1. /\ verdict' = [verdict EXCEPT ![k] = v] /\ pc' = "idle"
      /\ request' = NoRequest /\ request'.op = "none"
  BY RequestKinds DEF Verdict
<1>2. /\ verdict' \in [Keys -> Verdicts]
      /\ \A j \in Keys : verdict'[j] = IF j = k THEN v ELSE verdict[j]
  BY <1>1 DEF ClientInv, ClientTypes
<1>3. ClientTypes'
  BY <1>1, <1>2, RequestKinds DEF ClientInv, ClientTypes
<1>4. VerdictsHaveGrounds'
  BY <1>2 DEF ClientInv, VerdictsHaveGrounds, Kept
<1>5. RequestInProgress'
  BY <1>1 DEF RequestInProgress
<1>6. BatchInProgress'
  <2>1. verdict'[k] # "none"
    BY <1>2
  <2> QED
    BY <1>1, <2>1 DEF BatchInProgress, Untouched
<1>7. BatchIsReady'
  BY <1>1, <1>2 DEF ClientInv, ClientTypes, BatchIsReady, Kept
<1> QED
  BY <1>3, <1>4, <1>5, <1>6, <1>7 DEF ClientInv

\* RunCase that has to finalize first.
LEMMA FinalizingInv ==
  ASSUME ClientInv, Kept, NEW k \in Keys, Finalizing(k),
         UNCHANGED <<fate, mayFail, todo, batch, prepared>>,
         initialized' \in BOOLEAN, prepared = "done" => initialized' /\ k \notin batch,
         k \in DOMAIN cache', verdict[k] \in {"none", "backend"}
  PROVE  ClientInv'
<1>1. /\ pc' = "finalize" /\ request' = [op |-> "run", key |-> k]
      /\ verdict' = verdict
      /\ request'.op = "run" /\ request'.key = k /\ request' # NoRequest
  BY RequestKinds DEF Finalizing
<1>2. ClientTypes'
  BY <1>1, RequestKinds DEF ClientInv, ClientTypes
<1>3. VerdictsHaveGrounds' /\ RequestInProgress'
  BY <1>1 DEF ClientInv, VerdictsHaveGrounds, Kept, RequestInProgress
<1>4. BatchInProgress'
  BY <1>1 DEF BatchInProgress
<1>5. BatchIsReady'
  BY <1>1 DEF ClientInv, ClientTypes, BatchIsReady, Kept
<1> QED
  BY <1>2, <1>3, <1>4, <1>5 DEF ClientInv

----------------------------------------------------------------------------
(* RunCase.                                                                *)

LEMMA RunCaseInv ==
  ASSUME IInv, NEW k \in Keys, RunCase(k)
  PROVE  IInv'
<1>1. CacheInv /\ ClientInv /\ fate \in [Keys -> Fates]
  BY Parts DEF ClientInv, ClientTypes
<1>2. pc = "idle" /\ request.op = "none"
  BY <1>1, RequestKinds DEF RunCase, ClientInv, RequestInProgress
<1>3. CASE RunUninitialized(k)
  <2>1. /\ ~ initialized /\ initialized' = FALSE
        /\ Verdict(k, "backend")
        /\ UNCHANGED <<fate, mayFail, caches, dylib, todo, batch, prepared>>
    BY <1>3 DEF RunUninitialized, EnsureInitialized
  <2>2. prepared # "done"
    BY <1>1, <2>1 DEF ClientInv, BatchIsReady
  <2>3. CacheInv' /\ Kept
    BY <1>1, <2>1, SameCaches
  <2>4. ClientInv'
    BY <1>1, <1>2, <2>1, <2>2, <2>3, VerdictInv DEF Verdicts
  <2> QED
    BY <2>3, <2>4, PartsNext
<1>4. CASE RunKnown(k)
  <2>1. /\ initialized' = TRUE
        /\ UNCHANGED <<fate, mayFail, caches, dylib, todo, batch, prepared>>
    BY <1>4 DEF RunKnown, EnsureInitialized
  <2>2. CacheInv' /\ Kept
    BY <1>1, <2>1, SameCaches
  <2>3. CASE k \in DOMAIN failed
    <3> DEFINE v == IF IsUnsupportedCompileError(failed[k]) THEN "unsupported"
                                                            ELSE "backend"
    <3>1. Verdict(k, v)
      BY <1>4, <2>3 DEF RunKnown, CompileFailed
    <3>2. k \notin DOMAIN cache
      BY <1>1, <2>3 DEF CacheInv, NoKeyIsForgotten
    <3>3. v = "unsupported" => Refused(k)
      BY <2>3 DEF Refused
    <3>4. v = "backend" => ~ (prepared = "done" /\ k \in batch)
      BY <1>1, <3>2 DEF ClientInv, BatchIsReady, Callable, Refused
    <3>5. v \in Verdicts \ {"none"} /\ v # "ready"
      BY DEF Verdicts
    <3>6. v = "unsupported" => Refused(k)'
      BY <2>2, <3>3 DEF Kept
    <3> HIDE DEF v
    <3>7. ClientInv'
      BY <1>1, <1>2, <2>1, <2>2, <3>1, <3>4, <3>5, <3>6, VerdictInv
    <3> QED
      BY <2>2, <3>7, PartsNext
  <2>4. CASE k \notin DOMAIN failed /\ cache[k].function # {}
    <3>1. Verdict(k, "ready") /\ k \in DOMAIN cache
      BY <1>4, <2>4 DEF RunKnown, New
    <3>2. Callable(k)'
      BY <2>2, <2>4, <3>1 DEF Kept, Callable
    <3>3. ClientInv'
      BY <1>1, <1>2, <2>1, <2>2, <3>1, <3>2, VerdictInv DEF Verdicts
    <3> QED
      BY <2>2, <3>3, PartsNext
  <2>5. CASE k \notin DOMAIN failed /\ cache[k].function = {}
    <3>1. Finalizing(k) /\ k \in DOMAIN cache
      BY <1>4, <2>5 DEF RunKnown, New
    <3>2. ~ Callable(k) /\ ~ Refused(k)
      BY <2>5 DEF Callable, Refused
    <3>3. prepared = "done" => k \notin batch
      BY <1>1, <3>2 DEF ClientInv, BatchIsReady
    <3>4. verdict[k] \in {"none", "backend"}
      BY <1>1, <3>2, NotFinal
    <3>5. k \in DOMAIN cache'
      BY <2>2, <3>1 DEF Kept
    <3>6. ClientInv'
      BY <1>1, <2>1, <2>2, <3>1, <3>3, <3>4, <3>5, FinalizingInv
    <3> QED
      BY <2>2, <3>6, PartsNext
  <2> QED
    BY <2>3, <2>4, <2>5
<1>5. CASE RunNew(k)
  <2>1. /\ initialized' = TRUE /\ New(k)
        /\ UNCHANGED <<fate, mayFail, dylib, todo, batch, prepared>>
    BY <1>5 DEF RunNew, EnsureInitialized
  <2>2. PICK e \in Errors :
          /\ DefineInPendingModule(k, e)
          /\ IF e = "" THEN Finalizing(k) ELSE CompileFailed(k, e)
    BY <1>5 DEF RunNew
  <2>3. /\ CacheInv' /\ Kept
        /\ e = "" => k \in DOMAIN cache'
        /\ IsUnsupportedCompileError(e) => Refused(k)'
    BY <1>1, <2>1, <2>2, DefineInv
  <2>4. ~ Callable(k) /\ ~ Refused(k)
    BY <2>1 DEF New, Callable, Refused
  <2>5. prepared = "done" => k \notin batch
    BY <1>1, <2>4 DEF ClientInv, BatchIsReady
  <2>6. CASE e = ""
    <3>1. verdict[k] \in {"none", "backend"}
      BY <1>1, <2>4, NotFinal
    <3>2. ClientInv'
      BY <1>1, <2>1, <2>2, <2>3, <2>5, <2>6, <3>1, FinalizingInv
    <3> QED
      BY <2>3, <3>2, PartsNext
  <2>7. CASE e # ""
    <3> DEFINE v == IF IsUnsupportedCompileError(e) THEN "unsupported" ELSE "backend"
    <3>1. Verdict(k, v)
      BY <2>2, <2>7 DEF CompileFailed
    <3>2. v \in Verdicts \ {"none"} /\ v # "ready" /\ (v = "unsupported" => Refused(k)')
      BY <2>3 DEF Verdicts
    <3> HIDE DEF v
    <3>3. ClientInv'
      BY <1>1, <1>2, <2>1, <2>3, <2>5, <3>1, <3>2, VerdictInv
    <3> QED
      BY <2>3, <3>3, PartsNext
  <2> QED
    BY <2>6, <2>7
<1> QED
  BY <1>3, <1>4, <1>5 DEF RunCase

----------------------------------------------------------------------------
(* PrepareCases.                                                           *)

LEMMA PrepareCasesInv ==
  ASSUME IInv, NEW rows \in Batches, PrepareCases(rows)
  PROVE  IInv'
<1>1. CacheInv /\ ClientInv
  BY Parts
<1>2. /\ pc = "idle" /\ prepared = "no" /\ Untouched /\ batch' = ToSet(rows)
      /\ UNCHANGED <<fate, mayFail, caches, dylib, verdict>>
  BY DEF PrepareCases, Untouched
<1>3. DOMAIN cache = {} /\ DOMAIN failed = {}
  BY <1>1, <1>2 DEF ClientInv, BatchInProgress
<1>4. CacheInv' /\ Kept
  BY <1>1, <1>2, SameCaches
<1>5. rows \in Seq(Keys) /\ ToSet(rows) \subseteq Keys
  <2>1. PICK n \in 0..3 : rows \in [1..n -> Keys]
    BY DEF Batches
  <2> QED
    BY <2>1 DEF ToSet
<1>6. VerdictsHaveGrounds' /\ Untouched'
  BY <1>1, <1>2, <1>4 DEF ClientInv, VerdictsHaveGrounds, Untouched, Kept
<1>7. pendingCompiled' = <<>>
  <2>1. ToSet(pendingCompiled) = {} /\ pendingCompiled \in Seq(Keys)
    BY <1>1, <1>3 DEF CacheInv, CacheTypes, ListedAreCached
  <2> QED
    BY <1>2, <2>1, ToSetEmpty DEF caches
<1>8. CASE pc' = "define"
  <2>1. /\ initialized' = TRUE /\ request' = [op |-> "prepare"] /\ request'.op = "prepare"
        /\ todo' = rows /\ prepared' = "no"
    BY <1>2, <1>8 DEF PrepareCases, EnsureInitialized, PrepareFailed
  <2>2. ClientTypes'
    BY <1>1, <1>2, <1>5, <1>8, <2>1, RequestKinds DEF ClientInv, ClientTypes
  <2>3. RequestInProgress' /\ BatchIsReady'
    BY <1>8, <2>1, RequestKinds DEF RequestInProgress, BatchIsReady
  <2>4. BatchInProgress'
    BY <1>2, <1>6, <1>7, <1>8, <2>1 DEF BatchInProgress
  <2> QED
    BY <1>4, <1>6, <2>2, <2>3, <2>4, PartsNext DEF ClientInv
<1>9. CASE pc' # "define"
  <2>1. /\ initialized' = FALSE /\ request' = NoRequest /\ request'.op = "none"
        /\ todo' = todo /\ prepared' = "failed" /\ pc' = "idle"
    BY <1>2, <1>9, RequestKinds DEF PrepareCases, EnsureInitialized, PrepareFailed
  <2>2. ClientTypes'
    BY <1>1, <1>2, <1>5, <2>1, RequestKinds DEF ClientInv, ClientTypes
  <2>3. RequestInProgress' /\ BatchIsReady' /\ BatchInProgress'
    BY <2>1 DEF RequestInProgress, BatchIsReady, BatchInProgress
  <2> QED
    BY <1>4, <1>6, <2>2, <2>3, PartsNext DEF ClientInv
<1> QED
  BY <1>8, <1>9

LEMMA PrepareRowInv ==
  ASSUME IInv, PrepareRow
  PROVE  IInv'
<1>1. CacheInv /\ ClientInv /\ fate \in [Keys -> Fates] /\ todo \in Seq(Keys)
  BY Parts DEF ClientInv, ClientTypes
<1>2. /\ pc = "define" /\ todo # <<>>
      /\ UNCHANGED <<fate, mayFail, initialized, dylib, batch, verdict>>
  BY DEF PrepareRow
<1>3. request.op = "prepare" /\ request # NoRequest
  BY <1>1, <1>2, RequestKinds DEF ClientInv, ClientTypes, RequestInProgress, Requests
<1>4. prepared = "no" /\ Untouched /\ initialized
  BY <1>1, <1>3 DEF ClientInv, BatchInProgress
<1>5. PICK h \in Keys : /\ h = Head(todo) /\ Tail(todo) \in Seq(Keys)
                        /\ ToSet(todo) \subseteq {h} \cup ToSet(Tail(todo))
  BY <1>1, <1>2, ToSetTail
<1>6. PICK e \in Errors :
        /\ DefineInPendingModule(h, e)
        /\ IF MayGoOn(e)
             THEN todo' = Tail(todo) /\ UNCHANGED <<pc, request, prepared>>
             ELSE todo' = <<>> /\ PrepareFailed
  BY <1>5 DEF PrepareRow, Rest
<1>7. /\ CacheInv' /\ Kept
      /\ e = "" => h \in DOMAIN cache'
      /\ IsUnsupportedCompileError(e) => Refused(h)'
      /\ (pendingCompiled = <<>> \/ pending.loaded) =>
           (pendingCompiled' = <<>> \/ pending'.loaded)
  BY <1>1, <1>2, <1>5, <1>6, DefineInv
<1>8. VerdictsHaveGrounds' /\ Untouched'
  BY <1>1, <1>2, <1>4, <1>7 DEF ClientInv, VerdictsHaveGrounds, Untouched, Kept
<1>9. CASE MayGoOn(e)
  <2>1. todo' = Tail(todo) /\ UNCHANGED <<pc, request, prepared>>
    BY <1>6, <1>9
  <2>2. ClientTypes' /\ RequestInProgress' /\ BatchIsReady'
    BY <1>1, <1>2, <1>3, <1>4, <1>5, <2>1
    DEF ClientInv, ClientTypes, RequestInProgress, BatchIsReady
  <2>3. h \in DOMAIN cache' \/ Refused(h)'
    BY <1>7, <1>9 DEF MayGoOn
  <2>4. \A k \in batch' : \/ pc' = "define" /\ k \in ToSet(todo')
                          \/ k \in DOMAIN cache'
                          \/ Refused(k)'
    <3>1. ASSUME NEW k \in batch
          PROVE  \/ k \in ToSet(Tail(todo))
                 \/ k \in DOMAIN cache'
                 \/ Refused(k)'
      <4>1. k \in Keys
        BY <1>1 DEF ClientInv, ClientTypes
      <4>2. k \in ToSet(todo) \/ k \in DOMAIN cache \/ Refused(k)
        BY <1>1, <1>2, <1>3 DEF ClientInv, BatchInProgress
      <4> QED
        BY <1>5, <1>7, <2>3, <4>1, <4>2 DEF Kept
    <3> QED
      BY <1>2, <2>1, <3>1
  <2>5. pendingCompiled' = <<>> \/ pending'.loaded
    BY <1>1, <1>2, <1>3, <1>7 DEF ClientInv, BatchInProgress
  <2>6. BatchInProgress'
    BY <1>2, <1>3, <1>4, <1>8, <2>1, <2>4, <2>5 DEF BatchInProgress
  <2> QED
    BY <1>7, <1>8, <2>2, <2>6, PartsNext DEF ClientInv
<1>10. CASE ~ MayGoOn(e)
  <2>1. /\ todo' = <<>> /\ prepared' = "failed" /\ pc' = "idle"
        /\ request' = NoRequest /\ request'.op = "none"
    BY <1>6, <1>10, RequestKinds DEF PrepareFailed
  <2>2. ClientTypes'
    BY <1>1, <1>2, <2>1, RequestKinds DEF ClientInv, ClientTypes
  <2>3. RequestInProgress' /\ BatchIsReady' /\ BatchInProgress'
    BY <2>1 DEF RequestInProgress, BatchIsReady, BatchInProgress
  <2> QED
    BY <1>7, <1>8, <2>2, <2>3, PartsNext DEF ClientInv
<1> QED
  BY <1>9, <1>10

LEMMA PrepareAllDefinedInv ==
  ASSUME IInv, PrepareAllDefined
  PROVE  IInv'
<1>1. CacheInv /\ ClientInv
  BY Parts
<1>2. /\ pc = "define" /\ todo = <<>> /\ pc' = "finalize"
      /\ UNCHANGED <<fate, mayFail, initialized, caches, dylib, request, todo, batch,
                     prepared, verdict>>
  BY DEF PrepareAllDefined, client
<1>3. CacheInv' /\ Kept
  BY <1>1, <1>2, SameCaches
<1>4. ClientTypes' /\ VerdictsHaveGrounds' /\ RequestInProgress' /\ BatchIsReady'
  BY <1>1, <1>2, <1>3
  DEF ClientInv, ClientTypes, VerdictsHaveGrounds, RequestInProgress, BatchIsReady,
      Kept
<1>5. BatchInProgress'
  <2>1. ToSet(todo) = {}
    BY <1>2, ToSetEmpty
  <2> QED
    BY <1>1, <1>2, <1>3, <2>1
    DEF ClientInv, ClientTypes, BatchInProgress, Untouched, Kept, caches
<1> QED
  BY <1>3, <1>4, <1>5, PartsNext DEF ClientInv

----------------------------------------------------------------------------
(* FinalizePendingModule.                                                  *)

LEMMA NothingToFinalizeInv ==
  ASSUME IInv, NothingToFinalize
  PROVE  IInv'
<1>1. CacheInv /\ ClientInv
  BY Parts
<1>2. /\ pc = "finalize" /\ pc' = "linked"
      /\ ~ pending.loaded \/ pendingCompiled = <<>>
      /\ pending'.loaded \in BOOLEAN /\ pending'.symbols = <<>>
      /\ UNCHANGED <<fate, mayFail, initialized, pendingCompiled, cache, failed,
                     nextId, dylib, request, todo, batch, prepared, verdict>>
  BY DEF NothingToFinalize, client, NoModule
<1>3. DOMAIN pending'.symbols = {}
  BY <1>2
<1>4. CacheInv' /\ Kept
  BY <1>1, <1>2, <1>3
  DEF CacheInv, CacheTypes, OwnCode, NoKeyIsForgotten, NamesAreSpent,
      NamesDenoteTheirKey, ModulesAreWhole, ListedAreCached, CachesTellFates,
      Kept, Callable, Refused
<1>5. ClientTypes' /\ VerdictsHaveGrounds' /\ RequestInProgress' /\ BatchIsReady'
  BY <1>1, <1>2, <1>4
  DEF ClientInv, ClientTypes, VerdictsHaveGrounds, RequestInProgress, BatchIsReady,
      Kept
<1>6. BatchInProgress'
  BY <1>1, <1>2, <1>4
  DEF ClientInv, ClientTypes, BatchInProgress, Untouched, Kept
<1> QED
  BY <1>4, <1>5, <1>6, PartsNext DEF ClientInv

LEMMA AddIRModuleInv ==
  ASSUME IInv, AddIRModule
  PROVE  IInv'
<1>1. CacheInv /\ ClientInv
  BY Parts
<1>2. /\ pc = "finalize" /\ pc' \in {"lookup", "broken"}
      /\ pending'.loaded \in BOOLEAN /\ pending'.symbols = <<>>
      /\ UNCHANGED <<fate, mayFail, initialized, pendingCompiled, cache, failed,
                     nextId, request, todo, batch, prepared, verdict>>
  BY DEF AddIRModule, client, NoModule
<1>3. DOMAIN pending'.symbols = {}
  BY <1>2
<1>4. /\ ModulesAreWhole' /\ NamesAreSpent' /\ NamesDenoteTheirKey'
      /\ \A n \in DOMAIN dylib' : dylib'[n].code \in Keys
  <2>1. CASE dylib' = dylib
    BY <1>1, <1>2, <1>3, <2>1
    DEF CacheInv, CacheTypes, ModulesAreWhole, NamesAreSpent, NamesDenoteTheirKey
  <2>2. CASE dylib' # dylib
    <3> DEFINE added == [n \in DOMAIN pending.symbols |->
                           [code |-> pending.symbols[n],
                            module |-> DOMAIN pending.symbols]]
    <3>1. dylib' = Extend(dylib, added)
      BY <2>2 DEF AddIRModule
    <3>2. /\ DOMAIN dylib' = DOMAIN dylib \cup DOMAIN pending.symbols
          /\ \A n \in DOMAIN dylib : dylib'[n] = dylib[n]
          /\ \A n \in DOMAIN pending.symbols \ DOMAIN dylib :
               /\ dylib'[n].code = pending.symbols[n]
               /\ dylib'[n].module = DOMAIN pending.symbols
      BY <3>1 DEF Extend
    <3>3. ModulesAreWhole' /\ \A n \in DOMAIN dylib' : dylib'[n].code \in Keys
      BY <1>1, <3>2 DEF CacheInv, CacheTypes, ModulesAreWhole
    <3>4. NamesAreSpent' /\ NamesDenoteTheirKey'
      BY <1>1, <1>2, <1>3, <3>2 DEF CacheInv, NamesAreSpent, NamesDenoteTheirKey
    <3> QED
      BY <3>3, <3>4
  <2> QED
    BY <2>1, <2>2
<1>5. CacheInv' /\ Kept
  BY <1>1, <1>2, <1>3, <1>4
  DEF CacheInv, CacheTypes, OwnCode, NoKeyIsForgotten, ListedAreCached,
      CachesTellFates, Kept, Callable, Refused
<1>6. ClientTypes' /\ VerdictsHaveGrounds' /\ RequestInProgress' /\ BatchIsReady'
  BY <1>1, <1>2, <1>5
  DEF ClientInv, ClientTypes, VerdictsHaveGrounds, RequestInProgress, BatchIsReady,
      Kept
<1>7. BatchInProgress'
  BY <1>1, <1>2, <1>5
  DEF ClientInv, ClientTypes, BatchInProgress, Untouched, Kept
<1> QED
  BY <1>5, <1>6, <1>7, PartsNext DEF ClientInv

\* What the JIT resolves is the key's own code, and all its helpers exist.
LEMMA LookedFacts ==
  ASSUME CacheInv, NEW k \in Looked
  PROVE  /\ k \in DOMAIN cache
         /\ SymbolOf(k) = {k}
         /\ fate[k] = "ok"
<1>1. PICK i \in 1..Len(pendingCompiled) :
        /\ pendingCompiled[i] = k
        /\ \A j \in 1..i : Resolves(cache[pendingCompiled[j]].name)
  BY DEF Looked
<1>2. i \in 1..i
  <2>1. pendingCompiled \in Seq(Keys)
    BY DEF CacheInv, CacheTypes
  <2> QED
    BY <1>1, <2>1
<1>3. Resolves(cache[k].name)
  BY <1>1, <1>2
<1>4. k \in DOMAIN cache
  BY DEF Looked, CacheInv, ListedAreCached
<1>5. cache[k].name \in DOMAIN dylib /\ dylib[cache[k].name].code = k
  BY <1>3, <1>4 DEF Resolves, CacheInv, NamesDenoteTheirKey
<1>6. fate[k] # "unresolved"
  BY <1>3, <1>5 DEF Resolves, CacheInv, ModulesAreWhole
<1> QED
  BY <1>4, <1>5, <1>6 DEF SymbolOf, CacheInv, CachesTellFates

\* The lookup gives functions to the keys that resolve, and empties the list
\* only when all do.
LEMMA LookupAllEffect ==
  ASSUME IInv, LookupAll
  PROVE  /\ pc = "lookup"
         /\ UNCHANGED <<fate, mayFail, initialized, pending, failed, nextId,
                        dylib, request, todo, batch, prepared, verdict>>
         /\ DOMAIN cache' = DOMAIN cache
         /\ \A k \in DOMAIN cache :
              /\ cache'[k] \in Compiled /\ cache'[k].name = cache[k].name
              /\ k \in Looked => cache'[k].function = {k} /\ fate[k] = "ok"
              /\ k \notin Looked => cache'[k].function = cache[k].function
         /\ \/ /\ pendingCompiled' = <<>> /\ Looked = ToSet(pendingCompiled)
               /\ pc' = "linked"
            \/ /\ pendingCompiled' = pendingCompiled /\ Looked # ToSet(pendingCompiled)
               /\ pc' = "broken"
<1>1. CacheInv /\ ClientInv
  BY Parts
<1>2. /\ pc = "lookup"
      /\ UNCHANGED <<fate, mayFail, initialized, pending, failed, nextId,
                     dylib, request,
                     todo, batch, prepared, verdict>>
      /\ cache' = [k \in DOMAIN cache |->
                     IF k \in Looked THEN [cache[k] EXCEPT !.function = SymbolOf(k)]
                                     ELSE cache[k]]
  BY DEF LookupAll, client
<1>3. /\ DOMAIN cache' = DOMAIN cache
      /\ \A k \in DOMAIN cache :
           /\ cache'[k] \in Compiled /\ cache'[k].name = cache[k].name
           /\ k \in Looked => cache'[k].function = {k} /\ fate[k] = "ok"
           /\ k \notin Looked => cache'[k].function = cache[k].function
  <2>1. ASSUME NEW k \in DOMAIN cache
        PROVE  /\ cache'[k] \in Compiled /\ cache'[k].name = cache[k].name
               /\ k \in Looked => cache'[k].function = {k} /\ fate[k] = "ok"
               /\ k \notin Looked => cache'[k].function = cache[k].function
    <3>1. cache[k] \in Compiled /\ k \in Keys
      BY <1>1 DEF CacheInv, CacheTypes
    <3>2. CASE k \in Looked
      <4>1. cache'[k] = [cache[k] EXCEPT !.function = {k}] /\ fate[k] = "ok"
        BY <1>1, <1>2, <3>2, LookedFacts
      <4> QED
        BY <3>1, <3>2, <4>1 DEF Compiled
    <3>3. CASE k \notin Looked
      BY <1>2, <3>1, <3>3
    <3> QED
      BY <3>2, <3>3
  <2> QED
    BY <1>2, <2>1
<1>4. \/ pendingCompiled' = <<>> /\ Looked = ToSet(pendingCompiled) /\ pc' = "linked"
      \/ /\ pendingCompiled' = pendingCompiled /\ Looked # ToSet(pendingCompiled)
         /\ pc' = "broken"
  <2>1. CASE Looked = ToSet(pendingCompiled)
    BY <2>1 DEF LookupAll, StillPending
  <2>2. CASE Looked # ToSet(pendingCompiled)
    BY <2>2 DEF LookupAll, StillPending
  <2> QED
    BY <2>1, <2>2
<1> QED
  BY <1>2, <1>3, <1>4

LEMMA LookupAllInv ==
  ASSUME IInv, LookupAll
  PROVE  IInv'
<1>1. CacheInv /\ ClientInv
  BY Parts
<1>2. /\ pc = "lookup"
      /\ UNCHANGED <<fate, mayFail, initialized, pending, failed, nextId,
                     dylib, request, todo, batch, prepared, verdict>>
  BY LookupAllEffect
<1>3. /\ DOMAIN cache' = DOMAIN cache
      /\ \A k \in DOMAIN cache :
           /\ cache'[k] \in Compiled /\ cache'[k].name = cache[k].name
           /\ k \in Looked => cache'[k].function = {k} /\ fate[k] = "ok"
           /\ k \notin Looked => cache'[k].function = cache[k].function
  BY LookupAllEffect
<1>4. \/ pendingCompiled' = <<>> /\ Looked = ToSet(pendingCompiled) /\ pc' = "linked"
      \/ pendingCompiled' = pendingCompiled /\ pc' = "broken"
  BY LookupAllEffect
<1>5. CacheTypes' /\ ListedAreCached'
  <2>0. pendingCompiled \in Seq(Keys) /\ ToSet(pendingCompiled) \subseteq DOMAIN cache
    BY <1>1 DEF CacheInv, CacheTypes, ListedAreCached
  <2>1. pendingCompiled' \in Seq(Keys) /\ ToSet(pendingCompiled') \subseteq DOMAIN cache
    <3>1. CASE pendingCompiled' = <<>>
      BY <3>1, ToSetEmpty
    <3>2. CASE pendingCompiled' = pendingCompiled
      BY <2>0, <3>2
    <3> QED
      BY <1>4, <3>1, <3>2
  <2> QED
    BY <1>1, <1>2, <1>3, <2>1 DEF CacheInv, CacheTypes, ListedAreCached, Compiled
<1>6. OwnCode'
  BY <1>1, <1>3 DEF CacheInv, OwnCode
<1>7. NoKeyIsForgotten'
  <2>1. \A k \in DOMAIN cache' :
          cache'[k].function = {} => k \in ToSet(pendingCompiled) /\ k \notin Looked
    BY <1>1, <1>3 DEF CacheInv, NoKeyIsForgotten
  <2> QED
    BY <1>1, <1>2, <1>3, <1>4, <2>1 DEF CacheInv, NoKeyIsForgotten
<1>8. NamesAreSpent' /\ NamesDenoteTheirKey' /\ ModulesAreWhole'
  BY <1>1, <1>2, <1>3
  DEF CacheInv, NamesAreSpent, NamesDenoteTheirKey, ModulesAreWhole
<1>9. CachesTellFates' /\ Kept
  BY <1>1, <1>2, <1>3 DEF CacheInv, CachesTellFates, Kept, Callable, Refused
<1>10. ClientTypes' /\ VerdictsHaveGrounds' /\ RequestInProgress' /\ BatchIsReady'
  BY <1>1, <1>2, <1>3, <1>4, <1>9
  DEF ClientInv, ClientTypes, VerdictsHaveGrounds, RequestInProgress, BatchIsReady,
      Kept
<1>11. BatchInProgress'
  BY <1>1, <1>2, <1>3, <1>4, <1>9
  DEF ClientInv, ClientTypes, BatchInProgress, Untouched, Kept
<1> QED
  BY <1>5, <1>6, <1>7, <1>8, <1>9, <1>10, <1>11, PartsNext DEF CacheInv, ClientInv

LEMMA FinishInv ==
  ASSUME IInv, Finish
  PROVE  IInv'
<1>1. CacheInv /\ ClientInv
  BY Parts
<1>2. /\ pc \in {"linked", "broken"}
      /\ pc' = "idle" /\ request' = NoRequest /\ request'.op = "none"
      /\ UNCHANGED <<fate, mayFail, initialized, caches, dylib, todo, batch>>
  BY RequestKinds DEF Finish
<1>3. CacheInv' /\ Kept
  BY <1>1, <1>2, SameCaches
<1>4. CASE request.op = "prepare"
  <2>1. verdict' = verdict /\ prepared' = IF pc = "linked" THEN "done" ELSE "failed"
    BY <1>4 DEF Finish
  <2>2. Untouched /\ initialized
    BY <1>1, <1>4 DEF ClientInv, BatchInProgress
  <2>3. ClientTypes' /\ VerdictsHaveGrounds' /\ RequestInProgress' /\ BatchInProgress'
    BY <1>1, <1>2, <1>3, <2>1, RequestKinds
    DEF ClientInv, ClientTypes, VerdictsHaveGrounds, RequestInProgress,
        BatchInProgress, Kept
  <2>4. pc = "linked" => \A k \in batch : Callable(k) \/ Refused(k)
    <3>1. pc = "linked" => pendingCompiled = <<>>
      BY <1>1, <1>4 DEF ClientInv, BatchInProgress
    <3>2. pc = "linked" => \A k \in DOMAIN cache : Callable(k)
      BY <1>1, <3>1, ToSetEmpty DEF CacheInv, NoKeyIsForgotten, Callable
    <3> QED
      BY <1>1, <1>4, <3>2 DEF ClientInv, BatchInProgress
  <2>5. BatchIsReady'
    <3>1. \A k \in batch : k \in Keys /\ verdict[k] = "none"
      BY <1>1, <2>2 DEF ClientInv, ClientTypes, Untouched
    <3> QED
      BY <1>2, <1>3, <2>1, <2>2, <2>4, <3>1 DEF BatchIsReady, Kept
  <2> QED
    BY <1>3, <2>3, <2>5, PartsNext DEF ClientInv
<1>5. CASE request.op # "prepare"
  <2>1. request.op = "run" /\ request.key \in Keys
    BY <1>1, <1>2, <1>5
    DEF ClientInv, ClientTypes, RequestInProgress, Requests, NoRequest
  <2>2. PICK k \in Keys : k = request.key
    BY <2>1
  <2>3. /\ verdict' = [verdict EXCEPT ![k] = Answer(k)] /\ prepared' = prepared
        /\ Answer(k) \in Verdicts \ {"none", "unsupported"}
        /\ Answer(k) = "ready" => cache[k].function # {}
    BY <1>5, <2>2 DEF Finish, Answer, Verdicts
  <2>4. /\ verdict' \in [Keys -> Verdicts]
        /\ \A j \in Keys : verdict'[j] = IF j = k THEN Answer(k) ELSE verdict[j]
    BY <1>1, <2>3 DEF ClientInv, ClientTypes
  <2>5. k \in DOMAIN cache
    BY <1>1, <2>1, <2>2 DEF ClientInv, RequestInProgress
  <2>6. ClientTypes' /\ RequestInProgress'
    BY <1>1, <1>2, <2>3, <2>4, RequestKinds
    DEF ClientInv, ClientTypes, RequestInProgress
  <2>7. VerdictsHaveGrounds'
    <3>1. Answer(k) = "ready" => Callable(k)
      BY <2>3, <2>5 DEF Callable
    <3> QED
      BY <1>1, <1>3, <2>3, <2>4, <3>1 DEF ClientInv, VerdictsHaveGrounds, Kept
  <2>8. BatchInProgress'
    <3>1. verdict'[k] # "none"
      BY <2>3, <2>4
    <3> QED
      BY <1>2, <3>1 DEF BatchInProgress, Untouched
  <2>9. BatchIsReady'
    <3>1. prepared = "done" => k \notin batch
      BY <1>1, <2>1, <2>2 DEF ClientInv, BatchIsReady
    <3> QED
      BY <1>1, <1>2, <1>3, <2>3, <2>4, <3>1
      DEF ClientInv, ClientTypes, BatchIsReady, Kept
  <2> QED
    BY <1>3, <2>6, <2>7, <2>8, <2>9, PartsNext DEF ClientInv
<1> QED
  BY <1>4, <1>5

----------------------------------------------------------------------------
(* The theorems.                                                           *)

\* A stuttering step, part by part.
LEMMA StutterInv ==
  ASSUME IInv, UNCHANGED vars
  PROVE  IInv'
<1>1. CacheInv /\ ClientInv
  BY Parts
<1>2. UNCHANGED <<fate, mayFail, initialized, caches, dylib, pc, request, todo, batch,
                  prepared, verdict>>
  BY DEF vars, client
<1>3. CacheInv'
  BY <1>1, <1>2, SameCaches
<1>4. ClientTypes' /\ VerdictsHaveGrounds' /\ RequestInProgress'
  BY <1>1, <1>2
  DEF ClientInv, ClientTypes, VerdictsHaveGrounds, RequestInProgress, caches,
      Callable, Refused
<1>5. BatchInProgress' /\ BatchIsReady'
  BY <1>1, <1>2
  DEF ClientInv, BatchInProgress, BatchIsReady, Untouched, caches, Callable, Refused
<1> QED
  BY <1>3, <1>4, <1>5, PartsNext DEF ClientInv

LEMMA NextIInv == IInv /\ [Next]_vars => IInv'
<1> SUFFICES ASSUME IInv, [Next]_vars PROVE IInv'
  OBVIOUS
<1>1. CASE UNCHANGED vars
  BY <1>1, StutterInv
<1>2. ASSUME NEW rows \in Batches, PrepareCases(rows) PROVE IInv'
  BY <1>2, PrepareCasesInv
<1>3. ASSUME NEW k \in Keys, RunCase(k) PROVE IInv'
  BY <1>3, RunCaseInv
<1>4. CASE PrepareRow
  BY <1>4, PrepareRowInv
<1>5. CASE PrepareAllDefined
  BY <1>5, PrepareAllDefinedInv
<1>6. CASE NothingToFinalize
  BY <1>6, NothingToFinalizeInv
<1>7. CASE AddIRModule
  BY <1>7, AddIRModuleInv
<1>8. CASE LookupAll
  BY <1>8, LookupAllInv
<1>9. CASE Finish
  BY <1>9, FinishInv
<1> QED
  BY <1>1, <1>2, <1>3, <1>4, <1>5, <1>6, <1>7, <1>8, <1>9
  DEF Next, Proceed, Finalize

\* The invariant holds in every state.
THEOREM Invariance == Spec => []IInv
  BY InitIInv, NextIInv, PTL DEF Spec

\* Every variable of RemillBackend keeps its type.
THEOREM TypeCorrect == Spec => []TypeOK
<1>1. IInv => TypeOK
  BY DEF IInv
<1> QED
  BY <1>1, Invariance, PTL

\* No row is ever run with the code of another: the function of a key is
\* lifted from that key.
THEOREM CodeIsOwn == Spec => []OwnCode
<1>1. IInv => OwnCode
  BY DEF IInv
<1> QED
  BY <1>1, Invariance, PTL

\* A compiled key without a function is always still on the list that the next
\* finalization looks up.
THEOREM KeysAreNotForgotten == Spec => []NoKeyIsForgotten
<1>1. IInv => NoKeyIsForgotten
  BY DEF IInv
<1> QED
  BY <1>1, Invariance, PTL

\* A row is only called when its code links, and only skipped when Remill
\* refuses it.
THEOREM VerdictsTrue == Spec => []VerdictsAreTrue
<1>1. IInv => VerdictsAreTrue
  BY DEF IInv, TypeOK, VerdictsAreTrue, VerdictsHaveGrounds, CachesTellFates,
         Refused, IsUnsupportedCompileError
<1> QED
  BY <1>1, Invariance, PTL

\* After PrepareCases has succeeded no key of its batch ends in a backend error.
THEOREM PreparedIsSafe == Spec => []PreparedNeverBackend
<1>1. IInv => PreparedNeverBackend
  BY DEF IInv, PreparedNeverBackend, BatchIsReady
<1> QED
  BY <1>1, Invariance, PTL

\* And running one never has to finalize a module.
THEOREM PreparedAnswers == Spec => []PreparedKeysAnswerAtOnce
<1>1. IInv => PreparedKeysAnswerAtOnce
  BY DEF IInv, PreparedKeysAnswerAtOnce, BatchIsReady
<1> QED
  BY <1>1, Invariance, PTL

\* The caches stay empty until LLVM and Remill are set up, which a later call
\* cannot undo.
InitializedFirst == DOMAIN cache # {} \/ DOMAIN failed # {} => initialized

LEMMA InitializedStep ==
  IInv /\ InitializedFirst /\ [Next]_vars => InitializedFirst'
<1> SUFFICES ASSUME IInv, InitializedFirst, [Next]_vars PROVE InitializedFirst'
  OBVIOUS
<1>1. CASE UNCHANGED vars
  BY <1>1 DEF InitializedFirst, vars, caches
<1>2. ASSUME NEW rows \in Batches, PrepareCases(rows) PROVE InitializedFirst'
  BY <1>2 DEF PrepareCases, EnsureInitialized, InitializedFirst, caches
<1>3. ASSUME NEW k \in Keys, RunCase(k) PROVE InitializedFirst'
  BY <1>3 DEF RunCase, RunUninitialized, RunKnown, RunNew, EnsureInitialized,
              InitializedFirst, caches
<1>4. CASE PrepareRow
  <2>1. request.op = "prepare"
    <3>1. pc = "define" /\ ClientTypes /\ RequestInProgress
      BY <1>4, Parts DEF PrepareRow, ClientInv
    <3> QED
      BY <3>1 DEF ClientTypes, RequestInProgress, Requests, NoRequest
  <2>2. initialized /\ initialized' = initialized
    BY <1>4, <2>1 DEF PrepareRow, IInv, BatchInProgress
  <2> QED
    BY <2>2 DEF InitializedFirst
<1>5. CASE PrepareAllDefined \/ NothingToFinalize \/ AddIRModule \/ Finish
  BY <1>5 DEF PrepareAllDefined, NothingToFinalize, AddIRModule, Finish,
              InitializedFirst, caches
<1>6. CASE LookupAll
  BY <1>6 DEF LookupAll, InitializedFirst
<1> QED
  BY <1>1, <1>2, <1>3, <1>4, <1>5, <1>6 DEF Next, Proceed, Finalize

\* A final verdict survives every step.
LEMMA FinalVerdict ==
  ASSUME IInv, InitializedFirst, [Next]_vars,
         NEW k \in Keys, verdict[k] \in {"ready", "unsupported"}
  PROVE  verdict'[k] = verdict[k]
<1>1. /\ CacheInv /\ verdict \in [Keys -> Verdicts]
      /\ verdict[k] = "ready" => Callable(k)
      /\ verdict[k] = "unsupported" => Refused(k)
  BY Parts DEF ClientInv, ClientTypes, VerdictsHaveGrounds
<1>2. Callable(k) => k \notin DOMAIN failed
  BY <1>1 DEF CacheInv, NoKeyIsForgotten, Callable
<1>3. initialized /\ ~ New(k)
  BY <1>1 DEF InitializedFirst, Callable, Refused, New
<1>4. ASSUME NEW j \in Keys, RunCase(j) PROVE verdict'[k] = verdict[k]
  <2>1. CASE j # k
    <3>1. verdict' = verdict \/ \E v : verdict' = [verdict EXCEPT ![j] = v]
      BY <1>4 DEF RunCase, RunUninitialized, RunKnown, RunNew, CompileFailed,
                  Finalizing, Verdict
    <3> QED
      BY <1>1, <2>1, <3>1
  <2>2. CASE j = k
    <3>1. RunKnown(k)
      BY <1>3, <1>4, <2>2 DEF RunCase, RunUninitialized, RunNew, EnsureInitialized
    <3>2. CASE verdict[k] = "ready"
      <4>1. verdict' = [verdict EXCEPT ![k] = "ready"]
        BY <1>1, <1>2, <3>1, <3>2 DEF RunKnown, Callable, Verdict
      <4> QED
        BY <1>1, <3>2, <4>1
    <3>3. CASE verdict[k] = "unsupported"
      <4>1. k \in DOMAIN failed /\ IsUnsupportedCompileError(failed[k])
        BY <1>1, <3>3 DEF Refused
      <4>2. verdict' = [verdict EXCEPT ![k] = "unsupported"]
        BY <3>1, <4>1 DEF RunKnown, CompileFailed, Verdict
      <4> QED
        BY <1>1, <3>3, <4>2
    <3> QED
      BY <3>2, <3>3
  <2> QED
    BY <2>1, <2>2
<1>5. CASE Finish
  <2>1. CASE request.op = "prepare"
    BY <1>5, <2>1 DEF Finish
  <2>2. CASE request.op # "prepare"
    <3>1. request.op = "run" /\ verdict[request.key] \in {"none", "backend"}
      <4>1. pc \in {"linked", "broken"} /\ ClientTypes /\ RequestInProgress
        BY <1>5, Parts DEF Finish, ClientInv
      <4> QED
        BY <2>2, <4>1 DEF ClientTypes, RequestInProgress, Requests, NoRequest
    <3>2. verdict' = [verdict EXCEPT ![request.key] = Answer(request.key)]
      BY <1>5, <2>2 DEF Finish
    <3>3. request.key # k
      BY <3>1
    <3> QED
      BY <1>1, <3>2, <3>3
  <2> QED
    BY <2>1, <2>2
<1>6. CASE verdict' = verdict
  BY <1>6
<1> QED
  BY <1>4, <1>5, <1>6
  DEF Next, Proceed, Finalize, PrepareCases, PrepareRow, PrepareAllDefined,
      NothingToFinalize, AddIRModule, LookupAll, vars, client

LEMMA InitializedFirstAlways == Spec => []InitializedFirst
<1>1. Init => InitializedFirst
  BY DEF Init, InitializedFirst
<1> QED
  BY <1>1, Invariance, InitializedStep, PTL DEF Spec

\* Once ready or unsupported, always so: how a row is answered does not depend
\* on the rows before it.
THEOREM VerdictsFinal == Spec => VerdictsAreFinal
<1>1. IInv /\ InitializedFirst /\ [Next]_vars =>
        [\A k \in Keys : verdict[k] \in {"ready", "unsupported"}
                           => verdict'[k] = verdict[k]]_vars
  BY FinalVerdict
<1> QED
  BY <1>1, Invariance, InitializedFirstAlways, PTL DEF Spec, VerdictsAreFinal

----------------------------------------------------------------------------
(***************************************************************************)
(* JitCache implements CompileService: the answers the tester sees depend  *)
(* on what Remill and the JIT can do and on nothing the caches add.        *)
(*                                                                         *)
(* Every step of JitCache is a step of the service or leaves its variables *)
(* alone.  The work is in the guards of the service: that an answer other  *)
(* than the one the key deserves has a cause outside the caches.  RInv     *)
(* collects what has to be known of the modules and the list of pending    *)
(* keys for that; it is invariant given IInv.                              *)
(***************************************************************************)

\* The pending module defines no name the JIT has, so the JIT never refuses it
\* for one.
NamesDoNotClash == DOMAIN pending.symbols \cap DOMAIN dylib = {}

\* The pending module defines listed keys only, and nothing while the lookup
\* goes on.
PendingIsListed ==
  /\ ~ pending.loaded => DOMAIN pending.symbols = {}
  /\ \A n \in DOMAIN pending.symbols : pending.symbols[n] \in ToSet(pendingCompiled)
  /\ pc = "lookup" => ~ pending.loaded

\* The JIT has its modules as a whole, and only code of compiled keys.
DylibIsCached ==
  \A n \in DOMAIN dylib : /\ dylib[n].code \in DOMAIN cache
                          /\ dylib[n].module \subseteq DOMAIN dylib

\* A refusal that is none of Remill's has its cause in the environment.
RefusalsHaveCauses == \A k \in DOMAIN failed : failed[k] = "other" => mayFail

\* Without failures of the environment no listed key loses its code.
ListedAreDefined ==
  ~ mayFail => \A k \in ToSet(pendingCompiled) :
                 cache[k].name \in DOMAIN pending.symbols \cup DOMAIN dylib

\* What PrepareCases has compiled so far is of its batch, and one key of the
\* batch that does not link is what can break it.
BatchIsAlone ==
  request.op = "prepare" =>
    /\ DOMAIN cache \cup ToSet(todo) \subseteq batch
    /\ pc = "broken" => mayFail \/ \E k \in batch : fate[k] = "unresolved"

\* A request of RunCase is for a key that has no function until the lookup.
DemandInProgress ==
  /\ request.op = "run" =>
       /\ prepared # "failed"
       /\ pc \in {"finalize", "lookup"} => ~ Callable(request.key)
       /\ pc = "linked" => pendingCompiled = <<>> \/ ~ Callable(request.key)
  /\ pc = "broken" => pendingCompiled # <<>>

\* The key asked for is alone on the list, and either does not link or is on
\* its way into the JIT.
RequestIsAlone ==
  /\ request.op = "run" /\ pendingCompiled = <<request.key>>
  /\ \/ fate[request.key] = "unresolved"
     \/ pc = "finalize" /\ cache[request.key].name \in DOMAIN pending.symbols
     \/ pc = "lookup" /\ Resolves(cache[request.key].name)

\* The list begins with a key that does not link and was asked for before, and
\* no lookup will get past it.
ListIsStuck ==
  /\ pendingCompiled # <<>>
  /\ fate[pendingCompiled[1]] = "unresolved"
  /\ verdict[pendingCompiled[1]] = "backend"

\* What is left on the list between requests, and during one, when the
\* environment does not fail: the one thing RunCase depends on the past for.
ListHasCauses ==
  ~ mayFail /\ request.op # "prepare" /\ prepared # "failed" =>
    pendingCompiled = <<>> \/ ListIsStuck \/ RequestIsAlone

BackendErrorsAreCached ==
  ~ mayFail => \A k \in Keys : verdict[k] = "backend" => k \in DOMAIN cache

Settled(k) == (prepared = "done" /\ k \in batch) \/ verdict[k] = "ready"

\* No key becomes callable on the side, while another one is asked for.
CallableAreSettled ==
  ~ mayFail /\ request.op # "prepare" /\ prepared # "failed" =>
    \A k \in Keys : Callable(k) => \/ Settled(k)
                                   \/ pc = "linked" /\ request = [op |-> "run", key |-> k]

ModulesInv ==
  /\ NamesDoNotClash /\ PendingIsListed /\ DylibIsCached
  /\ RefusalsHaveCauses /\ ListedAreDefined

DemandInv ==
  /\ BatchIsAlone /\ DemandInProgress
  /\ ListHasCauses /\ BackendErrorsAreCached /\ CallableAreSettled

RInv == ModulesInv /\ DemandInv

----------------------------------------------------------------------------
(* The initial state, and steps that leave the modules alone.              *)

LEMMA InitRInv == Init => RInv
<1> SUFFICES ASSUME Init PROVE RInv
  OBVIOUS
<1>1. /\ DOMAIN cache = {} /\ DOMAIN failed = {} /\ DOMAIN dylib = {}
      /\ DOMAIN pending.symbols = {} /\ pendingCompiled = <<>>
      /\ ToSet(pendingCompiled) = {}
  BY ToSetEmpty DEF Init, NoModule
<1>2. pc = "idle" /\ request.op = "none" /\ \A k \in Keys : verdict[k] = "none"
  BY DEF Init, NoRequest
<1>3. ModulesInv
  BY <1>1, <1>2
  DEF ModulesInv, NamesDoNotClash, PendingIsListed, DylibIsCached,
      RefusalsHaveCauses, ListedAreDefined
<1>4. DemandInv
  BY <1>1, <1>2
  DEF DemandInv, BatchIsAlone, DemandInProgress, ListHasCauses,
      BackendErrorsAreCached, CallableAreSettled, Callable
<1> QED
  BY <1>3, <1>4 DEF RInv

LEMMA SameModules ==
  ASSUME ModulesInv, UNCHANGED <<fate, mayFail, caches, dylib>>, pc' # "lookup"
  PROVE  ModulesInv'
  BY DEF ModulesInv, NamesDoNotClash, PendingIsListed, DylibIsCached,
         RefusalsHaveCauses, ListedAreDefined, caches

----------------------------------------------------------------------------
(* DefineInPendingModule.                                                  *)

\* A key is defined, in the pending module and at the end of the list.
Defined(k) ==
  /\ New(k)
  /\ pendingCompiled' = Append(pendingCompiled, k)
  /\ DOMAIN cache' = DOMAIN cache \cup {k}
  /\ \A j \in DOMAIN cache : cache'[j] = cache[j]
  /\ cache'[k].function = {}
  /\ cache'[k].name \in DOMAIN pending'.symbols

LEMMA DefineFailsModules ==
  ASSUME CacheInv, ModulesInv, NEW k \in Keys, NEW e \in Errors,
         DefineFails(k, e), UNCHANGED <<fate, mayFail, dylib>>, pc' # "lookup"
  PROVE  /\ ModulesInv' /\ (e = "other" => mayFail)
         /\ UNCHANGED <<pendingCompiled, cache>>
<1>1. /\ UNCHANGED <<pendingCompiled, cache>>
      /\ pending' = PendingModule /\ e # ""
      /\ e = "other" => mayFail
      /\ failed' = Extend(failed, Pair(k, e)) /\ k \notin DOMAIN failed
  BY DEF DefineFails, New
<1>2. /\ DOMAIN failed' = DOMAIN failed \cup {k}
      /\ \A j \in DOMAIN failed : failed'[j] = failed[j]
      /\ failed'[k] = e
  BY <1>1 DEF Extend, Pair
<1>3. /\ pending'.loaded
      /\ DOMAIN pending'.symbols = DOMAIN pending.symbols
      /\ \A n \in DOMAIN pending.symbols : pending'.symbols[n] = pending.symbols[n]
  <2>1. CASE pending.loaded
    BY <1>1, <2>1 DEF PendingModule
  <2>2. CASE ~ pending.loaded
    <3>1. DOMAIN pending.symbols = {}
      BY <2>2 DEF ModulesInv, PendingIsListed
    <3> QED
      BY <1>1, <3>1, PendingModuleFacts
  <2> QED
    BY <2>1, <2>2
<1>4. RefusalsHaveCauses'
  BY <1>1, <1>2 DEF ModulesInv, RefusalsHaveCauses
<1>5. NamesDoNotClash' /\ PendingIsListed' /\ DylibIsCached' /\ ListedAreDefined'
  BY <1>1, <1>3
  DEF ModulesInv, NamesDoNotClash, PendingIsListed, DylibIsCached, ListedAreDefined
<1> QED
  BY <1>1, <1>4, <1>5 DEF ModulesInv

LEMMA LiftsModules ==
  ASSUME CacheInv, ModulesInv, NEW k \in Keys, NEW e \in Errors,
         Lifts(k, e), UNCHANGED <<fate, mayFail, dylib>>, pc' # "lookup"
  PROVE  ModulesInv' /\ e = "" /\ Defined(k)
<1> DEFINE name == FunctionName(k)
<1>1. /\ failed' = failed /\ e = "" /\ New(k)
      /\ pendingCompiled' = Append(pendingCompiled, k)
      /\ cache' = Extend(cache, Pair(k, [name |-> name, function |-> {}]))
      /\ pending' = [loaded |-> TRUE,
                     symbols |-> Extend(PendingModule.symbols, Pair(name, k))]
  BY DEF Lifts, DefinedIn
<1>2. /\ DOMAIN cache' = DOMAIN cache \cup {k}
      /\ \A j \in DOMAIN cache : cache'[j] = cache[j]
      /\ cache'[k] = [name |-> name, function |-> {}]
  BY <1>1 DEF New, Extend, Pair
<1>3. /\ name \notin DOMAIN pending.symbols /\ name \notin DOMAIN dylib
  BY Fresh
<1>4. /\ DOMAIN PendingModule.symbols = DOMAIN pending.symbols
      /\ \A n \in DOMAIN pending.symbols :
           PendingModule.symbols[n] = pending.symbols[n]
  <2>1. CASE pending.loaded
    BY <2>1 DEF PendingModule
  <2>2. CASE ~ pending.loaded
    <3>1. DOMAIN pending.symbols = {}
      BY <2>2 DEF ModulesInv, PendingIsListed
    <3> QED
      BY <3>1, PendingModuleFacts
  <2> QED
    BY <2>1, <2>2
<1>5. /\ pending'.loaded
      /\ DOMAIN pending'.symbols = DOMAIN pending.symbols \cup {name}
      /\ \A n \in DOMAIN pending.symbols : pending'.symbols[n] = pending.symbols[n]
      /\ pending'.symbols[name] = k
  <2>1. /\ pending'.loaded
        /\ pending'.symbols = Extend(PendingModule.symbols, Pair(name, k))
    BY <1>1
  <2> DEFINE old == PendingModule.symbols
             new == pending'.symbols
  <2>2. name \notin DOMAIN old /\ DOMAIN old = DOMAIN pending.symbols
    BY <1>3, <1>4
  <2>3. new = [n \in DOMAIN old \cup {name} |-> IF n \in DOMAIN old THEN old[n] ELSE k]
    BY <2>1, <2>2 DEF Extend, Pair
  <2> HIDE DEF old, new, name
  <2>4. /\ DOMAIN new = DOMAIN old \cup {name} /\ new[name] = k
        /\ \A n \in DOMAIN old : new[n] = old[n]
    BY <2>2, <2>3
  <2> QED BY <1>4, <2>1, <2>2, <2>4 DEF old, new
<1>6. ToSet(pendingCompiled') = ToSet(pendingCompiled) \cup {k}
  <2>1. pendingCompiled \in Seq(Keys)
    BY DEF CacheInv, CacheTypes
  <2>2. pendingCompiled' = Append(pendingCompiled, k)
    BY <1>1
  <2>3. ToSet(Append(pendingCompiled, k)) = ToSet(pendingCompiled) \cup {k}
    BY <2>1, ToSetAppend
  <2> QED BY <2>2, <2>3
<1> HIDE DEF name
<1>7. NamesDoNotClash' /\ PendingIsListed' /\ DylibIsCached' /\ RefusalsHaveCauses'
  BY <1>1, <1>2, <1>3, <1>5, <1>6
  DEF ModulesInv, NamesDoNotClash, PendingIsListed, DylibIsCached, RefusalsHaveCauses
<1>8. ListedAreDefined'
  BY <1>2, <1>5, <1>6 DEF ModulesInv, ListedAreDefined, CacheInv, ListedAreCached
<1>9. cache'[k].function = {} /\ cache'[k].name \in DOMAIN pending'.symbols
  BY <1>2, <1>5
<1>10. Defined(k)
  BY <1>1, <1>2, <1>9 DEF Defined
<1> QED
  BY <1>1, <1>7, <1>8, <1>10 DEF ModulesInv

LEMMA DefineModules ==
  ASSUME CacheInv, ModulesInv, NEW k \in Keys, NEW e \in Errors,
         DefineInPendingModule(k, e), UNCHANGED <<fate, mayFail, dylib>>,
         pc' # "lookup"
  PROVE  /\ ModulesInv' /\ (e = "other" => mayFail)
         /\ \/ UNCHANGED <<pendingCompiled, cache>> /\ (New(k) => e # "")
            \/ e = "" /\ Defined(k)
<1>1. CASE DefineKnown(k, e)
  <2>1. ~ New(k) /\ UNCHANGED caches
    BY <1>1 DEF DefineKnown
  <2>2. e = "other" => mayFail
    BY <1>1 DEF DefineKnown, New, ModulesInv, RefusalsHaveCauses
  <2> QED
    BY <2>1, <2>2, SameModules DEF caches
<1>2. CASE NoPendingModule(k, e)
  BY <1>2, SameModules DEF NoPendingModule, caches
<1>3. CASE DefineFails(k, e)
  <2>1. e # ""
    BY <1>3 DEF DefineFails
  <2> QED
    BY <1>3, <2>1, DefineFailsModules
<1>4. CASE Lifts(k, e)
  BY <1>4, LiftsModules
<1> QED
  BY <1>1, <1>2, <1>3, <1>4 DEF DefineInPendingModule

----------------------------------------------------------------------------
(* PrepareCases.                                                           *)

LEMMA PrepareCasesRInv ==
  ASSUME IInv, RInv, NEW rows \in Batches, PrepareCases(rows)
  PROVE  RInv'
<1>1. /\ pc = "idle" /\ prepared = "no" /\ Untouched /\ batch' = ToSet(rows)
      /\ UNCHANGED <<fate, mayFail, caches, dylib, verdict>>
  BY DEF PrepareCases, Untouched
<1>2. DOMAIN cache' = {}
  BY <1>1 DEF IInv, BatchInProgress, caches
<1>3. \/ /\ pc' = "define" /\ request' = [op |-> "prepare"] /\ request'.op = "prepare"
         /\ todo' = rows
      \/ pc' = "idle" /\ request'.op = "none" /\ prepared' = "failed"
  <2>1. CASE pc' = "define"
    BY <2>1 DEF PrepareCases, PrepareFailed
  <2>2. CASE pc' # "define"
    <3>1. PrepareFailed
      BY <2>2 DEF PrepareCases
    <3> QED
      BY <3>1, RequestKinds DEF PrepareFailed
  <2> QED
    BY <2>1, <2>2
<1>4. ModulesInv'
  BY <1>1, <1>3, SameModules DEF RInv
<1>5. BatchIsAlone' /\ DemandInProgress'
  BY <1>1, <1>2, <1>3 DEF BatchIsAlone, DemandInProgress
<1>6. ListHasCauses' /\ CallableAreSettled' /\ BackendErrorsAreCached'
  BY <1>1, <1>3
  DEF ListHasCauses, CallableAreSettled, BackendErrorsAreCached, Untouched
<1> QED
  BY <1>4, <1>5, <1>6 DEF RInv, DemandInv

LEMMA PrepareRowRInv ==
  ASSUME IInv, RInv, PrepareRow
  PROVE  RInv' /\ (prepared' # prepared => mayFail)
<1>1. CacheInv /\ ClientInv /\ ModulesInv /\ fate \in [Keys -> Fates]
      /\ todo \in Seq(Keys)
  BY Parts DEF ClientInv, ClientTypes, RInv
<1>2. /\ pc = "define" /\ todo # <<>>
      /\ UNCHANGED <<fate, mayFail, initialized, dylib, batch, verdict>>
  BY DEF PrepareRow
<1>3. request.op = "prepare"
  BY <1>1, <1>2, RequestKinds DEF ClientInv, ClientTypes, RequestInProgress, Requests
<1>4. Untouched
  BY <1>1, <1>3 DEF ClientInv, BatchInProgress
<1>5. PICK h \in Keys : h = Head(todo)
  BY <1>1, <1>2, ToSetTail
<1>6. PICK e \in Errors :
        /\ DefineInPendingModule(h, e)
        /\ IF MayGoOn(e)
             THEN todo' = Tail(todo) /\ UNCHANGED <<pc, request, prepared>>
             ELSE todo' = <<>> /\ PrepareFailed
  BY <1>5 DEF PrepareRow, Rest
<1>7. pc' # "lookup"
  BY <1>2, <1>6 DEF PrepareFailed
<1>8. /\ ModulesInv' /\ (e = "other" => mayFail)
      /\ \/ UNCHANGED <<pendingCompiled, cache>>
         \/ Defined(h)
  BY <1>1, <1>2, <1>6, <1>7, DefineModules
<1>9. DOMAIN cache' \subseteq DOMAIN cache \cup {h} /\ h \in ToSet(todo)
      /\ ToSet(Tail(todo)) \subseteq ToSet(todo)
  <2>1. DOMAIN cache' \subseteq DOMAIN cache \cup {h}
    BY <1>8 DEF Defined
  <2>2. /\ 1 \in DOMAIN todo /\ DOMAIN todo = 1..Len(todo) /\ Len(todo) \in Nat
        /\ \A i \in DOMAIN Tail(todo) : i + 1 \in DOMAIN todo /\ Tail(todo)[i] = todo[i + 1]
    BY <1>1, <1>2
  <2>3. Head(todo) = todo[1]
    BY <1>1, <1>2
  <2> QED
    BY <1>5, <2>1, <2>2, <2>3 DEF ToSet
<1>10. CASE MayGoOn(e)
  <2>1. todo' = Tail(todo) /\ UNCHANGED <<pc, request, prepared>>
    BY <1>6, <1>10
  <2>2. BatchIsAlone' /\ DemandInProgress'
    BY <1>2, <1>3, <1>9, <2>1 DEF RInv, DemandInv, BatchIsAlone, DemandInProgress
  <2>3. ListHasCauses' /\ CallableAreSettled' /\ BackendErrorsAreCached'
    BY <1>2, <1>3, <1>4, <2>1
    DEF ListHasCauses, CallableAreSettled, BackendErrorsAreCached, Untouched
  <2> QED
    BY <1>8, <2>1, <2>2, <2>3 DEF RInv, DemandInv
<1>11. CASE ~ MayGoOn(e)
  <2>1. /\ prepared' = "failed" /\ pc' = "idle" /\ request'.op = "none"
    BY <1>6, <1>11, RequestKinds DEF PrepareFailed
  <2>2. mayFail
    BY <1>8, <1>11 DEF MayGoOn, IsUnsupportedCompileError, Errors
  <2>3. DemandInv'
    BY <1>2, <2>1, <2>2
    DEF DemandInv, BatchIsAlone, DemandInProgress, ListHasCauses, CallableAreSettled,
        BackendErrorsAreCached
  <2> QED
    BY <1>8, <2>2, <2>3 DEF RInv
<1> QED
  BY <1>10, <1>11

LEMMA PrepareAllDefinedRInv ==
  ASSUME IInv, RInv, PrepareAllDefined
  PROVE  RInv'
<1>1. /\ pc = "define" /\ todo = <<>> /\ pc' = "finalize"
      /\ UNCHANGED <<fate, mayFail, initialized, caches, dylib, request, todo, batch,
                     prepared, verdict>>
  BY DEF PrepareAllDefined, client
<1>2. request.op = "prepare"
  <2>1. ClientTypes /\ RequestInProgress
    BY Parts DEF ClientInv
  <2> QED
    BY <1>1, <2>1, RequestKinds DEF ClientTypes, RequestInProgress, Requests
<1>3. ModulesInv'
  BY <1>1, SameModules DEF RInv
<1>4. DemandInv'
  BY <1>1, <1>2
  DEF RInv, DemandInv, BatchIsAlone, DemandInProgress, ListHasCauses,
      CallableAreSettled, BackendErrorsAreCached, caches
<1> QED
  BY <1>3, <1>4 DEF RInv

----------------------------------------------------------------------------
(* RunCase.                                                                *)

\* The first key on the list is a key.
LEMMA FirstListed ==
  ASSUME CacheInv, pendingCompiled # <<>>
  PROVE  /\ pendingCompiled[1] \in Keys /\ pendingCompiled[1] \in DOMAIN cache
         /\ 1 \in 1..Len(pendingCompiled)
<1>1. pendingCompiled \in Seq(Keys) /\ ToSet(pendingCompiled) \subseteq DOMAIN cache
  BY DEF CacheInv, CacheTypes, ListedAreCached
<1>2. 1 \in DOMAIN pendingCompiled /\ DOMAIN pendingCompiled = 1..Len(pendingCompiled)
  BY <1>1
<1> QED
  BY <1>1, <1>2 DEF ToSet

\* RunCase that comes to a verdict at once.
LEMMA AnsweredRInv ==
  ASSUME IInv, RInv, IInv', ModulesInv',
         NEW k \in Keys, NEW v \in Verdicts \ {"none"}, Verdict(k, v), pc = "idle",
         UNCHANGED <<fate, mayFail, pendingCompiled, cache, todo, batch, prepared>>,
         v = "backend" => mayFail,
         \A j \in Keys : verdict[j] = "ready" => verdict'[j] = "ready"
  PROVE  RInv'
<1>1. CacheInv /\ ClientInv /\ CacheInv' /\ ClientInv' /\ verdict \in [Keys -> Verdicts]
  BY Parts, PartsNext DEF ClientInv, ClientTypes
<1>2. /\ verdict' = [verdict EXCEPT ![k] = v] /\ pc' = "idle"
      /\ request'.op = "none" /\ request.op = "none"
  BY <1>1, RequestKinds DEF Verdict, ClientInv, RequestInProgress
<1>3. \A j \in Keys : verdict'[j] = IF j = k THEN v ELSE verdict[j]
  BY <1>1, <1>2
<1>4. BatchIsAlone' /\ DemandInProgress'
  BY <1>2 DEF BatchIsAlone, DemandInProgress
<1>5. BackendErrorsAreCached'
  BY <1>3 DEF RInv, DemandInv, BackendErrorsAreCached
<1>6. CallableAreSettled'
  <2>1. \A j \in Keys : Callable(j)' <=> Callable(j)
    BY DEF Callable
  <2>2. \A j \in Keys : Settled(j) => Settled(j)'
    BY DEF Settled
  <2> QED
    BY <1>2, <2>1, <2>2 DEF RInv, DemandInv, CallableAreSettled
<1>7. ListHasCauses'
  <2>1. SUFFICES ASSUME ~ mayFail, prepared # "failed", pendingCompiled # <<>>
                 PROVE  ListIsStuck'
    BY DEF ListHasCauses
  <2>2. ListIsStuck
    BY <1>2, <2>1 DEF RInv, DemandInv, ListHasCauses, RequestIsAlone
  <2>3. PICK u \in Keys : u = pendingCompiled[1]
    BY <1>1, <2>1, FirstListed
  <2>4. fate[u] = "unresolved" /\ verdict[u] = "backend"
    BY <2>2, <2>3 DEF ListIsStuck
  <2>5. v = "ready" \/ v = "unsupported"
    BY <2>1 DEF Verdicts
  <2>6. u # k
    <3>1. verdict'[k] = v
      BY <1>3
    <3>2. Callable(k)' \/ Refused(k)'
      BY <1>1, <2>5, <3>1 DEF ClientInv, VerdictsHaveGrounds
    <3>3. fate[k] # "unresolved"
      BY <1>1, <3>2 DEF CacheInv, CachesTellFates, Refused, IsUnsupportedCompileError
    <3> QED
      BY <2>4, <3>3
  <2> QED
    BY <1>3, <2>1, <2>3, <2>4, <2>6 DEF ListIsStuck
<1> QED
  BY <1>4, <1>5, <1>6, <1>7 DEF RInv, DemandInv

\* RunCase that has to finalize first.
LEMMA DemandedRInv ==
  ASSUME IInv, RInv, IInv', ModulesInv', NEW k \in Keys, Finalizing(k),
         pc = "idle", prepared # "failed",
         UNCHANGED <<fate, mayFail, todo, batch, prepared>>,
         \/ UNCHANGED <<pendingCompiled, cache>> /\ ~ Callable(k)
         \/ Defined(k)
  PROVE  RInv'
<1>1. CacheInv /\ ClientInv /\ CacheInv'
  BY Parts, PartsNext
<1>2. /\ pc' = "finalize" /\ request' = [op |-> "run", key |-> k]
      /\ request'.op = "run" /\ request'.key = k
      /\ verdict' = verdict /\ request.op = "none"
  BY <1>1, RequestKinds DEF Finalizing, ClientInv, RequestInProgress
<1>3. /\ DOMAIN cache \subseteq DOMAIN cache'
      /\ \A j \in Keys : Callable(j)' => Callable(j)
      /\ ~ Callable(k)'
  BY DEF Defined, Callable
<1>4. BatchIsAlone' /\ DemandInProgress'
  BY <1>2, <1>3 DEF BatchIsAlone, DemandInProgress
<1>5. BackendErrorsAreCached'
  BY <1>2, <1>3 DEF RInv, DemandInv, BackendErrorsAreCached
<1>6. CallableAreSettled'
  <2>1. \A j \in Keys : Settled(j) => Settled(j)'
    BY <1>2 DEF Settled
  <2> QED
    BY <1>2, <1>3, <2>1 DEF RInv, DemandInv, CallableAreSettled
<1>7. ListHasCauses'
  <2>1. SUFFICES ASSUME ~ mayFail, pendingCompiled' # <<>>
                 PROVE  ListIsStuck' \/ RequestIsAlone'
    BY DEF ListHasCauses
  <2>2. pendingCompiled = <<>> \/ ListIsStuck
    BY <1>2, <2>1 DEF RInv, DemandInv, ListHasCauses, RequestIsAlone
  <2>3. CASE pendingCompiled' = pendingCompiled
    BY <1>2, <2>1, <2>2, <2>3 DEF ListIsStuck
  <2>4. CASE Defined(k) /\ pendingCompiled = <<>>
    <3>1. pendingCompiled' = <<k>>
      BY <2>4 DEF Defined
    <3>2. cache'[k].name \in DOMAIN pending'.symbols
      BY <2>4 DEF Defined
    <3> QED
      BY <1>2, <3>1, <3>2 DEF RequestIsAlone
  <2>5. CASE Defined(k) /\ pendingCompiled # <<>>
    <3>1. pendingCompiled'[1] = pendingCompiled[1]
      <4>1. pendingCompiled' = Append(pendingCompiled, k)
        BY <2>5 DEF Defined
      <4>2. pendingCompiled \in Seq(Keys)
        BY <1>1 DEF CacheInv, CacheTypes
      <4> QED
        BY <2>5, <4>1, <4>2
    <3> QED
      BY <1>2, <2>1, <2>2, <2>5, <3>1 DEF ListIsStuck
  <2> QED
    BY <2>3, <2>4, <2>5
<1> QED
  BY <1>4, <1>5, <1>6, <1>7 DEF RInv, DemandInv

LEMMA RunCaseRInv ==
  ASSUME IInv, RInv, InitializedFirst, IInv', NEW k \in Keys, RunCase(k)
  PROVE  RInv'
<1>1. CacheInv /\ ClientInv /\ ModulesInv
  BY Parts DEF RInv
<1>2. pc = "idle" /\ prepared # "failed"
  BY DEF RunCase
<1>3. \A j \in Keys : verdict[j] = "ready" => verdict'[j] = "ready"
  <2>1. [Next]_vars
    BY DEF Next
  <2> QED
    BY <2>1, FinalVerdict
<1>4. CASE RunUninitialized(k)
  <2>1. /\ Verdict(k, "backend") /\ mayFail /\ pc' = "idle"
        /\ UNCHANGED <<fate, mayFail, caches, dylib, todo, batch, prepared>>
    BY <1>4 DEF RunUninitialized, EnsureInitialized, Verdict
  <2>2. ModulesInv'
    BY <1>1, <2>1, SameModules
  <2> QED
    BY <1>2, <1>3, <2>1, <2>2, AnsweredRInv DEF Verdicts, caches
<1>5. CASE RunKnown(k)
  <2>1. UNCHANGED <<fate, mayFail, caches, dylib, todo, batch, prepared>>
    BY <1>5 DEF RunKnown
  <2>2. pc' # "lookup"
    BY <1>5 DEF RunKnown, CompileFailed, Verdict, Finalizing
  <2>3. ModulesInv'
    BY <1>1, <2>1, <2>2, SameModules
  <2>4. CASE k \in DOMAIN failed
    <3> DEFINE v == IF IsUnsupportedCompileError(failed[k]) THEN "unsupported"
                                                            ELSE "backend"
    <3>1. Verdict(k, v) /\ v \in Verdicts \ {"none"}
      BY <1>5, <2>4 DEF RunKnown, CompileFailed, Verdicts
    <3>2. failed[k] \in Errors \ {""}
      BY <1>1, <2>4 DEF CacheInv, CacheTypes
    <3>3. v = "backend" => mayFail
      BY <1>1, <2>4, <3>2
      DEF ModulesInv, RefusalsHaveCauses, IsUnsupportedCompileError, Errors
    <3> HIDE DEF v
    <3> QED
      BY <1>2, <1>3, <2>1, <2>3, <3>1, <3>3, AnsweredRInv DEF caches
  <2>5. CASE k \notin DOMAIN failed /\ cache[k].function # {}
    <3>1. Verdict(k, "ready")
      BY <1>5, <2>5 DEF RunKnown
    <3> QED
      BY <1>2, <1>3, <2>1, <2>3, <3>1, AnsweredRInv DEF Verdicts, caches
  <2>6. CASE k \notin DOMAIN failed /\ cache[k].function = {}
    <3>1. Finalizing(k) /\ ~ Callable(k)
      BY <1>5, <2>6 DEF RunKnown, Callable
    <3> QED
      BY <1>2, <2>1, <2>3, <3>1, DemandedRInv DEF caches
  <2> QED
    BY <2>4, <2>5, <2>6
<1>6. CASE RunNew(k)
  <2>1. New(k) /\ UNCHANGED <<fate, mayFail, dylib, todo, batch, prepared>>
    BY <1>6 DEF RunNew
  <2>2. PICK e \in Errors :
          /\ DefineInPendingModule(k, e)
          /\ IF e = "" THEN Finalizing(k) ELSE CompileFailed(k, e)
    BY <1>6 DEF RunNew
  <2>3. pc' # "lookup"
    BY <2>2 DEF Finalizing, CompileFailed, Verdict
  <2>4. /\ ModulesInv' /\ (e = "other" => mayFail)
        /\ \/ UNCHANGED <<pendingCompiled, cache>> /\ (New(k) => e # "")
           \/ e = "" /\ Defined(k)
    BY <1>1, <2>1, <2>2, <2>3, DefineModules
  <2>5. CASE e = ""
    BY <1>2, <2>1, <2>2, <2>4, <2>5, DemandedRInv
  <2>6. CASE e # ""
    <3> DEFINE v == IF IsUnsupportedCompileError(e) THEN "unsupported" ELSE "backend"
    <3>1. Verdict(k, v) /\ v \in Verdicts \ {"none"}
      BY <2>2, <2>6 DEF CompileFailed, Verdicts
    <3>2. v = "backend" => mayFail
      BY <2>4, <2>6 DEF IsUnsupportedCompileError, Errors
    <3> HIDE DEF v
    <3> QED
      BY <1>2, <1>3, <2>1, <2>4, <2>6, <3>1, <3>2, AnsweredRInv
  <2> QED
    BY <2>5, <2>6
<1> QED
  BY <1>4, <1>5, <1>6 DEF RunCase

----------------------------------------------------------------------------
(* FinalizePendingModule.                                                  *)

LEMMA NothingToFinalizeRInv ==
  ASSUME IInv, RInv, NothingToFinalize
  PROVE  RInv'
<1>1. CacheInv /\ ClientInv /\ ModulesInv
  BY Parts DEF RInv
<1>2. /\ pc = "finalize" /\ pc' = "linked"
      /\ ~ pending.loaded \/ pendingCompiled = <<>>
      /\ ~ pending'.loaded /\ DOMAIN pending'.symbols = {}
      /\ UNCHANGED <<fate, mayFail, initialized, pendingCompiled, cache, failed,
                     nextId, dylib, request, todo, batch, prepared, verdict>>
  BY DEF NothingToFinalize, client, NoModule
<1>3. pendingCompiled = <<>> \/ DOMAIN pending.symbols = {}
  BY <1>1, <1>2 DEF ModulesInv, PendingIsListed
<1>4. NamesDoNotClash' /\ PendingIsListed' /\ DylibIsCached' /\ RefusalsHaveCauses'
  BY <1>1, <1>2
  DEF ModulesInv, NamesDoNotClash, PendingIsListed, DylibIsCached, RefusalsHaveCauses
<1>5. ListedAreDefined'
  <2>1. pendingCompiled = <<>> => ToSet(pendingCompiled) = {}
    BY ToSetEmpty
  <2> QED
    BY <1>1, <1>2, <1>3, <2>1 DEF ModulesInv, ListedAreDefined
<1>6. BatchIsAlone' /\ DemandInProgress'
  BY <1>2 DEF RInv, DemandInv, BatchIsAlone, DemandInProgress, Callable
<1>7. CallableAreSettled' /\ BackendErrorsAreCached'
  BY <1>2
  DEF RInv, DemandInv, CallableAreSettled, BackendErrorsAreCached, Callable, Settled
<1>8. ListHasCauses'
  <2>1. RequestIsAlone => RequestIsAlone'
    BY <1>2, <1>3 DEF RequestIsAlone
  <2>2. ListIsStuck => ListIsStuck'
    BY <1>2 DEF ListIsStuck
  <2> QED
    BY <1>2, <2>1, <2>2 DEF RInv, DemandInv, ListHasCauses
<1> QED
  BY <1>4, <1>5, <1>6, <1>7, <1>8 DEF RInv, DemandInv, ModulesInv

LEMMA AddIRModuleRInv ==
  ASSUME IInv, RInv, AddIRModule
  PROVE  RInv'
<1>1. CacheInv /\ ClientInv /\ ModulesInv
  BY Parts DEF RInv
<1>2. /\ pc = "finalize" /\ pendingCompiled # <<>>
      /\ ~ pending'.loaded /\ DOMAIN pending'.symbols = {}
      /\ UNCHANGED <<fate, mayFail, initialized, pendingCompiled, cache, failed,
                     nextId, request, todo, batch, prepared, verdict>>
  BY DEF AddIRModule, client, NoModule
<1> DEFINE added == [n \in DOMAIN pending.symbols |->
                       [code |-> pending.symbols[n],
                        module |-> DOMAIN pending.symbols]]
<1>3. \/ pc' = "lookup" /\ dylib' = Extend(dylib, added)
      \/ pc' = "broken" /\ dylib' = dylib /\ mayFail
  BY <1>1 DEF AddIRModule, ModulesInv, NamesDoNotClash
<1>4. dylib' = Extend(dylib, added) =>
        /\ DOMAIN dylib' = DOMAIN dylib \cup DOMAIN pending.symbols
        /\ \A n \in DOMAIN dylib : dylib'[n] = dylib[n]
        /\ \A n \in DOMAIN pending.symbols :
             /\ dylib'[n].code = pending.symbols[n]
             /\ dylib'[n].module = DOMAIN pending.symbols
  BY <1>1 DEF Extend, ModulesInv, NamesDoNotClash
<1> HIDE DEF added
<1>5. \A n \in DOMAIN pending.symbols : pending.symbols[n] \in DOMAIN cache
  BY <1>1 DEF ModulesInv, PendingIsListed, CacheInv, ListedAreCached
<1>6. NamesDoNotClash' /\ PendingIsListed' /\ DylibIsCached' /\ RefusalsHaveCauses'
  BY <1>1, <1>2, <1>3, <1>4, <1>5
  DEF ModulesInv, NamesDoNotClash, PendingIsListed, DylibIsCached, RefusalsHaveCauses
<1>7. ListedAreDefined'
  BY <1>1, <1>2, <1>3, <1>4 DEF ModulesInv, ListedAreDefined
<1>8. BatchIsAlone' /\ DemandInProgress'
  BY <1>2, <1>3 DEF RInv, DemandInv, BatchIsAlone, DemandInProgress, Callable
<1>9. CallableAreSettled' /\ BackendErrorsAreCached'
  BY <1>2
  DEF RInv, DemandInv, CallableAreSettled, BackendErrorsAreCached, Callable, Settled
<1>10. ListHasCauses'
  <2>1. SUFFICES ASSUME ~ mayFail, request.op # "prepare", prepared # "failed"
                 PROVE  ListIsStuck' \/ RequestIsAlone'
    BY <1>2 DEF ListHasCauses
  <2>2. pc' = "lookup" /\ dylib' = Extend(dylib, added)
    BY <1>3, <2>1
  <2>3. CASE ListIsStuck
    BY <1>2, <2>3 DEF ListIsStuck
  <2>4. CASE RequestIsAlone
    <3>1. PICK r \in Keys : r = request.key
      BY <1>1, <2>4 DEF RequestIsAlone, ClientInv, RequestInProgress, CacheInv, CacheTypes
    <3>2. ToSet(pendingCompiled) = {r}
      <4>1. pendingCompiled = <<r>> /\ DOMAIN <<r>> = {1}
        BY <2>4, <3>1 DEF RequestIsAlone
      <4> QED
        BY <4>1 DEF ToSet
    <3>3. CASE fate[r] = "unresolved"
      BY <1>2, <2>4, <3>1, <3>3 DEF RequestIsAlone
    <3>4. CASE fate[r] # "unresolved"
      <4>1. cache[r].name \in DOMAIN pending.symbols
        BY <1>2, <2>4, <3>1, <3>4 DEF RequestIsAlone
      <4>2. \A n \in DOMAIN pending.symbols : pending.symbols[n] = r
        BY <1>1, <3>2 DEF ModulesInv, PendingIsListed
      <4>3. /\ cache[r].name \in DOMAIN dylib'
            /\ dylib'[cache[r].name].module = DOMAIN pending.symbols
            /\ \A n \in DOMAIN pending.symbols : dylib'[n].code = r
        BY <1>4, <2>2, <4>1, <4>2
      <4>4. Resolves(cache[r].name)'
        BY <1>2, <3>4, <4>3 DEF Resolves
      <4> QED
        BY <1>2, <2>2, <2>4, <3>1, <4>4 DEF RequestIsAlone
    <3> QED
      BY <3>3, <3>4
  <2> QED
    BY <1>2, <2>1, <2>3, <2>4 DEF RInv, DemandInv, ListHasCauses
<1> QED
  BY <1>6, <1>7, <1>8, <1>9, <1>10 DEF RInv, DemandInv, ModulesInv

\* A lookup that finds anything finds the first key of the list.
LEMMA FirstLooked ==
  ASSUME CacheInv, Looked # {}
  PROVE  pendingCompiled # <<>> /\ Resolves(cache[pendingCompiled[1]].name)
<1>1. pendingCompiled \in Seq(Keys)
  BY DEF CacheInv, CacheTypes
<1>2. PICK i \in 1..Len(pendingCompiled) :
        \A j \in 1..i : Resolves(cache[pendingCompiled[j]].name)
  BY DEF Looked
<1>3. 1 \in 1..i /\ pendingCompiled # <<>>
  BY <1>1, <1>2
<1> QED
  BY <1>2, <1>3

\* A name that resolves denotes a key that links.
LEMMA ResolvedLinks ==
  ASSUME CacheInv, NEW k \in DOMAIN cache, Resolves(cache[k].name)
  PROVE  fate[k] # "unresolved"
  BY DEF CacheInv, NamesDenoteTheirKey, ModulesAreWhole, Resolves

LEMMA StuckFindsNothing ==
  ASSUME CacheInv, ListIsStuck
  PROVE  Looked = {}
<1>1. SUFFICES ASSUME Looked # {} PROVE FALSE
  OBVIOUS
<1>2. pendingCompiled[1] \in DOMAIN cache
  BY FirstListed DEF ListIsStuck
<1> QED
  BY <1>1, <1>2, FirstLooked, ResolvedLinks DEF ListIsStuck

\* A list of one key is looked up in one go.
LEMMA AloneIsLooked ==
  ASSUME NEW r, pendingCompiled = <<r>>
  PROVE  /\ ToSet(pendingCompiled) = {r} /\ Looked \subseteq {r}
         /\ Resolves(cache[r].name) => Looked = {r}
<1>1. /\ Len(pendingCompiled) = 1 /\ pendingCompiled[1] = r
      /\ DOMAIN pendingCompiled = {1} /\ 1..1 = {1}
  OBVIOUS
<1>2. ToSet(pendingCompiled) = {r}
  BY <1>1 DEF ToSet
<1> QED
  BY <1>1, <1>2 DEF Looked

LEMMA LookupAllRInv ==
  ASSUME IInv, RInv, LookupAll
  PROVE  RInv'
<1>1. CacheInv /\ ClientInv /\ ModulesInv
  BY Parts DEF RInv
<1>2. /\ pc = "lookup"
      /\ UNCHANGED <<fate, mayFail, initialized, pending, failed, nextId,
                     dylib, request, todo, batch, prepared, verdict>>
      /\ DOMAIN cache' = DOMAIN cache
      /\ \A k \in DOMAIN cache : /\ cache'[k].name = cache[k].name
                                 /\ k \notin Looked => cache'[k].function = cache[k].function
  BY LookupAllEffect
<1>3. \/ /\ pendingCompiled' = <<>> /\ Looked = ToSet(pendingCompiled)
         /\ pc' = "linked"
      \/ /\ pendingCompiled' = pendingCompiled /\ Looked # ToSet(pendingCompiled)
         /\ pc' = "broken"
  BY LookupAllEffect
<1>4. ~ pending.loaded /\ DOMAIN pending.symbols = {}
  BY <1>1, <1>2 DEF ModulesInv, PendingIsListed
<1>5. ModulesInv'
  <2>1. ToSet(pendingCompiled') \subseteq ToSet(pendingCompiled)
    BY <1>3, ToSetEmpty
  <2>2. ListedAreDefined'
    BY <1>1, <1>2, <2>1
    DEF ModulesInv, ListedAreDefined, CacheInv, ListedAreCached
  <2>3. NamesDoNotClash' /\ PendingIsListed' /\ DylibIsCached' /\ RefusalsHaveCauses'
    BY <1>1, <1>2, <1>3, <1>4
    DEF ModulesInv, NamesDoNotClash, PendingIsListed, DylibIsCached, RefusalsHaveCauses
  <2> QED
    BY <2>2, <2>3 DEF ModulesInv
<1>6. BatchIsAlone'
  <2>1. SUFFICES ASSUME request.op = "prepare", pc' = "broken", ~ mayFail,
                        \A k \in batch : fate[k] # "unresolved"
                 PROVE  FALSE
    BY <1>2 DEF RInv, DemandInv, BatchIsAlone
  <2>2. \A n \in DOMAIN dylib : fate[dylib[n].code] # "unresolved"
    BY <1>1, <2>1 DEF RInv, DemandInv, BatchIsAlone, ModulesInv, DylibIsCached
  <2>3. \A name \in DOMAIN dylib : Resolves(name)
    BY <1>1, <2>2 DEF ModulesInv, DylibIsCached, Resolves
  <2>4. \A k \in ToSet(pendingCompiled) : Resolves(cache[k].name)
    BY <1>1, <1>4, <2>1, <2>3 DEF ModulesInv, ListedAreDefined
  <2>5. Looked = ToSet(pendingCompiled)
    <3>0. pendingCompiled \in Seq(Keys)
      BY <1>1 DEF CacheInv, CacheTypes
    <3>1. /\ DOMAIN pendingCompiled = 1..Len(pendingCompiled)
          /\ \A i \in 1..Len(pendingCompiled) : 1..i \subseteq 1..Len(pendingCompiled)
      BY <3>0
    <3>2. \A j \in 1..Len(pendingCompiled) : pendingCompiled[j] \in ToSet(pendingCompiled)
      BY <3>1 DEF ToSet
    <3>3. ASSUME NEW k \in ToSet(pendingCompiled)
          PROVE  k \in Looked
      <4>1. PICK i \in 1..Len(pendingCompiled) : pendingCompiled[i] = k
        BY <3>1 DEF ToSet
      <4>2. \A j \in 1..i : Resolves(cache[pendingCompiled[j]].name)
        BY <2>4, <3>1, <3>2
      <4> QED
        BY <4>1, <4>2 DEF Looked
    <3> QED
      BY <3>3 DEF Looked
  <2> QED
    BY <1>3, <2>1, <2>5
<1>7. DemandInProgress'
  <2>1. pc' = "broken" => pendingCompiled # <<>>
    <3>1. pendingCompiled = <<>> => ToSet(pendingCompiled) = {} /\ Looked = {}
      BY ToSetEmpty DEF Looked
    <3> QED
      BY <1>3, <3>1
  <2> QED
    BY <1>2, <1>3, <2>1 DEF RInv, DemandInv, DemandInProgress
<1>8. ASSUME ~ mayFail, request.op # "prepare", prepared # "failed", Looked # {}
      PROVE  RequestIsAlone /\ Looked = {request.key} /\ pc' = "linked"
  <2>1. RequestIsAlone
    BY <1>1, <1>8, FirstLooked, StuckFindsNothing DEF RInv, DemandInv, ListHasCauses
  <2>2. Looked = {request.key} /\ ToSet(pendingCompiled) = {request.key}
    BY <1>8, <2>1, AloneIsLooked DEF RequestIsAlone
  <2> QED
    BY <1>3, <2>1, <2>2
<1>9. CallableAreSettled'
  <2>1. SUFFICES ASSUME ~ mayFail, request.op # "prepare", prepared # "failed",
                        NEW k \in Keys, Callable(k)'
                 PROVE  Settled(k)' \/ (pc' = "linked" /\ request = [op |-> "run", key |-> k])
    BY <1>2 DEF CallableAreSettled
  <2>2. CASE k \in Looked
    <3>1. request.op = "run" /\ request.key = k /\ pc' = "linked"
      BY <1>8, <2>1, <2>2 DEF RequestIsAlone
    <3>2. request = [op |-> "run", key |-> k]
      BY <1>1, <3>1, RequestKinds DEF ClientInv, ClientTypes, Requests
    <3> QED
      BY <3>1, <3>2
  <2>3. CASE k \notin Looked
    <3>1. Callable(k)
      BY <1>2, <2>1, <2>3 DEF Callable
    <3>2. Settled(k)
      BY <1>2, <2>1, <3>1 DEF RInv, DemandInv, CallableAreSettled
    <3> QED
      BY <1>2, <3>2 DEF Settled
  <2> QED
    BY <2>2, <2>3
<1>10. BackendErrorsAreCached'
  BY <1>2 DEF RInv, DemandInv, BackendErrorsAreCached
<1>11. ListHasCauses'
  <2>1. SUFFICES ASSUME ~ mayFail, request.op # "prepare", prepared # "failed",
                        pendingCompiled' # <<>>
                 PROVE  ListIsStuck' \/ RequestIsAlone'
    BY <1>2 DEF ListHasCauses
  <2>2. pendingCompiled' = pendingCompiled /\ pc' = "broken" /\ Looked = {}
    BY <1>3, <1>8, <2>1
  <2>3. CASE ListIsStuck
    BY <1>2, <2>2, <2>3 DEF ListIsStuck
  <2>4. CASE RequestIsAlone
    <3>1. ~ Resolves(cache[request.key].name)
      BY <2>2, <2>4, AloneIsLooked DEF RequestIsAlone
    <3> QED
      BY <1>2, <2>2, <2>4, <3>1 DEF RequestIsAlone
  <2> QED
    BY <1>2, <2>1, <2>2, <2>3, <2>4 DEF RInv, DemandInv, ListHasCauses
<1> QED
  BY <1>5, <1>6, <1>7, <1>9, <1>10, <1>11 DEF RInv, DemandInv

----------------------------------------------------------------------------
(* The end of a request.                                                   *)

LEMMA FinishRInv ==
  ASSUME IInv, RInv, InitializedFirst, Finish
  PROVE  RInv'
<1>1. CacheInv /\ ClientInv /\ ModulesInv
  BY Parts DEF RInv
<1>2. /\ pc \in {"linked", "broken"} /\ pc' = "idle" /\ request'.op = "none"
      /\ UNCHANGED <<fate, mayFail, initialized, caches, dylib, todo, batch>>
  BY RequestKinds DEF Finish
<1>3. ModulesInv' /\ BatchIsAlone' /\ DemandInProgress'
  BY <1>1, <1>2, SameModules DEF BatchIsAlone, DemandInProgress
<1>4. \A j \in Keys : Callable(j)' <=> Callable(j)
  BY <1>2 DEF Callable, caches
<1>5. CASE request.op = "prepare"
  <2>1. verdict' = verdict /\ prepared' = IF pc = "linked" THEN "done" ELSE "failed"
    BY <1>5 DEF Finish
  <2>2. DOMAIN cache \subseteq batch
    BY <1>5 DEF RInv, DemandInv, BatchIsAlone
  <2>3. pc = "linked" => pendingCompiled = <<>>
    BY <1>1, <1>5 DEF ClientInv, BatchInProgress
  <2>4. BackendErrorsAreCached' /\ ListHasCauses'
    BY <1>2, <2>1, <2>3
    DEF RInv, DemandInv, BackendErrorsAreCached, ListHasCauses, caches
  <2>5. CallableAreSettled'
    BY <1>2, <1>4, <2>1, <2>2 DEF CallableAreSettled, Callable, Settled
  <2> QED
    BY <1>3, <2>4, <2>5 DEF RInv, DemandInv
<1>6. CASE request.op # "prepare"
  <2>1. request.op = "run" /\ request.key \in Keys
    BY <1>1, <1>2, <1>6
    DEF ClientInv, ClientTypes, RequestInProgress, Requests, NoRequest
  <2>2. PICK k \in Keys : k = request.key
    BY <2>1
  <2>3. k \in DOMAIN cache /\ prepared' = prepared
    BY <1>1, <1>6, <2>1, <2>2 DEF ClientInv, RequestInProgress, Finish
  <2>4. \A j \in Keys : verdict'[j] = IF j = k THEN Answer(k) ELSE verdict[j]
    BY <1>1, <1>6, <2>2 DEF ClientInv, ClientTypes, Finish
  <2>5. BackendErrorsAreCached'
    BY <1>2, <2>3, <2>4 DEF RInv, DemandInv, BackendErrorsAreCached, caches
  <2>6. CallableAreSettled'
    <3>1. SUFFICES ASSUME ~ mayFail, prepared # "failed", NEW j \in Keys, Callable(j)
                   PROVE  Settled(j)'
      BY <1>2, <1>4, <2>3 DEF CallableAreSettled
    <3>2. CASE Settled(j)
      <4>1. [Next]_vars
        BY DEF Next, Proceed
      <4>2. verdict[j] = "ready" => verdict'[j] = "ready"
        BY <4>1, FinalVerdict
      <4> QED
        BY <1>2, <2>3, <3>2, <4>2 DEF Settled
    <3>3. CASE pc = "linked" /\ request = [op |-> "run", key |-> j]
      <4>1. j = k /\ Answer(k) = "ready"
        BY <2>2, <3>1, <3>3 DEF Answer, Callable
      <4> QED
        BY <2>4, <4>1 DEF Settled
    <3> QED
      BY <1>6, <3>1, <3>2, <3>3 DEF RInv, DemandInv, CallableAreSettled
  <2>7. ListHasCauses'
    <3>1. SUFFICES ASSUME ~ mayFail, prepared # "failed", pendingCompiled # <<>>
                   PROVE  ListIsStuck'
      BY <1>2, <2>3 DEF ListHasCauses, caches
    <3>2. PICK u \in DOMAIN cache : u = pendingCompiled[1]
      BY <1>1, <3>1, FirstListed
    <3>3. /\ u \in Keys /\ fate[u] = "unresolved"
          /\ u = k \/ verdict[u] = "backend"
      <4>1. CASE ListIsStuck
        BY <1>1, <3>2, <4>1, FirstListed DEF ListIsStuck
      <4>2. CASE RequestIsAlone
        BY <1>2, <2>2, <3>2, <4>2 DEF RequestIsAlone
      <4> QED
        BY <1>6, <3>1, <4>1, <4>2 DEF RInv, DemandInv, ListHasCauses
    <3>4. cache[u].function = {}
      BY <1>1, <3>2, <3>3 DEF CacheInv, CachesTellFates, Callable
    <3>5. verdict'[u] = "backend"
      BY <2>4, <3>3, <3>4 DEF Answer
    <3> QED
      BY <1>2, <3>1, <3>2, <3>3, <3>5 DEF ListIsStuck, caches
  <2> QED
    BY <1>3, <2>5, <2>6, <2>7 DEF RInv, DemandInv
<1> QED
  BY <1>5, <1>6

LEMMA NextRInv ==
  IInv /\ InitializedFirst /\ RInv /\ [Next]_vars => RInv'
<1> SUFFICES ASSUME IInv, InitializedFirst, RInv, [Next]_vars PROVE RInv'
  OBVIOUS
<1>1. CASE UNCHANGED vars
  <2>1. UNCHANGED <<fate, mayFail, initialized, pending, pendingCompiled, cache, failed,
                    nextId, dylib, pc, request, todo, batch, prepared, verdict>>
    BY <1>1 DEF vars, caches, client
  <2>2. ModulesInv'
    BY <2>1
    DEF RInv, ModulesInv, NamesDoNotClash, PendingIsListed, DylibIsCached,
        RefusalsHaveCauses, ListedAreDefined
  <2>3. BatchIsAlone' /\ DemandInProgress' /\ BackendErrorsAreCached'
    BY <2>1
    DEF RInv, DemandInv, BatchIsAlone, DemandInProgress, BackendErrorsAreCached, Callable
  <2>4. ListHasCauses' /\ CallableAreSettled'
    BY <2>1
    DEF RInv, DemandInv, ListHasCauses, ListIsStuck, RequestIsAlone, Resolves,
        CallableAreSettled, Callable, Settled
  <2> QED
    BY <2>2, <2>3, <2>4 DEF RInv, DemandInv
<1>2. ASSUME NEW rows \in Batches, PrepareCases(rows) PROVE RInv'
  BY <1>2, PrepareCasesRInv
<1>3. ASSUME NEW k \in Keys, RunCase(k) PROVE RInv'
  BY <1>3, NextIInv, RunCaseRInv
<1>4. CASE PrepareRow
  BY <1>4, PrepareRowRInv
<1>5. CASE PrepareAllDefined
  BY <1>5, PrepareAllDefinedRInv
<1>6. CASE NothingToFinalize
  BY <1>6, NothingToFinalizeRInv
<1>7. CASE AddIRModule
  BY <1>7, AddIRModuleRInv
<1>8. CASE LookupAll
  BY <1>8, LookupAllRInv
<1>9. CASE Finish
  BY <1>9, FinishRInv
<1> QED
  BY <1>1, <1>2, <1>3, <1>4, <1>5, <1>6, <1>7, <1>8, <1>9
  DEF Next, Proceed, Finalize

----------------------------------------------------------------------------
(* The step simulation.                                                    *)

LEMMA ServiceInit == Init => Service!Init
  BY EnvironmentAssumption DEF Init, Service!Init, Fates, Service!Fates

\* What the service sees of a step that answers nothing.
LEMMA ServiceStutters ==
  ASSUME UNCHANGED <<fate, mayFail, prepared, verdict>>,
         prepared = "no" \/ batch' = batch
  PROVE  UNCHANGED Service!vars
  BY DEF Service!vars

\* PrepareCases returns.
LEMMA ServicePrepares ==
  ASSUME prepared = "no", Untouched, UNCHANGED <<fate, mayFail, verdict>>,
         batch' \subseteq Keys,
         \/ prepared' = "done" /\ \A k \in batch' : fate[k] # "unresolved"
         \/ /\ prepared' = "failed"
            /\ mayFail \/ \E k \in batch' : fate[k] = "unresolved"
  PROVE  Service!Next
<1>1. Service!Prepare(batch')
  BY DEF Service!Prepare, Service!Links, Untouched
<1> QED
  BY <1>1 DEF Service!Next

\* The key that does not link and was asked for.
LEMMA StuckIsStuck ==
  ASSUME CacheInv, ListIsStuck
  PROVE  Service!Stuck
  BY FirstListed DEF ListIsStuck, Service!Stuck

\* RunCase answers.
LEMMA ServiceAnswers ==
  ASSUME IInv, InitializedFirst, [Next]_vars, IInv',
         NEW k \in Keys, prepared # "failed",
         UNCHANGED <<fate, mayFail, batch, prepared>>,
         NEW v \in {"ready", "unsupported", "backend"},
         verdict' = [verdict EXCEPT ![k] = v],
         v = "ready" => Service!Settled(k) \/ ~ Service!Stuck \/ mayFail,
         v = "backend" => \/ mayFail \/ fate[k] = "unresolved"
                          \/ fate[k] = "ok" /\ Service!Stuck
  PROVE  Service!Next
<1>1. ClientInv /\ CacheInv' /\ ClientInv' /\ verdict'[k] = v
  BY Parts, PartsNext DEF ClientInv, ClientTypes
<1>2. v = "ready" => Service!IsReady(k)
  BY <1>1 DEF Service!IsReady, CacheInv, CachesTellFates, ClientInv, VerdictsHaveGrounds
<1>3. v = "unsupported" => Service!Refused(k)
  BY <1>1
  DEF Service!Refused, CacheInv, CachesTellFates, ClientInv, VerdictsHaveGrounds,
      Refused, IsUnsupportedCompileError
<1>4. v = "backend" => Service!IsBackendError(k)
  <2>1. SUFFICES ASSUME v = "backend" PROVE ~ Service!Settled(k)
    BY DEF Service!IsBackendError
  <2>2. verdict[k] \notin {"ready", "unsupported"}
    BY <1>1, <2>1, FinalVerdict
  <2>3. ~ (prepared = "done" /\ k \in batch)
    BY <1>1, <2>1 DEF ClientInv, BatchIsReady
  <2> QED
    BY <2>2, <2>3 DEF Service!Settled, Service!Prepared
<1>5. Service!Demand(k)
  BY <1>2, <1>3, <1>4 DEF Service!Demand
<1> QED
  BY <1>5 DEF Service!Next

\* A key that is callable between requests has its answer.
LEMMA CallableAnswers ==
  ASSUME IInv, RInv, NEW k \in Keys, RunCase(k), Callable(k)
  PROVE  Service!Settled(k) \/ mayFail
<1>1. pc = "idle" /\ prepared # "failed"
  BY DEF RunCase
<1>2. request.op = "none"
  BY <1>1, RequestKinds DEF IInv, RequestInProgress
<1>3. mayFail \/ Settled(k)
  BY <1>1, <1>2 DEF RInv, DemandInv, CallableAreSettled
<1> QED
  BY <1>3 DEF Settled, Service!Settled, Service!Prepared

LEMMA RunCaseService ==
  ASSUME IInv, RInv, InitializedFirst, IInv', NEW k \in Keys, RunCase(k)
  PROVE  Service!Next \/ UNCHANGED Service!vars
<1>1. CacheInv /\ ModulesInv
  BY Parts DEF RInv
<1>2. /\ prepared # "failed" /\ [Next]_vars
      /\ UNCHANGED <<fate, mayFail, batch, prepared>>
  BY DEF RunCase, RunUninitialized, RunKnown, RunNew, Next
<1>3. ASSUME Finalizing(k) PROVE UNCHANGED Service!vars
  BY <1>2, <1>3, ServiceStutters DEF Finalizing
<1>4. ASSUME NEW e \in Errors \ {""}, e = "other" => mayFail, CompileFailed(k, e)
      PROVE  Service!Next
  <2> DEFINE v == IF IsUnsupportedCompileError(e) THEN "unsupported" ELSE "backend"
  <2>1. verdict' = [verdict EXCEPT ![k] = v] /\ v \in {"unsupported", "backend"}
    BY <1>4 DEF CompileFailed, Verdict
  <2>2. v = "backend" => mayFail
    BY <1>4 DEF IsUnsupportedCompileError, Errors
  <2> HIDE DEF v
  <2> QED
    BY <1>2, <2>1, <2>2, ServiceAnswers
<1>5. CASE RunUninitialized(k)
  <2>1. mayFail /\ verdict' = [verdict EXCEPT ![k] = "backend"]
    BY <1>5 DEF RunUninitialized, EnsureInitialized, Verdict
  <2> QED
    BY <1>2, <2>1, ServiceAnswers
<1>6. CASE RunKnown(k)
  <2>1. CASE k \in DOMAIN failed
    <3>1. failed[k] \in Errors \ {""} /\ (failed[k] = "other" => mayFail)
      BY <1>1, <2>1 DEF CacheInv, CacheTypes, ModulesInv, RefusalsHaveCauses
    <3>2. CompileFailed(k, failed[k])
      BY <1>6, <2>1 DEF RunKnown
    <3> QED
      BY <1>4, <3>1, <3>2
  <2>2. CASE k \notin DOMAIN failed /\ cache[k].function # {}
    <3>1. Callable(k) /\ Verdict(k, "ready")
      BY <1>6, <2>2 DEF RunKnown, New, Callable
    <3>2. verdict' = [verdict EXCEPT ![k] = "ready"]
      BY <3>1 DEF Verdict
    <3> QED
      BY <1>2, <3>1, <3>2, CallableAnswers, ServiceAnswers
  <2>3. CASE k \notin DOMAIN failed /\ cache[k].function = {}
    BY <1>3, <1>6, <2>3 DEF RunKnown
  <2> QED
    BY <2>1, <2>2, <2>3
<1>7. CASE RunNew(k)
  <2>1. PICK e \in Errors :
          /\ DefineInPendingModule(k, e)
          /\ IF e = "" THEN Finalizing(k) ELSE CompileFailed(k, e)
    BY <1>7 DEF RunNew
  <2>2. pc' # "lookup" /\ UNCHANGED <<fate, mayFail, dylib>>
    BY <1>7, <2>1 DEF RunNew, Finalizing, CompileFailed, Verdict
  <2>3. e = "other" => mayFail
    BY <1>1, <2>1, <2>2, DefineModules
  <2> QED
    BY <1>3, <1>4, <2>1, <2>3
<1> QED
  BY <1>5, <1>6, <1>7 DEF RunCase

LEMMA FinishService ==
  ASSUME IInv, RInv, InitializedFirst, IInv', Finish
  PROVE  Service!Next
<1>1. CacheInv /\ ClientInv
  BY Parts
<1>2. /\ pc \in {"linked", "broken"} /\ UNCHANGED <<fate, mayFail, batch>>
      /\ [Next]_vars
  BY DEF Finish, Next, Proceed
<1>3. CASE request.op = "prepare"
  <2>1. /\ prepared = "no" /\ Untouched /\ verdict' = verdict
        /\ prepared' = IF pc = "linked" THEN "done" ELSE "failed"
    BY <1>1, <1>3 DEF Finish, ClientInv, BatchInProgress
  <2>2. batch \subseteq Keys
    BY <1>1 DEF ClientInv, ClientTypes
  <2>3. ASSUME pc = "linked", NEW k \in batch PROVE fate[k] # "unresolved"
    <3>1. pendingCompiled = <<>>
      BY <1>1, <1>3, <2>3 DEF ClientInv, BatchInProgress
    <3>2. \A j \in DOMAIN cache : Callable(j)
      BY <1>1, <3>1, ToSetEmpty DEF CacheInv, NoKeyIsForgotten, Callable
    <3>3. Callable(k) \/ Refused(k)
      BY <1>1, <1>3, <2>3, <3>2 DEF ClientInv, BatchInProgress
    <3> QED
      BY <1>1, <2>2, <3>3
      DEF CacheInv, CachesTellFates, Refused, IsUnsupportedCompileError
  <2>4. pc = "broken" => mayFail \/ \E k \in batch : fate[k] = "unresolved"
    BY <1>3 DEF RInv, DemandInv, BatchIsAlone
  <2> QED
    BY <1>2, <2>1, <2>2, <2>3, <2>4, ServicePrepares
<1>4. CASE request.op # "prepare"
  <2>1. request.op = "run" /\ request.key \in Keys
    BY <1>1, <1>2, <1>4
    DEF ClientInv, ClientTypes, RequestInProgress, Requests, NoRequest
  <2>2. PICK k \in Keys : k = request.key
    BY <2>1
  <2>3. /\ k \in DOMAIN cache /\ prepared # "failed" /\ prepared' = prepared
        /\ verdict' = [verdict EXCEPT ![k] = Answer(k)]
    BY <1>1, <1>4, <2>1, <2>2
    DEF ClientInv, RequestInProgress, RInv, DemandInv, DemandInProgress, Finish
  <2>4. fate[k] \in {"ok", "unresolved"}
    BY <1>1, <2>3 DEF CacheInv, CachesTellFates
  <2>5. Answer(k) \in {"ready", "unsupported", "backend"}
    BY DEF Answer
  <2>6. Answer(k) = "ready" => ~ Service!Stuck \/ mayFail
    <3>1. SUFFICES ASSUME Answer(k) = "ready", ~ mayFail,
                          NEW u \in Keys, fate[u] = "unresolved", verdict[u] = "backend"
                   PROVE  FALSE
      BY DEF Service!Stuck
    <3>2. pc = "linked" /\ Callable(k)
      BY <2>3, <3>1 DEF Answer, Callable
    <3>3. pendingCompiled = <<>>
      BY <2>1, <2>2, <3>2 DEF RInv, DemandInv, DemandInProgress
    <3>4. u \in DOMAIN cache
      BY <3>1 DEF RInv, DemandInv, BackendErrorsAreCached
    <3>5. Callable(u)
      BY <1>1, <3>3, <3>4, ToSetEmpty DEF CacheInv, NoKeyIsForgotten, Callable
    <3> QED
      BY <1>1, <3>1, <3>5 DEF CacheInv, CachesTellFates
  <2>7. Answer(k) = "backend" => \/ mayFail \/ fate[k] = "unresolved"
                                 \/ fate[k] = "ok" /\ Service!Stuck
    <3>1. SUFFICES ASSUME Answer(k) = "backend", ~ mayFail, fate[k] = "ok"
                   PROVE  Service!Stuck
      BY <2>4
    <3>2. pendingCompiled # <<>>
      <4>1. CASE pc = "broken"
        BY <4>1 DEF RInv, DemandInv, DemandInProgress
      <4>2. CASE pc = "linked"
        <5>1. cache[k].function = {}
          BY <3>1, <4>2 DEF Answer
        <5> QED
          BY <1>1, <2>3, <5>1, ToSetEmpty DEF CacheInv, NoKeyIsForgotten
      <4> QED
        BY <1>2, <4>1, <4>2
    <3>3. ~ RequestIsAlone
      BY <1>2, <2>2, <3>1 DEF RequestIsAlone
    <3>4. ListIsStuck
      BY <1>4, <2>3, <3>1, <3>2, <3>3 DEF RInv, DemandInv, ListHasCauses
    <3> QED
      BY <1>1, <3>4, StuckIsStuck
  <2>8. PICK v \in {"ready", "unsupported", "backend"} : v = Answer(k)
    BY <2>5
  <2> QED
    BY <1>2, <2>3, <2>6, <2>7, <2>8, ServiceAnswers
<1> QED
  BY <1>3, <1>4

\* Every step is a step of the service or is not seen there.
LEMMA ServiceNext ==
  IInv /\ InitializedFirst /\ RInv /\ [Next]_vars => [Service!Next]_(Service!vars)
<1> SUFFICES ASSUME IInv, InitializedFirst, RInv, [Next]_vars
             PROVE  Service!Next \/ UNCHANGED Service!vars
  OBVIOUS
<1>1. IInv'
  BY NextIInv
<1>2. ASSUME NEW rows \in Batches, PrepareCases(rows)
      PROVE  Service!Next \/ UNCHANGED Service!vars
  <2>1. /\ prepared = "no" /\ Untouched
        /\ UNCHANGED <<fate, mayFail, verdict>>
    BY <1>2 DEF PrepareCases, Untouched
  <2>2. CASE prepared' = prepared
    BY <2>1, <2>2, ServiceStutters
  <2>3. CASE prepared' # prepared
    <3>1. prepared' = "failed" /\ mayFail
      BY <1>2, <2>3 DEF PrepareCases, PrepareFailed, EnsureInitialized
    <3>2. batch' \subseteq Keys
      BY <1>1 DEF IInv, TypeOK
    <3> QED
      BY <2>1, <3>1, <3>2, ServicePrepares
  <2> QED
    BY <2>2, <2>3
<1>3. ASSUME NEW k \in Keys, RunCase(k)
      PROVE  Service!Next \/ UNCHANGED Service!vars
  BY <1>1, <1>3, RunCaseService
<1>4. CASE PrepareRow
  <2>1. UNCHANGED <<fate, mayFail, batch, verdict>> /\ (prepared' # prepared => mayFail)
    BY <1>4, PrepareRowRInv DEF PrepareRow
  <2>2. CASE prepared' = prepared
    BY <2>1, <2>2, ServiceStutters
  <2>3. CASE prepared' # prepared
    <3>1. prepared' = "failed"
      BY <1>4, <2>3 DEF PrepareRow, PrepareFailed
    <3>2. prepared = "no" /\ Untouched /\ batch \subseteq Keys
      <4>1. pc = "define" /\ ClientInv
        BY <1>4, Parts DEF PrepareRow
      <4>2. request.op = "prepare"
        BY <4>1, RequestKinds DEF ClientInv, ClientTypes, RequestInProgress, Requests
      <4> QED
        BY <4>1, <4>2 DEF ClientInv, ClientTypes, BatchInProgress
    <3> QED
      BY <2>1, <2>3, <3>1, <3>2, ServicePrepares
  <2> QED
    BY <2>2, <2>3
<1>5. CASE PrepareAllDefined \/ NothingToFinalize \/ AddIRModule \/ LookupAll
  <2>1. UNCHANGED <<fate, mayFail, batch, prepared, verdict>>
    BY <1>5
    DEF PrepareAllDefined, NothingToFinalize, AddIRModule, LookupAll, client
  <2> QED
    BY <2>1, ServiceStutters
<1>6. CASE Finish
  BY <1>1, <1>6, FinishService
<1>7. CASE UNCHANGED vars
  <2>1. UNCHANGED <<fate, mayFail, batch, prepared, verdict>>
    BY <1>7 DEF vars, client
  <2> QED
    BY <2>1, ServiceStutters
<1> QED
  BY <1>2, <1>3, <1>4, <1>5, <1>6, <1>7 DEF Next, Proceed, Finalize

----------------------------------------------------------------------------
(* The theorems.                                                           *)

\* What the modules and the list of pending keys hold, in every state.
THEOREM ListKeepsItsCauses == Spec => []RInv
  BY InitRInv, NextRInv, Invariance, InitializedFirstAlways, PTL DEF Spec

\* The backend keeps what it promises the tester: whatever it caches, lists and
\* links, a key is ready, unsupported or a backend error only when the service
\* says so.
THEOREM Refinement == Spec => ImplementsCompileService
  BY ServiceInit, ServiceNext, ListKeepsItsCauses, Invariance, InitializedFirstAlways,
     PTL DEF Spec, ImplementsCompileService, Service!Spec

=============================================================================
