-------------------------- MODULE HTTPReadPathProofs --------------------------
(****************************************************************************)
(* The inductive invariant of HTTPReadPath and what follows from it.          *)
(*                                                                          *)
(* A file state says probing, or downloading, exactly if one thread does so    *)
(* (ProbeInv, DownloadInv); what that thread knows of the state, and what the  *)
(* others have read of it, stays true while they work without the mutex        *)
(* (GuardInv, AgainInv).                                                      *)
(****************************************************************************)
EXTENDS HTTPReadPath, FiniteSetTheorems, SequenceTheorems, TLAPS

Versions   == DOMAIN Lengths
ETags      == Versions \cup {None}
CachedData == [size : Nat, pinned : ETags, version : Versions]
Supports   == {"UNKNOWN", "SUPPORTED", "NOT_SUPPORTED"}
FileState  == [support : Supports, probing : BOOLEAN, cached_data : CachedData \cup {None},
               downloading : BOOLEAN, downloads : Nat, invalidated : Nat]
Handle     == [state : Nat, length : Nat, etag : ETags, force_full_download : BOOLEAN]
Buffer     == [size : Nat, version : Nat]
Errors     == {"Error", "CachedTooShort", "RangeNotSupported", "FailedAfterDownload",
               "LengthMismatch"}
Result     == [outcome : Errors \cup {"None", "Range", "Cached"},
               version : Nat, from : Nat, pinned : ETags]
Op         == [purpose : {"Open", "Mark", "Info", "Read", None}, location : Nat, size : Nat,
               again : BOOLEAN, write_cache : BOOLEAN, attempts : Nat, support : Supports,
               owns_probe : BOOLEAN, buffer : Buffer, result : Result]

OpenLabels     == {"TryInitializeRead", "LoadFileInfo", "HeadRequest", "InitializeFileInfo"}
GuardLabels    == {"Guarded", "RangeRequest"}
RangeLabels    == GuardLabels \cup {"BeginRequest", "AwaitProbe"}
FetchLabels    == {"GetRequest", "Finalize"}
Labels         == OpenLabels \cup RangeLabels \cup FetchLabels \cup
                  {"FullDownload", "StartDownload", "ReadAt", "InvalidateCachedFile",
                   "EraseFileState", "Closed", "Ready"}

TypeInv ==
    /\ setup \in Setups
    /\ version \in Versions
    /\ states \in Seq(FileState)
    /\ file_states \in 0..Len(states)
    /\ metadata \in [length : Nat, etag : ETags] \cup {None}
    /\ handle \in [Threads -> Handle]
    /\ pc \in [Threads -> Labels]
    /\ op \in [Threads -> Op]

-----------------------------------------------------------------------------
(* File states and the threads that work on them. *)

Probed(i)     == states[i].support = "UNKNOWN" /\ states[i].probing
Owns(t, i)    == handle[t].state = i /\ op[t].owns_probe
Fetches(t, i) == handle[t].state = i /\ pc[t] \in FetchLabels

\* One thread owns the probe of a state that is being probed.
ProbeInv(i) ==
    /\ Probed(i) <=> \E t \in Threads : Owns(t, i)
    /\ \A t, u \in Threads : Owns(t, i) /\ Owns(u, i) => t = u

\* One thread makes the download of a state that is being downloaded.
DownloadInv(i) ==
    /\ states[i].downloading <=> \E t \in Threads : Fetches(t, i)
    /\ \A t, u \in Threads : Fetches(t, i) /\ Fetches(u, i) => t = u

\* Whole is said of contents of a version, for a handle with an ETag.
Whole(size, v, etag) == v \in Versions /\ size = Lengths[v] /\ (etag # None => v = etag)

\* A state's download, and how many there were.
CacheInv(s) ==
    /\ s.downloading => s.cached_data = None
    /\ s.cached_data # None =>
          Whole(s.cached_data.size, s.cached_data.version, s.cached_data.pinned)
    /\ s.cached_data = None => s.downloads <= s.invalidated
    /\ s.downloads <= s.invalidated + 1

StateInv(i) == ProbeInv(i) /\ DownloadInv(i) /\ CacheInv(states[i])

\* A request knows that support is unknown if it owns the probe; any other one with a
\* guard came when support was known already.
GuardInv(t) ==
    /\ op[t].owns_probe <=> op[t].support = "UNKNOWN"
    /\ op[t].owns_probe => pc[t] \in GuardLabels
    /\ op[t].owns_probe => pc[t] = "Guarded" \/ setup.auto_fallback_to_full_download
    /\ pc[t] \in {"AwaitProbe", "Guarded"} => Coordinated(t)
    /\ pc[t] \in GuardLabels /\ Coordinated(t) /\ ~op[t].owns_probe => State(t).support # "UNKNOWN"

\* A download is finalized with one version, whole.
BufferInv(t) ==
    pc[t] = "Finalize" => Whole(op[t].buffer.size, op[t].buffer.version, handle[t].etag)

\* A read that has seen the download finds it, or somebody has invalidated it.
AgainInv(t) ==
    op[t].again =>
        /\ pc[t] \in RangeLabels => State(t).invalidated > 0
        /\ pc[t] = "ReadAt" => State(t).cached_data # None \/ State(t).invalidated > 0

\* A read stays within the length of the handle, which no open changes meanwhile.
RangeInv(t) ==
    /\ op[t].again => op[t].purpose = "Read"
    /\ pc[t] \in OpenLabels => op[t].purpose # "Read"
    /\ op[t].purpose = "Read" => op[t].location + op[t].size <= handle[t].length

ResultInv(t) ==
    LET r == op[t].result
    IN  /\ r.outcome # "None" => pc[t] = "Ready"
        /\ r.outcome = "FailedAfterDownload" => State(t).invalidated > 0
        /\ r.outcome = "Cached" =>
              r.from = op[t].location /\ (r.pinned # None => r.version = r.pinned)
        /\ r.outcome = "Range" /\ handle[t].etag # None =>
              /\ r.version = handle[t].etag
              /\ handle[t].length <= Lengths[handle[t].etag] => r.from = op[t].location

ThreadInv(t) ==
    /\ pc[t] # "Closed" => handle[t].state \in DOMAIN states
    /\ handle[t].state \in 0..Len(states)
    /\ GuardInv(t)
    /\ BufferInv(t)
    /\ AgainInv(t)
    /\ RangeInv(t)
    /\ ResultInv(t)

ReadPathInv ==
    /\ TypeInv
    /\ \A i \in DOMAIN states : StateInv(i)
    /\ \A t \in Threads : ThreadInv(t)

-----------------------------------------------------------------------------
(* What a step of one thread does to a state, and leaves to the others. *)

\* A state moves forward: what somebody has read of it without the mutex stays true.
Advances(s, n) ==
    /\ s.support # "UNKNOWN" => n.support # "UNKNOWN"
    /\ s.support = "NOT_SUPPORTED" => n.support = "NOT_SUPPORTED"
    /\ s.invalidated <= n.invalidated
    /\ s.cached_data # None => n.cached_data # None \/ n.invalidated > 0

Advancing ==
    /\ DOMAIN states \subseteq DOMAIN states'
    /\ \A i \in DOMAIN states : Advances(states[i], states'[i])

\* The probe is left alone, begun or ended by t; the same for the download.
ProbeStep(t, i) ==
    \/ (Probed(i)' <=> Probed(i)) /\ (Owns(t, i)' <=> Owns(t, i))
    \/ ~Probed(i) /\ Probed(i)' /\ Owns(t, i)'
    \/ Owns(t, i) /\ ~Owns(t, i)' /\ ~Probed(i)'

DownloadStep(t, i) ==
    \/ states'[i].downloading = states[i].downloading /\ (Fetches(t, i)' <=> Fetches(t, i))
    \/ ~states[i].downloading /\ states'[i].downloading /\ Fetches(t, i)'
    \/ Fetches(t, i) /\ ~Fetches(t, i)' /\ ~states'[i].downloading

\* Threads other than t stand still.
OthersStill(t) ==
    \A u \in Threads \ {t} : handle'[u] = handle[u] /\ pc'[u] = pc[u] /\ op'[u] = op[u]

\* The states form a sequence.
LEMMA StatesDomain ==
  ASSUME TypeInv
  PROVE  /\ DOMAIN states = 1..Len(states) /\ Len(states) \in Nat
         /\ \A i \in DOMAIN states : states[i] \in FileState
  BY DEF TypeInv

\* The invariant of a thread that does nothing holds after a step of another one.
LEMMA OthersKeep ==
  ASSUME TypeInv, TypeInv', Advancing, UNCHANGED setup, NEW u \in Threads, ThreadInv(u),
         handle'[u] = handle[u], pc'[u] = pc[u], op'[u] = op[u]
  PROVE  ThreadInv(u)'
  <1>1. handle[u].state \in DOMAIN states =>
           /\ handle[u].state \in DOMAIN states'
           /\ Advances(State(u), State(u)')
           /\ State(u) \in FileState /\ State(u)' \in FileState
    <2>1. (State(u))' = states'[handle[u].state]
      BY DEF State
    <2> QED  BY <2>1, StatesDomain DEF Advancing, State, TypeInv
  <1>2. handle'[u].state \in 0..Len(states')
    BY StatesDomain DEF Advancing, TypeInv, ThreadInv
  <1>3. GuardInv(u)'
    BY <1>1 DEF ThreadInv, GuardInv, Coordinated, Advances, GuardLabels
  <1>4. BufferInv(u)'
    BY DEF ThreadInv, BufferInv, Whole
  <1>5. AgainInv(u)'
    BY <1>1 DEF ThreadInv, AgainInv, Advances, RangeLabels, GuardLabels, FileState
  <1>6. RangeInv(u)'
    BY DEF ThreadInv, RangeInv
  <1>7. ResultInv(u)'
    BY <1>1 DEF ThreadInv, ResultInv, Advances, FileState
  <1> QED  BY <1>1, <1>2, <1>3, <1>4, <1>5, <1>6, <1>7 DEF ThreadInv

\* A step of t on existing states.
LEMMA StepPreserves ==
  ASSUME ReadPathInv, NEW t \in Threads, TypeInv', UNCHANGED setup, Advancing,
         DOMAIN states' = DOMAIN states, OthersStill(t), ThreadInv(t)',
         \A i \in DOMAIN states : ProbeStep(t, i) /\ DownloadStep(t, i) /\ CacheInv(states'[i])
  PROVE  ReadPathInv'
  <1>1. ASSUME NEW u \in Threads, u # t PROVE ThreadInv(u)'
    BY <1>1, OthersKeep DEF ReadPathInv, OthersStill
  <1>2. ASSUME NEW i \in DOMAIN states PROVE ProbeInv(i)'
    <2>1. \A u \in Threads \ {t} : Owns(u, i)' <=> Owns(u, i)
      BY DEF OthersStill, Owns
    <2>2. ProbeInv(i) /\ ProbeStep(t, i)
      BY DEF ReadPathInv, StateInv
    <2> QED  BY <2>1, <2>2 DEF ProbeInv, ProbeStep
  <1>3. ASSUME NEW i \in DOMAIN states PROVE DownloadInv(i)'
    <2>1. \A u \in Threads \ {t} : Fetches(u, i)' <=> Fetches(u, i)
      BY DEF OthersStill, Fetches
    <2>2. DownloadInv(i) /\ DownloadStep(t, i)
      BY DEF ReadPathInv, StateInv
    <2>3. states[i].downloading \in BOOLEAN /\ states'[i].downloading \in BOOLEAN
      <3>1. states[i] \in FileState /\ states'[i] \in FileState
        BY DEF ReadPathInv, TypeInv
      <3> QED  BY <3>1 DEF FileState
    <2> QED  BY <2>1, <2>2, <2>3 DEF DownloadInv, DownloadStep
  <1> QED  BY <1>1, <1>2, <1>3 DEF ReadPathInv, StateInv
\* The local variables of t, and those only, become h, l and o.
Locally(t, h, l, o) ==
    /\ h \in Handle /\ handle' = [handle EXCEPT ![t] = h]
    /\ l \in Labels /\ pc' = [pc EXCEPT ![t] = l]
    /\ o \in Op /\ op' = [op EXCEPT ![t] = o]

\* The variables that no thread owns keep their types.
SharedKept ==
    /\ UNCHANGED <<setup, version>>
    /\ file_states' \in 0..Len(states)
    /\ metadata' \in [length : Nat, etag : ETags] \cup {None}

\* What a step that changes one thread alone leaves of the rest.
LEMMA LocalEffect ==
  ASSUME TypeInv, NEW t \in Threads, NEW h, NEW l, NEW o, Locally(t, h, l, o)
  PROVE  /\ handle'[t] = h /\ pc'[t] = l /\ op'[t] = o
         /\ OthersStill(t)
         /\ handle' \in [Threads -> Handle] /\ pc' \in [Threads -> Labels] /\ op' \in [Threads -> Op]
  BY DEF TypeInv, Locally, OthersStill

\* A step that changes no state, neither begins nor ends a probe or a download.
LEMMA LocalStepPreserves ==
  ASSUME ReadPathInv, NEW t \in Threads, NEW h, NEW l, NEW o, Locally(t, h, l, o),
         SharedKept, UNCHANGED states,
         o.owns_probe <=> op[t].owns_probe,
         l \in FetchLabels <=> pc[t] \in FetchLabels,
         h.state = handle[t].state \/ (~op[t].owns_probe /\ pc[t] \notin FetchLabels),
         ThreadInv(t)'
  PROVE  ReadPathInv' /\ Advancing
  <1>1. /\ handle'[t] = h /\ pc'[t] = l /\ op'[t] = o /\ OthersStill(t)
        /\ handle' \in [Threads -> Handle] /\ pc' \in [Threads -> Labels] /\ op' \in [Threads -> Op]
    BY LocalEffect DEF ReadPathInv
  <1>2. TypeInv'
    BY <1>1 DEF ReadPathInv, TypeInv, SharedKept
  <1>3. Advancing
    BY StatesDomain DEF ReadPathInv, Advancing, Advances, FileState
  <1>4. ASSUME NEW i \in DOMAIN states
        PROVE  ProbeStep(t, i) /\ DownloadStep(t, i) /\ CacheInv(states'[i])
    BY <1>1 DEF ReadPathInv, StateInv, ProbeStep, DownloadStep, Probed, Owns, Fetches, CacheInv
  <1> QED  BY <1>1, <1>2, <1>3, <1>4, StepPreserves DEF SharedKept

\* A step of t that gives its state the value n.
LEMMA StateStepPreserves ==
  ASSUME ReadPathInv, NEW t \in Threads, NEW h, NEW l, NEW o, Locally(t, h, l, o),
         SharedKept, pc[t] # "Closed", NEW n \in FileState, SetState(t, n),
         Advances(State(t), n), CacheInv(n),
         h.state = handle[t].state \/ (~o.owns_probe /\ l \notin FetchLabels),
         \/ /\ (n.support = "UNKNOWN" /\ n.probing) <=> Probed(handle[t].state)
            /\ o.owns_probe <=> op[t].owns_probe
            /\ h.state = handle[t].state \/ ~op[t].owns_probe
         \/ /\ ~Probed(handle[t].state) /\ n.support = "UNKNOWN" /\ n.probing
            /\ o.owns_probe
         \/ op[t].owns_probe /\ ~o.owns_probe /\ ~(n.support = "UNKNOWN" /\ n.probing),
         \/ /\ n.downloading = State(t).downloading
            /\ l \in FetchLabels <=> pc[t] \in FetchLabels
            /\ h.state = handle[t].state \/ pc[t] \notin FetchLabels
         \/ ~State(t).downloading /\ n.downloading /\ l \in FetchLabels
         \/ pc[t] \in FetchLabels /\ l \notin FetchLabels /\ ~n.downloading,
         ThreadInv(t)'
  PROVE  ReadPathInv' /\ Advancing
  <1> DEFINE k == handle[t].state
  <1>1. /\ handle'[t] = h /\ pc'[t] = l /\ op'[t] = o /\ OthersStill(t)
        /\ handle' \in [Threads -> Handle] /\ pc' \in [Threads -> Labels] /\ op' \in [Threads -> Op]
    BY LocalEffect DEF ReadPathInv
  <1>2. k \in DOMAIN states /\ k \in 1..Len(states)
    BY StatesDomain DEF ReadPathInv, ThreadInv
  <1>3. /\ states' \in Seq(FileState) /\ Len(states') = Len(states)
        /\ DOMAIN states' = DOMAIN states
        /\ states'[k] = n
        /\ \A i \in DOMAIN states : i # k => states'[i] = states[i]
    <2>1. states \in Seq(FileState) /\ states' = [states EXCEPT ![k] = n]
      BY DEF ReadPathInv, TypeInv, SetState
    <2> HIDE DEF k
    <2>2. /\ states' \in Seq(FileState) /\ Len(states') = Len(states)
          /\ \A j \in 1..Len(states) : states'[j] = IF j = k THEN n ELSE states[j]
      BY <1>2, <2>1, ExceptSeq
    <2> QED  BY <1>2, <2>1, <2>2
  <1>4. TypeInv'
    BY <1>1, <1>3 DEF ReadPathInv, TypeInv, SharedKept
  <1>5. Advancing
    <2>1. \A i \in DOMAIN states : states[i].invalidated \in Nat
      BY StatesDomain DEF ReadPathInv, FileState
    <2> QED  BY <1>3, <2>1 DEF Advancing, Advances, State
  <1>6. ASSUME NEW i \in DOMAIN states
        PROVE  ProbeStep(t, i) /\ DownloadStep(t, i) /\ CacheInv(states'[i])
    <2>1. CASE i # k
      <3>1. /\ states'[i] = states[i] /\ ~Owns(t, i) /\ ~Fetches(t, i)
            /\ ~Owns(t, i)' /\ ~Fetches(t, i)'
        BY <1>1, <1>3, <2>1 DEF Owns, Fetches
      <3> QED  BY <3>1 DEF ReadPathInv, StateInv, ProbeStep, DownloadStep, Probed
    <2>2. CASE i = k
      <3>1. /\ states'[i] = n /\ states[i] = State(t)
            /\ Owns(t, i) <=> op[t].owns_probe
            /\ Fetches(t, i) <=> pc[t] \in FetchLabels
            /\ Owns(t, i)' <=> h.state = k /\ o.owns_probe
            /\ Fetches(t, i)' <=> h.state = k /\ l \in FetchLabels
            /\ Probed(i)' <=> n.support = "UNKNOWN" /\ n.probing
        BY <1>1, <1>3, <2>2 DEF Owns, Fetches, State, Probed
      <3>2. ProbeStep(t, i)
        BY <2>2, <3>1 DEF ProbeStep
      <3>3. DownloadStep(t, i)
        BY <2>2, <3>1 DEF DownloadStep
      <3> QED  BY <3>1, <3>2, <3>3
    <2> QED  BY <2>1, <2>2
  <1> QED  BY <1>1, <1>3, <1>4, <1>5, <1>6, StepPreserves DEF SharedKept

-----------------------------------------------------------------------------
(* Local variables. *)

\* Versions are positive numbers and no version is empty.
LEMMA LengthsType ==
  /\ 1 \in Versions /\ Versions = 1..Len(Lengths) /\ Len(Lengths) \in Nat
  /\ \A v \in Versions : v \in Nat /\ Lengths[v] \in Nat /\ Lengths[v] > 0
  BY ReadPathAssumption DEF ReadPathAssumption, Versions

\* o is of no consequence to others: no guard, no read, no result.
Calm(o) ==
    /\ o.support # "UNKNOWN" /\ ~o.owns_probe
    /\ ~o.again /\ o.purpose # "Read"
    /\ o.result.outcome = "None"

\* The initial values of the local variables.
LEMMA Initial ==
  /\ NoHandle \in Handle /\ NoHandle.state = 0 /\ NoHandle.etag = None
  /\ NoOp \in Op /\ Calm(NoOp) /\ NoOp.support = "SUPPORTED" /\ ~NoOp.owns_probe /\ ~NoOp.again
  /\ NoOp.purpose = None /\ NoOp.result = NoResult /\ NoResult \in Result
  /\ NoResult.outcome = "None" /\ NewFileState \in FileState
  <1>1. NoHandle \in Handle /\ NoHandle.state = 0 /\ NoHandle.etag = None
    BY DEF NoHandle, Handle, ETags
  <1>2. NoResult \in Result /\ NoResult.outcome = "None" /\ Empty \in Buffer
    BY DEF NoResult, Result, ETags, Empty, Buffer
  <1>3. /\ NoOp \in Op /\ NoOp.support = "SUPPORTED" /\ ~NoOp.owns_probe /\ ~NoOp.again
        /\ NoOp.purpose = None /\ NoOp.result = NoResult
    BY <1>2 DEF NoOp, Op, Supports
  <1>4. NoOp.purpose # "Read"
    BY <1>3, ReadPathAssumption DEF ReadPathAssumption
  <1>5. NewFileState \in FileState
    BY DEF NewFileState, FileState, Supports
  <1> QED  BY <1>1, <1>2, <1>3, <1>4, <1>5 DEF Calm

\* While a handle is opened nothing is read.
LEMMA OpeningCalm ==
  ASSUME NEW t \in Threads, ThreadInv(t), pc[t] \in OpenLabels
  PROVE  Calm(op[t]) /\ pc[t] \notin FetchLabels
  BY DEF ThreadInv, GuardInv, RangeInv, ResultInv, Calm, OpenLabels, GuardLabels, FetchLabels

\* A thread whose local variables are of no consequence.
LEMMA CalmThread ==
  ASSUME NEW t \in Threads, Calm(op'[t]),
         pc'[t] \notin GuardLabels \cup {"AwaitProbe", "Finalize"},
         handle'[t].state \in 0..Len(states'),
         pc'[t] # "Closed" => handle'[t].state \in DOMAIN states'
  PROVE  ThreadInv(t)'
  BY DEF Calm, ThreadInv, GuardInv, BufferInv, AgainInv, RangeInv, ResultInv, GuardLabels

\* A step that leaves t of no consequence, as it was.
LEMMA CalmStepPreserves ==
  ASSUME ReadPathInv, NEW t \in Threads, NEW h, NEW l, NEW o, Locally(t, h, l, o),
         SharedKept, UNCHANGED states, ~op[t].owns_probe, pc[t] \notin FetchLabels,
         Calm(o), l \notin GuardLabels \cup FetchLabels, l # "AwaitProbe",
         h.state \in 0..Len(states), l # "Closed" => h.state \in DOMAIN states
  PROVE  ReadPathInv' /\ Advancing
  <1>1. handle'[t] = h /\ pc'[t] = l /\ op'[t] = o
    BY LocalEffect DEF ReadPathInv
  <1>2. ThreadInv(t)'
    BY <1>1, CalmThread DEF FetchLabels
  <1> QED  BY <1>2, LocalStepPreserves DEF Calm

\* What an exception leaves behind; a failed second download has a reason.
LEMMA ThrowEffect ==
  ASSUME ReadPathInv, NEW t \in Threads, NEW what, Throw(t, what), pc[t] # "Closed",
         what \in Errors,
         DOMAIN states' = DOMAIN states, states' \in Seq(FileState),
         what = "FailedAfterDownload" => states'[handle[t].state].invalidated > 0
  PROVE  /\ \E h, l, o : /\ Locally(t, h, l, o) /\ ~o.owns_probe
                         /\ l \notin GuardLabels \cup FetchLabels
                         /\ l \in {"Closed", "Ready"}
         /\ ThreadInv(t)'
  <1>1. handle[t] \in Handle /\ handle[t].state \in DOMAIN states
    BY DEF ReadPathInv, TypeInv, ThreadInv
  <1>2. DOMAIN states' = 1..Len(states') /\ Len(states') \in Nat
    OBVIOUS
  <1>3. "Closed" \in Labels /\ "Ready" \in Labels
    BY DEF Labels
  <1>4. CASE Opening(t)
    <2>1. Locally(t, NoHandle, "Closed", NoOp)
      BY <1>3, <1>4, Initial DEF Throw, Goto, Locally
    <2>2. handle'[t] = NoHandle /\ pc'[t] = "Closed" /\ op'[t] = NoOp
      BY <2>1, LocalEffect DEF ReadPathInv
    <2>3. ThreadInv(t)'
      BY <1>2, <2>2, Initial, CalmThread DEF GuardLabels
    <2> QED  BY <2>1, <2>3, Initial DEF GuardLabels, FetchLabels
  <1>5. CASE ~Opening(t)
    <2> DEFINE o == [NoOp EXCEPT !.result.outcome = what]
    <2>1. /\ o \in Op /\ o.result.outcome = what /\ ~o.owns_probe /\ o.support = "SUPPORTED"
          /\ ~o.again /\ o.purpose = None
      <3>1. [NoResult EXCEPT !.outcome = what] \in Result
        BY Initial DEF Result
      <3>2. [NoResult EXCEPT !.outcome = what].outcome = what
        BY Initial DEF Result
      <3>3. o = [NoOp EXCEPT !.result = [NoResult EXCEPT !.outcome = what]]
        BY Initial
      <3> QED  BY <3>1, <3>2, <3>3, Initial DEF Op
    <2>2. op' = [op EXCEPT ![t] = o]
      BY <1>5 DEF Throw
    <2> HIDE DEF o
    <2>3. Locally(t, handle[t], "Ready", o)
      <3>1. handle' = [handle EXCEPT ![t] = handle[t]]
        BY <1>5 DEF Throw, ReadPathInv, TypeInv
      <3> QED  BY <1>1, <1>3, <1>5, <2>1, <2>2, <3>1 DEF Throw, Goto, Locally
    <2>4. handle'[t] = handle[t] /\ pc'[t] = "Ready" /\ op'[t] = o
      BY <2>3, LocalEffect DEF ReadPathInv
    <2>5. o.purpose # "Read"
      BY <2>1, Initial DEF Calm
    <2>6. GuardInv(t)' /\ BufferInv(t)' /\ AgainInv(t)' /\ RangeInv(t)'
      BY <2>1, <2>4, <2>5 DEF GuardInv, BufferInv, AgainInv, RangeInv, GuardLabels, OpenLabels
    <2>7. ResultInv(t)'
      BY <2>1, <2>4 DEF ResultInv, State, Errors
    <2>8. ThreadInv(t)'
      BY <1>1, <1>2, <2>4, <2>6, <2>7 DEF ThreadInv
    <2> QED  BY <2>1, <2>3, <2>8 DEF GuardLabels, FetchLabels
  <1> QED  BY <1>4, <1>5

-----------------------------------------------------------------------------
(* Opening. *)

\* Most steps of t leave the shared variables alone.
LEMMA SharedUnchanged ==
  ASSUME ReadPathInv, UNCHANGED <<setup, version, file_states, metadata>>
  PROVE  SharedKept
  BY DEF ReadPathInv, TypeInv, SharedKept

\* A handle gets the registered state of the path, or a new one that nobody works on.
LEMMA OpenPreserves ==
  ASSUME ReadPathInv, NEW t \in Threads, Open(t)
  PROVE  ReadPathInv' /\ Advancing
  <1>1. PICK info \in {None} \cup (IF setup.etags THEN 1..version ELSE {}) :
          handle' = [handle EXCEPT ![t] =
              [NoHandle EXCEPT !.state = file_states', !.etag = info,
                               !.length = IF info = None THEN 0 ELSE Lengths[info]]]
    BY DEF Open
  <1> DEFINE n == IF info = None THEN 0 ELSE Lengths[info]
             h == [NoHandle EXCEPT !.state = file_states', !.etag = info, !.length = n]
  <1>2. /\ TypeInv /\ states \in Seq(FileState) /\ Len(states) \in Nat
        /\ DOMAIN states = 1..Len(states) /\ file_states \in 0..Len(states)
        /\ pc[t] = "Closed" /\ ThreadInv(t) /\ version \in Versions
    BY DEF ReadPathInv, TypeInv, Open
  <1>3. info \in ETags /\ n \in Nat
    BY <1>2, LengthsType DEF ETags
  <1>4. /\ DOMAIN states' = 1..Len(states') /\ Len(states') \in Nat
        /\ states' \in Seq(FileState) /\ Len(states) <= Len(states')
        /\ \A i \in DOMAIN states : states'[i] = states[i]
        /\ \A i \in DOMAIN states' \ DOMAIN states : states'[i] = NewFileState
        /\ file_states' \in DOMAIN states' /\ file_states' \in Nat
    <2>1. CASE file_states # 0 /\ UNCHANGED <<states, file_states>>
      BY <1>2, <2>1
    <2>2. CASE /\ states' = Append(states, NewFileState)
               /\ file_states' = Len(states')
      <3>1. /\ states' \in Seq(FileState) /\ Len(states') = Len(states) + 1
            /\ \A i \in 1..Len(states) : states'[i] = states[i]
            /\ states'[Len(states) + 1] = NewFileState
        BY <1>2, <2>2, Initial, AppendProperties
      <3> QED  BY <1>2, <2>2, <3>1
    <2> QED  BY <2>1, <2>2 DEF Open
  <1> HIDE DEF n
  <1>5. h \in Handle /\ h.state = file_states'
    BY <1>3, <1>4, Initial DEF Handle
  <1> HIDE DEF h
  <1>6. Locally(t, h, "TryInitializeRead", NoOp)
    BY <1>1, <1>5, Initial DEF Open, Goto, Locally, Labels, OpenLabels, h, n
  <1>7. /\ handle'[t] = h /\ pc'[t] = "TryInitializeRead" /\ op'[t] = NoOp /\ OthersStill(t)
        /\ handle' \in [Threads -> Handle] /\ pc' \in [Threads -> Labels] /\ op' \in [Threads -> Op]
    BY <1>2, <1>6, LocalEffect
  <1>8. TypeInv'
    <2>1. UNCHANGED <<setup, version, metadata>>
      BY DEF Open
    <2>2. file_states' \in 0..Len(states')
      BY <1>4
    <2> QED  BY <1>2, <1>4, <1>7, <2>1, <2>2 DEF TypeInv
  <1>9. Advancing
    <2>1. \A i \in DOMAIN states : states[i].invalidated \in Nat
      BY <1>2, StatesDomain DEF FileState
    <2> QED  BY <1>2, <1>4, <2>1 DEF Advancing, Advances
  <1>10. ThreadInv(t)'
    BY <1>4, <1>5, <1>7, Initial, CalmThread DEF GuardLabels
  <1>11. ASSUME NEW u \in Threads, u # t PROVE ThreadInv(u)'
    BY <1>2, <1>7, <1>8, <1>9, <1>11, OthersKeep DEF ReadPathInv, OthersStill, Open
  <1>12. \A i \in DOMAIN states' : ~Owns(t, i)' /\ ~Fetches(t, i)'
    BY <1>7, Initial DEF Owns, Fetches, FetchLabels
  <1>13. \A i \in DOMAIN states : ~Owns(t, i) /\ ~Fetches(t, i)
    BY <1>2 DEF ThreadInv, GuardInv, GuardLabels, Owns, Fetches, FetchLabels
  <1>14. ASSUME NEW i \in DOMAIN states PROVE StateInv(i)'
    <2>1. states'[i] = states[i] /\ StateInv(i)
      BY <1>4 DEF ReadPathInv
    <2>2. \A u \in Threads : (Owns(u, i)' <=> Owns(u, i)) /\ (Fetches(u, i)' <=> Fetches(u, i))
      BY <1>2, <1>4, <1>7, <1>12, <1>13 DEF OthersStill, Owns, Fetches
    <2> QED  BY <2>1, <2>2 DEF StateInv, ProbeInv, DownloadInv, Probed
  <1>15. ASSUME NEW i \in DOMAIN states' \ DOMAIN states PROVE StateInv(i)'
    <2>1. states'[i] = NewFileState
      BY <1>4
    <2>2. ASSUME NEW u \in Threads PROVE ~Owns(u, i)' /\ ~Fetches(u, i)'
      <3>1. CASE u = t
        BY <1>12, <3>1
      <3>2. CASE u # t
        <4>1. handle[u].state \in 0..Len(states) /\ handle'[u] = handle[u] /\ i \in Nat /\ i > Len(states)
          BY <1>2, <1>4, <1>7, <3>2 DEF ReadPathInv, ThreadInv, OthersStill
        <4> QED  BY <1>2, <4>1 DEF Owns, Fetches
      <3> QED  BY <3>1, <3>2
    <2>3. CacheInv(NewFileState)
      BY DEF CacheInv, NewFileState
    <2>4. ~Probed(i)' /\ ~states'[i].downloading
      BY <2>1 DEF Probed, NewFileState
    <2> QED  BY <2>1, <2>2, <2>3, <2>4 DEF StateInv, ProbeInv, DownloadInv
  <1> QED  BY <1>8, <1>9, <1>10, <1>11, <1>14, <1>15 DEF ReadPathInv

\* A handle is ready with the metadata of the cache, or has to look for its own.
LEMMA TryInitializeReadPreserves ==
  ASSUME ReadPathInv, NEW t \in Threads, TryInitializeRead(t)
  PROVE  ReadPathInv' /\ Advancing
  <1>1. /\ pc[t] \in OpenLabels /\ ThreadInv(t) /\ op[t] \in Op /\ handle[t] \in Handle
        /\ handle[t].state \in DOMAIN states /\ handle[t].state \in 0..Len(states)
        /\ SharedKept /\ UNCHANGED states
    BY SharedUnchanged DEF TryInitializeRead, ReadPathInv, TypeInv, ThreadInv, OpenLabels
  <1>2. Calm(op[t]) /\ pc[t] \notin FetchLabels /\ ~op[t].owns_probe
    BY <1>1, OpeningCalm DEF Calm
  <1>3. \A l \in {"FullDownload", "Ready", "LoadFileInfo"} :
           l \in Labels /\ l \notin GuardLabels \cup FetchLabels /\ l \notin {"Closed", "AwaitProbe"}
    BY DEF Labels, OpenLabels, GuardLabels, FetchLabels
  <1>4. CASE /\ op' = [op EXCEPT ![t].purpose = "Open"]
             /\ Goto(t, "FullDownload")
             /\ UNCHANGED handle
    <2> DEFINE o == [op[t] EXCEPT !.purpose = "Open"]
    <2>1. o \in Op /\ Calm(o)
      BY <1>1, <1>2 DEF Op, Calm
    <2>2. Locally(t, handle[t], "FullDownload", o)
      BY <1>1, <1>3, <1>4, <2>1 DEF Locally, Goto, ReadPathInv, TypeInv
    <2> QED  BY <1>1, <1>2, <1>3, <2>1, <2>2, CalmStepPreserves
  <1>5. CASE /\ metadata # None
             /\ handle' = [handle EXCEPT ![t].length = metadata.length, ![t].etag = metadata.etag]
             /\ Goto(t, "Ready")
             /\ UNCHANGED op
    <2> DEFINE h == [handle[t] EXCEPT !.length = metadata.length, !.etag = metadata.etag]
    <2>1. metadata.length \in Nat /\ metadata.etag \in ETags
      BY <1>5 DEF ReadPathInv, TypeInv
    <2>2. h \in Handle /\ h.state = handle[t].state
      BY <1>1, <2>1 DEF Handle
    <2>3. Locally(t, h, "Ready", op[t])
      BY <1>1, <1>3, <1>5, <2>2 DEF Locally, Goto, ReadPathInv, TypeInv
    <2> QED  BY <1>1, <1>2, <1>3, <2>2, <2>3, CalmStepPreserves
  <1>6. CASE /\ op' = [op EXCEPT ![t].write_cache = setup.cache # "NONE"]
             /\ Goto(t, "LoadFileInfo")
             /\ UNCHANGED handle
    <2> DEFINE b == setup.cache # "NONE"
               o == [op[t] EXCEPT !.write_cache = b]
    <2>1. b \in BOOLEAN
      OBVIOUS
    <2>2. op' = [op EXCEPT ![t] = o]
      BY <1>6
    <2> HIDE DEF b
    <2>3. o \in Op /\ Calm(o)
      BY <1>1, <1>2, <2>1 DEF Op, Calm
    <2>4. Locally(t, handle[t], "LoadFileInfo", o)
      BY <1>1, <1>3, <1>6, <2>2, <2>3 DEF Locally, Goto, ReadPathInv, TypeInv
    <2> QED  BY <1>1, <1>2, <1>3, <2>3, <2>4, CalmStepPreserves
  <1> QED  BY <1>4, <1>5, <1>6 DEF TryInitializeRead

\* The length comes from a download, or from the caller, or has to be asked for.
LEMMA LoadFileInfoPreserves ==
  ASSUME ReadPathInv, NEW t \in Threads, LoadFileInfo(t)
  PROVE  ReadPathInv' /\ Advancing
  <1>1. /\ pc[t] \in OpenLabels /\ ThreadInv(t) /\ op[t] \in Op /\ handle[t] \in Handle
        /\ handle[t].state \in DOMAIN states /\ handle[t].state \in 0..Len(states)
        /\ SharedKept /\ UNCHANGED <<states, op>>
    BY SharedUnchanged DEF LoadFileInfo, ReadPathInv, TypeInv, ThreadInv, OpenLabels
  <1>2. Calm(op[t]) /\ pc[t] \notin FetchLabels /\ ~op[t].owns_probe
    BY <1>1, OpeningCalm DEF Calm
  <1>3. \A l \in {"InitializeFileInfo", "HeadRequest"} :
           l \in Labels /\ l \notin GuardLabels \cup FetchLabels /\ l \notin {"Closed", "AwaitProbe"}
    BY DEF Labels, OpenLabels, GuardLabels, FetchLabels
  <1>4. CASE /\ State(t).cached_data # None
             /\ handle' = [handle EXCEPT ![t].length = State(t).cached_data.size]
             /\ Goto(t, "InitializeFileInfo")
    <2> DEFINE h == [handle[t] EXCEPT !.length = State(t).cached_data.size]
    <2>1. State(t).cached_data.size \in Nat
      BY <1>1, <1>4, StatesDomain DEF ReadPathInv, State, FileState, CachedData
    <2>2. h \in Handle /\ h.state = handle[t].state
      BY <1>1, <2>1 DEF Handle
    <2>3. Locally(t, h, "InitializeFileInfo", op[t])
      BY <1>1, <1>3, <1>4, <2>2 DEF Locally, Goto, ReadPathInv, TypeInv
    <2> QED  BY <1>1, <1>2, <1>3, <2>2, <2>3, CalmStepPreserves
  <1>5. CASE UNCHANGED handle /\ (Goto(t, "InitializeFileInfo") \/ Goto(t, "HeadRequest"))
    <2>1. PICK l \in {"InitializeFileInfo", "HeadRequest"} : Goto(t, l)
      BY <1>5
    <2>2. Locally(t, handle[t], l, op[t])
      BY <1>1, <1>3, <1>5, <2>1 DEF Locally, Goto, ReadPathInv, TypeInv
    <2> QED  BY <1>1, <1>2, <1>3, <2>2, CalmStepPreserves
  <1> QED  BY <1>4, <1>5 DEF LoadFileInfo

\* ApplyFileInfo changes the length and the ETag only.
LEMMA AppliedType ==
  ASSUME TypeInv, NEW h \in Handle, NEW length \in Nat
  PROVE  Applied(h, length) \in Handle /\ Applied(h, length).state = h.state
  <1>1. (IF setup.etags THEN version ELSE None) \in ETags
    BY DEF TypeInv, ETags
  <1> QED  BY <1>1 DEF Applied, Handle

\* ApplyFileInfo leaves a thread that is about to initialize, or to mark ranges as
\* supported.
LEMMA ApplyFileInfoEffect ==
  ASSUME ReadPathInv, NEW t \in Threads, NEW length \in Nat, ApplyFileInfo(t, length),
         op[t].purpose # "Read", op[t].result.outcome = "None", pc[t] # "Closed",
         DOMAIN states' = DOMAIN states, states' \in Seq(FileState)
  PROVE  /\ \E h, l, o : /\ Locally(t, h, l, o) /\ ~o.owns_probe
                         /\ l \notin GuardLabels \cup FetchLabels
                         /\ h.state = handle[t].state
         /\ ThreadInv(t)'
  <1> DEFINE h == Applied(handle[t], length)
             g == Guardless(op[t])
             m == [g EXCEPT !.purpose = "Mark"]
  <1>1. /\ TypeInv /\ handle[t] \in Handle /\ op[t] \in Op /\ ~op[t].again
        /\ handle[t].state \in DOMAIN states /\ handle[t].state \in DOMAIN states'
    BY DEF ReadPathInv, TypeInv, ThreadInv, RangeInv
  <1>2. DOMAIN states' = 1..Len(states') /\ Len(states') \in Nat
    OBVIOUS
  <1>3. h \in Handle /\ h.state = handle[t].state
    BY <1>1, AppliedType
  <1>4. /\ g \in Op /\ g.support = "SUPPORTED" /\ ~g.owns_probe
        /\ g.again = op[t].again /\ g.purpose = op[t].purpose /\ g.result = op[t].result
    BY <1>1 DEF Guardless, Op, Supports
  <1>5. handle' = [handle EXCEPT ![t] = h]
    BY DEF ApplyFileInfo
  <1>6. \/ op' = [op EXCEPT ![t] = m] /\ Goto(t, "BeginRequest")
        \/ op' = [op EXCEPT ![t] = g] /\ Goto(t, "InitializeFileInfo")
    BY DEF ApplyFileInfo
  <1> HIDE DEF h, g
  <1>7. /\ m \in Op /\ m.support = "SUPPORTED" /\ ~m.owns_probe
        /\ m.again = op[t].again /\ m.purpose = "Mark" /\ m.result = op[t].result
    BY <1>4 DEF Op
  <1> HIDE DEF m
  <1>8. Calm(g) /\ Calm(m)
    BY <1>1, <1>4, <1>7 DEF Calm
  <1>9. PICK l \in {"BeginRequest", "InitializeFileInfo"}, o \in {g, m} :
          op' = [op EXCEPT ![t] = o] /\ Goto(t, l)
    BY <1>6
  <1>10. /\ l \in Labels /\ l \notin GuardLabels \cup FetchLabels
         /\ l \notin {"AwaitProbe", "Finalize", "Closed"}
    BY DEF Labels, OpenLabels, RangeLabels, GuardLabels, FetchLabels
  <1>11. o \in Op /\ Calm(o) /\ ~o.owns_probe
    BY <1>4, <1>7, <1>8
  <1>12. Locally(t, h, l, o)
    BY <1>3, <1>5, <1>9, <1>10, <1>11 DEF Locally, Goto
  <1>13. handle'[t] = h /\ pc'[t] = l /\ op'[t] = o
    BY <1>1, <1>12, LocalEffect
  <1>14. ThreadInv(t)'
    BY <1>1, <1>2, <1>3, <1>10, <1>11, <1>13, CalmThread
  <1> QED  BY <1>3, <1>10, <1>11, <1>12, <1>14

\* HEAD gives a length, or is repeated as a GET, or fails.
LEMMA HeadRequestPreserves ==
  ASSUME ReadPathInv, NEW t \in Threads, HeadRequest(t)
  PROVE  ReadPathInv' /\ Advancing
  <1>1. /\ pc[t] \in OpenLabels /\ ThreadInv(t) /\ op[t] \in Op /\ handle[t] \in Handle
        /\ handle[t].state \in DOMAIN states /\ handle[t].state \in 0..Len(states)
        /\ SharedKept /\ UNCHANGED states /\ TypeInv /\ pc[t] # "Closed"
    BY SharedUnchanged DEF HeadRequest, ReadPathInv, TypeInv, ThreadInv, OpenLabels
  <1>2. Calm(op[t]) /\ pc[t] \notin FetchLabels /\ ~op[t].owns_probe
    BY <1>1, OpeningCalm DEF Calm
  <1>3. \A l \in {"InitializeFileInfo", "BeginRequest"} :
           l \in Labels /\ l \notin GuardLabels \cup FetchLabels /\ l \notin {"Closed", "AwaitProbe"}
    BY DEF Labels, OpenLabels, RangeLabels, GuardLabels, FetchLabels
  <1>4. CASE ApplyFileInfo(t, HeadLength)
    <2>1. HeadLength \in Nat
      BY <1>1, LengthsType DEF HeadLength, TypeInv
    <2>2. op[t].purpose # "Read" /\ op[t].result.outcome = "None"
      BY <1>2 DEF Calm
    <2>3. /\ \E h, l, o : /\ Locally(t, h, l, o) /\ ~o.owns_probe
                          /\ l \notin GuardLabels \cup FetchLabels
                          /\ h.state = handle[t].state
          /\ ThreadInv(t)'
      BY <1>1, <1>4, <2>1, <2>2, ApplyFileInfoEffect DEF TypeInv
    <2> QED  BY <1>1, <1>2, <2>3, LocalStepPreserves
  <1>5. CASE /\ op' = [op EXCEPT ![t].purpose = "Info", ![t].size = 2]
             /\ Goto(t, "BeginRequest")
             /\ UNCHANGED handle
    <2> DEFINE o == [op[t] EXCEPT !.purpose = "Info", !.size = 2]
    <2>1. o \in Op /\ Calm(o)
      BY <1>1, <1>2 DEF Op, Calm
    <2>2. Locally(t, handle[t], "BeginRequest", o)
      BY <1>1, <1>3, <1>5, <2>1 DEF Locally, Goto, ReadPathInv, TypeInv
    <2> QED  BY <1>1, <1>2, <1>3, <2>1, <2>2, CalmStepPreserves
  <1>6. CASE Throw(t, "Error")
    <2>1. /\ \E h, l, o : /\ Locally(t, h, l, o) /\ ~o.owns_probe
                          /\ l \notin GuardLabels \cup FetchLabels
          /\ ThreadInv(t)'
      BY <1>1, <1>6, ThrowEffect DEF TypeInv, Errors
    <2> QED  BY <1>1, <1>2, <2>1, LocalStepPreserves
  <1> QED  BY <1>4, <1>5, <1>6 DEF HeadRequest

\* The handle is ready, or a full download decides.
LEMMA InitializeFileInfoPreserves ==
  ASSUME ReadPathInv, NEW t \in Threads, InitializeFileInfo(t)
  PROVE  ReadPathInv' /\ Advancing
  <1>1. /\ pc[t] \in OpenLabels /\ ThreadInv(t) /\ op[t] \in Op /\ handle[t] \in Handle
        /\ handle[t].state \in DOMAIN states /\ handle[t].state \in 0..Len(states)
        /\ UNCHANGED <<states, handle>> /\ TypeInv
    BY DEF InitializeFileInfo, ReadPathInv, TypeInv, ThreadInv, OpenLabels
  <1>2. Calm(op[t]) /\ pc[t] \notin FetchLabels /\ ~op[t].owns_probe
    BY <1>1, OpeningCalm DEF Calm
  <1>3. SharedKept
    <2>1. metadata' = metadata \/ metadata' = [length |-> handle[t].length, etag |-> handle[t].etag]
      BY DEF InitializeFileInfo
    <2>2. handle[t].length \in Nat /\ handle[t].etag \in ETags
      BY <1>1 DEF Handle
    <2> QED  BY <1>1, <2>1, <2>2 DEF SharedKept, InitializeFileInfo, TypeInv
  <1>4. \A l \in {"FullDownload", "Ready"} :
           l \in Labels /\ l \notin GuardLabels \cup FetchLabels /\ l \notin {"Closed", "AwaitProbe"}
    BY DEF Labels, GuardLabels, FetchLabels
  <1>5. CASE /\ op' = [op EXCEPT ![t] = [NoOp EXCEPT !.purpose = "Open"]]
             /\ Goto(t, "FullDownload")
    <2> DEFINE o == [NoOp EXCEPT !.purpose = "Open"]
    <2>1. o \in Op /\ Calm(o)
      BY Initial DEF Op, Calm
    <2>2. Locally(t, handle[t], "FullDownload", o)
      BY <1>1, <1>4, <1>5, <2>1 DEF Locally, Goto, TypeInv
    <2> QED  BY <1>1, <1>2, <1>3, <1>4, <2>1, <2>2, CalmStepPreserves
  <1>6. CASE op' = [op EXCEPT ![t] = NoOp] /\ Goto(t, "Ready")
    <2>1. Locally(t, handle[t], "Ready", NoOp)
      BY <1>1, <1>4, <1>6, Initial DEF Locally, Goto, TypeInv
    <2> QED  BY <1>1, <1>2, <1>3, <1>4, <2>1, Initial, CalmStepPreserves
  <1> QED  BY <1>5, <1>6 DEF InitializeFileInfo

-----------------------------------------------------------------------------
(* Reading. *)

\* A thread that reads, without a guard.
LEMMA ReadingThread ==
  ASSUME NEW t \in Threads,
         op'[t].purpose = "Read", op'[t].support # "UNKNOWN", ~op'[t].owns_probe,
         op'[t].result.outcome = "None",
         op'[t].location + op'[t].size <= handle'[t].length,
         pc'[t] \notin GuardLabels \cup OpenLabels \cup {"AwaitProbe", "Finalize"},
         handle'[t].state \in DOMAIN states', handle'[t].state \in 0..Len(states'),
         AgainInv(t)'
  PROVE  ThreadInv(t)'
  BY DEF ThreadInv, GuardInv, BufferInv, RangeInv, ResultInv, GuardLabels

\* A read within the length of the handle.
LEMMA ReadPreserves ==
  ASSUME ReadPathInv, NEW t \in Threads, Read(t)
  PROVE  ReadPathInv' /\ Advancing
  <1>1. /\ pc[t] = "Ready" /\ ThreadInv(t) /\ handle[t] \in Handle
        /\ handle[t].state \in DOMAIN states /\ handle[t].state \in 0..Len(states)
        /\ handle[t].length \in Nat
        /\ SharedKept /\ UNCHANGED <<states, handle>> /\ TypeInv
    BY SharedUnchanged DEF Read, ReadPathInv, TypeInv, ThreadInv, Handle
  <1>2. PICK location \in 0..handle[t].length - 1 : \E size \in 1..handle[t].length - location :
           op' = [op EXCEPT ![t] = [NoOp EXCEPT !.purpose = "Read",
                                                !.location = location, !.size = size]]
    BY DEF Read
  <1>3. PICK size \in 1..handle[t].length - location :
           op' = [op EXCEPT ![t] = [NoOp EXCEPT !.purpose = "Read",
                                                !.location = location, !.size = size]]
    BY <1>2
  <1> DEFINE o == [NoOp EXCEPT !.purpose = "Read", !.location = location, !.size = size]
  <1>4. location \in Nat /\ size \in Nat /\ location + size <= handle[t].length
    BY <1>1
  <1>5. /\ o \in Op /\ o.purpose = "Read" /\ o.location = location /\ o.size = size
        /\ o.support = "SUPPORTED" /\ ~o.owns_probe /\ ~o.again /\ o.result = NoResult
    BY <1>4, Initial DEF Op
  <1>6. Locally(t, handle[t], "ReadAt", o)
    BY <1>1, <1>3, <1>5 DEF Read, Locally, Goto, TypeInv, Labels
  <1> HIDE DEF o
  <1>7. handle'[t] = handle[t] /\ pc'[t] = "ReadAt" /\ op'[t] = o
    BY <1>1, <1>6, LocalEffect
  <1>8. ThreadInv(t)'
    <2>1. AgainInv(t)'
      BY <1>5, <1>7 DEF AgainInv
    <2>2. pc'[t] \notin GuardLabels \cup OpenLabels \cup {"AwaitProbe", "Finalize"}
      BY <1>7 DEF GuardLabels, OpenLabels
    <2> QED  BY <1>1, <1>4, <1>5, <1>7, <2>1, <2>2, Initial, ReadingThread
  <1>9. ~op[t].owns_probe /\ pc[t] \notin FetchLabels /\ "ReadAt" \notin FetchLabels
    BY <1>1 DEF ThreadInv, GuardInv, GuardLabels, FetchLabels
  <1> QED  BY <1>1, <1>5, <1>6, <1>8, <1>9, LocalStepPreserves

\* What a read returns.
LEMMA ReturnedEffect ==
  ASSUME ReadPathInv, NEW t \in Threads, pc[t] # "Closed",
         NEW outcome \in {"Range", "Cached"}, NEW v \in Versions, NEW from \in Nat, NEW pinned \in ETags,
         Returned(t, outcome, v, from, pinned), UNCHANGED handle,
         DOMAIN states' = DOMAIN states, states' \in Seq(FileState),
         outcome = "Cached" => from = op[t].location /\ (pinned # None => v = pinned),
         outcome = "Range" /\ handle[t].etag # None =>
             /\ v = handle[t].etag
             /\ handle[t].length <= Lengths[v] => from = op[t].location
  PROVE  /\ \E o : Locally(t, handle[t], "Ready", o) /\ ~o.owns_probe
         /\ ThreadInv(t)'
  <1> DEFINE r == [outcome |-> outcome, version |-> v, from |-> from, pinned |-> pinned]
             o == [NoOp EXCEPT !.location = op[t].location, !.result = r]
  <1>1. handle[t] \in Handle /\ handle[t].state \in DOMAIN states /\ op[t] \in Op /\ TypeInv
    BY DEF ReadPathInv, TypeInv, ThreadInv
  <1>2. DOMAIN states' = 1..Len(states') /\ Len(states') \in Nat
    OBVIOUS
  <1>3. r \in Result /\ op[t].location \in Nat
    BY <1>1, LengthsType DEF Result, Op
  <1>4. op' = [op EXCEPT ![t] = o]
    BY DEF Returned
  <1>5. r.outcome = outcome /\ r.version = v /\ r.from = from /\ r.pinned = pinned
    OBVIOUS
  <1> HIDE DEF r
  <1>6. /\ o \in Op /\ o.location = op[t].location /\ o.result = r /\ o.purpose = None
        /\ o.support = "SUPPORTED" /\ ~o.owns_probe /\ ~o.again
    BY <1>3, Initial DEF Op
  <1> HIDE DEF o
  <1>7. Locally(t, handle[t], "Ready", o)
    BY <1>1, <1>4, <1>6 DEF Returned, Locally, Goto, TypeInv, Labels
  <1>8. handle'[t] = handle[t] /\ pc'[t] = "Ready" /\ op'[t] = o
    BY <1>1, <1>7, LocalEffect
  <1>9. o.purpose # "Read"
    BY <1>6, ReadPathAssumption DEF ReadPathAssumption
  <1>10. GuardInv(t)' /\ BufferInv(t)' /\ AgainInv(t)' /\ RangeInv(t)'
    BY <1>6, <1>8, <1>9 DEF GuardInv, BufferInv, AgainInv, RangeInv, GuardLabels, OpenLabels
  <1>11. ResultInv(t)'
    BY <1>5, <1>6, <1>8 DEF ResultInv
  <1>12. ThreadInv(t)'
    BY <1>1, <1>2, <1>8, <1>10, <1>11 DEF ThreadInv
  <1> QED  BY <1>6, <1>7, <1>12

\* The download is read, or turns out too short, or there is none.
LEMMA ReadAtPreserves ==
  ASSUME ReadPathInv, NEW t \in Threads, ReadAt(t)
  PROVE  ReadPathInv' /\ Advancing
  <1> DEFINE cached == State(t).cached_data
  <1>1. /\ pc[t] = "ReadAt" /\ ThreadInv(t) /\ op[t] \in Op /\ handle[t] \in Handle
        /\ handle[t].state \in DOMAIN states /\ handle[t].state \in 0..Len(states)
        /\ SharedKept /\ UNCHANGED states /\ TypeInv /\ states' \in Seq(FileState)
    BY SharedUnchanged DEF ReadAt, ReadPathInv, TypeInv, ThreadInv
  <1>2. /\ ~op[t].owns_probe /\ pc[t] \notin FetchLabels /\ op[t].support # "UNKNOWN"
        /\ "Ready" \notin FetchLabels /\ "BeginRequest" \notin FetchLabels
    BY <1>1 DEF ThreadInv, GuardInv, GuardLabels, FetchLabels
  <1>3. State(t) \in FileState /\ CacheInv(State(t))
    BY <1>1, StatesDomain DEF ReadPathInv, StateInv, State
  <1>4. CASE /\ cached # None
             /\ Returned(t, "Cached", cached.version, op[t].location, cached.pinned)
             /\ UNCHANGED handle
    <2>1. /\ cached.version \in Versions /\ cached.pinned \in ETags
          /\ cached.pinned # None => cached.version = cached.pinned
      BY <1>3, <1>4 DEF FileState, CachedData, CacheInv, Whole
    <2>2. op[t].location \in Nat
      BY <1>1 DEF Op
    <2>3. /\ \E o : Locally(t, handle[t], "Ready", o) /\ ~o.owns_probe
          /\ ThreadInv(t)'
      BY <1>1, <1>4, <2>1, <2>2, ReturnedEffect
    <2> QED  BY <1>1, <1>2, <2>3, LocalStepPreserves
  <1>5. CASE Throw(t, "CachedTooShort")
    <2>1. /\ \E h, l, o : /\ Locally(t, h, l, o) /\ ~o.owns_probe
                          /\ l \notin GuardLabels \cup FetchLabels
          /\ ThreadInv(t)'
      BY <1>1, <1>5, ThrowEffect DEF Errors
    <2> QED  BY <1>1, <1>2, <2>1, LocalStepPreserves
  <1>6. CASE cached = None /\ Goto(t, "BeginRequest") /\ UNCHANGED <<op, handle>>
    <2>1. Locally(t, handle[t], "BeginRequest", op[t])
      BY <1>1, <1>6 DEF Locally, Goto, TypeInv, Labels, RangeLabels
    <2>2. handle'[t] = handle[t] /\ pc'[t] = "BeginRequest" /\ op'[t] = op[t]
      BY <1>1, <2>1, LocalEffect
    <2>3. (State(t))' = State(t)
      BY <1>1, <2>2 DEF State
    <2>4. ThreadInv(t)'
      BY <1>1, <1>2, <1>6, <2>2, <2>3 DEF ThreadInv, GuardInv, BufferInv, AgainInv, RangeInv,
             ResultInv, GuardLabels, OpenLabels
    <2> QED  BY <1>1, <1>2, <2>1, <2>4, LocalStepPreserves
  <1> QED  BY <1>4, <1>5, <1>6 DEF ReadAt

\* The guard's first look, without the mutex.
LEMMA BeginRequestPreserves ==
  ASSUME ReadPathInv, NEW t \in Threads, BeginRequest(t)
  PROVE  ReadPathInv' /\ Advancing
  <1>1. /\ pc[t] = "BeginRequest" /\ ThreadInv(t) /\ op[t] \in Op /\ handle[t] \in Handle
        /\ handle[t].state \in DOMAIN states /\ handle[t].state \in 0..Len(states)
        /\ SharedKept /\ UNCHANGED <<states, handle>> /\ TypeInv
    BY SharedUnchanged DEF BeginRequest, ReadPathInv, TypeInv, ThreadInv
  <1>2. /\ ~op[t].owns_probe /\ pc[t] \notin FetchLabels /\ op[t].support # "UNKNOWN"
        /\ op[t].result.outcome = "None"
        /\ \A l \in {"RangeRequest", "Guarded", "AwaitProbe"} :
              l \notin FetchLabels /\ l \in Labels /\ l \in RangeLabels
    BY <1>1 DEF ThreadInv, GuardInv, ResultInv, GuardLabels, FetchLabels, RangeLabels, Labels
  <1>3. State(t) \in FileState
    BY <1>1, StatesDomain DEF State
  <1>4. ASSUME NEW l \in {"RangeRequest", "Guarded", "AwaitProbe"}, Goto(t, l),
               NEW support \in Supports, support # "UNKNOWN",
               op' = [op EXCEPT ![t].support = support],
               l # "RangeRequest" => Coordinated(t),
               l \in GuardLabels /\ Coordinated(t) => State(t).support # "UNKNOWN"
        PROVE  ReadPathInv' /\ Advancing
    <2> DEFINE o == [op[t] EXCEPT !.support = support]
    <2>1. /\ o \in Op /\ o.support = support /\ o.owns_probe = op[t].owns_probe
          /\ o.again = op[t].again /\ o.purpose = op[t].purpose /\ o.result = op[t].result
          /\ o.location = op[t].location /\ o.size = op[t].size
      BY <1>1, <1>4 DEF Op
    <2>2. op' = [op EXCEPT ![t] = o]
      BY <1>4
    <2> HIDE DEF o
    <2>3. Locally(t, handle[t], l, o)
      BY <1>1, <1>2, <1>4, <2>1, <2>2 DEF Locally, Goto, TypeInv
    <2>4. handle'[t] = handle[t] /\ pc'[t] = l /\ op'[t] = o
      BY <1>1, <2>3, LocalEffect
    <2>5. (State(t))' = State(t) /\ (Coordinated(t)' <=> Coordinated(t))
      BY <1>1, <2>1, <2>4 DEF State, Coordinated, SharedKept
    <2>6. GuardInv(t)'
      BY <1>2, <1>4, <2>1, <2>4, <2>5 DEF GuardInv
    <2>7. BufferInv(t)' /\ AgainInv(t)' /\ RangeInv(t)' /\ ResultInv(t)'
      BY <1>1, <1>2, <1>4, <2>1, <2>4, <2>5 DEF ThreadInv, BufferInv, AgainInv, RangeInv,
             ResultInv, RangeLabels, GuardLabels, OpenLabels
    <2>8. ThreadInv(t)'
      BY <1>1, <2>4, <2>6, <2>7 DEF ThreadInv
    <2> QED  BY <1>1, <1>2, <2>1, <2>3, <2>8, LocalStepPreserves
  <1>5. op = [op EXCEPT ![t].support = op[t].support] /\ op[t].support \in Supports
    BY <1>1 DEF TypeInv, Op
  <1>6. CASE ~Coordinated(t) /\ Goto(t, "RangeRequest") /\ UNCHANGED op
    BY <1>2, <1>4, <1>5, <1>6
  <1>7. CASE /\ Coordinated(t)
             /\ State(t).support # "UNKNOWN"
             /\ op' = [op EXCEPT ![t].support = State(t).support]
             /\ Goto(t, "Guarded")
    <2>1. State(t).support \in Supports
      BY <1>3 DEF FileState
    <2> QED  BY <1>4, <1>7, <2>1
  <1>8. CASE Coordinated(t) /\ Goto(t, "AwaitProbe") /\ UNCHANGED op
    BY <1>2, <1>4, <1>5, <1>8 DEF GuardLabels
  <1> QED  BY <1>6, <1>7, <1>8 DEF BeginRequest

-----------------------------------------------------------------------------
(* The probe. *)

\* n differs from s in what it says of range requests only.
ProbeChanged(s, n) ==
    /\ n \in FileState
    /\ n.cached_data = s.cached_data /\ n.downloading = s.downloading
    /\ n.downloads = s.downloads /\ n.invalidated = s.invalidated

\* A probe that is resolved ends, and sets the support it found.
LEMMA ResolvedChange ==
  ASSUME NEW s \in FileState, NEW support \in Supports
  PROVE  /\ ProbeChanged(s, Resolved(s, support))
         /\ Resolved(s, support).support = support /\ ~Resolved(s, support).probing
  BY DEF Resolved, ProbeChanged, FileState

\* Such a change is no concern of the download's.
LEMMA ProbeChangeKeeps ==
  ASSUME NEW s \in FileState, NEW n, ProbeChanged(s, n), CacheInv(s),
         s.support # "UNKNOWN" => n.support # "UNKNOWN",
         s.support = "NOT_SUPPORTED" => n.support = "NOT_SUPPORTED"
  PROVE  CacheInv(n) /\ Advances(s, n)
  BY DEF ProbeChanged, CacheInv, Advances, FileState

\* A thread becomes the owner of the probe, or learns that the support is known.
LEMMA AwaitProbePreserves ==
  ASSUME ReadPathInv, NEW t \in Threads, AwaitProbe(t)
  PROVE  ReadPathInv' /\ Advancing
  <1> DEFINE s == State(t)
             unknown == s.support = "UNKNOWN"
             probing == s.probing \/ unknown
             n == [s EXCEPT !.support = s.support, !.probing = probing]
             o == [op[t] EXCEPT !.support = s.support, !.owns_probe = unknown]
  <1>1. /\ pc[t] = "AwaitProbe" /\ ThreadInv(t) /\ op[t] \in Op /\ handle[t] \in Handle
        /\ handle[t].state \in DOMAIN states /\ handle[t].state \in 0..Len(states)
        /\ SharedKept /\ UNCHANGED handle /\ TypeInv
        /\ states' = [states EXCEPT ![handle[t].state].probing = @ \/ s.support = "UNKNOWN"]
    BY SharedUnchanged DEF AwaitProbe, ReadPathInv, TypeInv, ThreadInv
  <1>2. s \in FileState /\ CacheInv(s) /\ s.support \in Supports /\ s.probing \in BOOLEAN
    BY <1>1, StatesDomain DEF ReadPathInv, StateInv, State, FileState
  <1>3. SetState(t, n)
    <2>1. states' = [states EXCEPT ![handle[t].state] = [s EXCEPT !.probing = probing]]
      BY <1>1 DEF State
    <2>2. [s EXCEPT !.probing = probing] = n
      BY <1>2 DEF FileState
    <2> QED  BY <2>1, <2>2 DEF SetState
  <1>4. ProbeChanged(s, n) /\ n.support = s.support /\ n.probing = probing
    <2>1. probing \in BOOLEAN
      OBVIOUS
    <2> HIDE DEF probing, s
    <2> QED  BY <1>2, <2>1 DEF ProbeChanged, FileState
  <1>5. CacheInv(n) /\ Advances(s, n)
    BY <1>2, <1>4, ProbeChangeKeeps
  <1>6. /\ o \in Op /\ o.support = s.support /\ o.owns_probe = unknown
        /\ o.again = op[t].again /\ o.purpose = op[t].purpose /\ o.result = op[t].result
        /\ o.location = op[t].location /\ o.size = op[t].size
    BY <1>1, <1>2 DEF Op
  <1>7. op' = [op EXCEPT ![t] = o] /\ Goto(t, "Guarded") /\ MayProbe(s)
    BY DEF AwaitProbe
  <1>8. /\ Coordinated(t) /\ ~op[t].owns_probe /\ op[t].result.outcome = "None"
        /\ pc[t] \notin FetchLabels /\ "Guarded" \notin FetchLabels
    BY <1>1 DEF ThreadInv, GuardInv, ResultInv, GuardLabels, FetchLabels
  <1> HIDE DEF n, o
  <1>9. Locally(t, handle[t], "Guarded", o)
    BY <1>1, <1>6, <1>7 DEF Locally, Goto, TypeInv, Labels, RangeLabels, GuardLabels
  <1>10. handle'[t] = handle[t] /\ pc'[t] = "Guarded" /\ op'[t] = o
    BY <1>1, <1>9, LocalEffect
  <1>11. states'[handle[t].state] = n /\ DOMAIN states' = DOMAIN states
    BY <1>1, <1>3 DEF SetState, TypeInv
  <1>12. (State(t))' = n /\ Coordinated(t)'
    BY <1>1, <1>6, <1>8, <1>10, <1>11 DEF State, Coordinated, SharedKept
  <1>13. ThreadInv(t)'
    <2>1. GuardInv(t)'
      BY <1>4, <1>6, <1>10, <1>12 DEF GuardInv, GuardLabels
    <2>2. BufferInv(t)' /\ RangeInv(t)' /\ ResultInv(t)'
      BY <1>1, <1>6, <1>8, <1>10 DEF ThreadInv, BufferInv, RangeInv, ResultInv, OpenLabels
    <2>3. AgainInv(t)'
      BY <1>1, <1>4, <1>6, <1>10, <1>12 DEF ThreadInv, AgainInv, RangeLabels, ProbeChanged
    <2>4. handle'[t].state \in 0..Len(states')
      BY <1>1, <1>3, <1>10 DEF SetState, TypeInv
    <2> QED  BY <1>1, <1>10, <1>11, <2>1, <2>2, <2>3, <2>4 DEF ThreadInv
  <1>14. /\ Probed(handle[t].state) <=> unknown /\ s.probing
         /\ unknown => ~s.probing
    BY <1>2, <1>7 DEF Probed, State, MayProbe
  <1>15. \/ /\ (n.support = "UNKNOWN" /\ n.probing) <=> Probed(handle[t].state)
            /\ o.owns_probe <=> op[t].owns_probe
         \/ /\ ~Probed(handle[t].state) /\ n.support = "UNKNOWN" /\ n.probing
            /\ o.owns_probe
    BY <1>4, <1>6, <1>8, <1>14
  <1> QED  BY <1>1, <1>3, <1>4, <1>5, <1>8, <1>9, <1>13, <1>15, StateStepPreserves DEF ProbeChanged

\* What a thread with a guard knows.
LEMMA GuardKnows ==
  ASSUME ReadPathInv, NEW t \in Threads, pc[t] \in GuardLabels
  PROVE  /\ handle[t].state \in DOMAIN states /\ handle[t].state \in 0..Len(states)
         /\ handle[t] \in Handle /\ op[t] \in Op /\ State(t) \in FileState /\ ThreadInv(t)
         /\ CacheInv(State(t)) /\ TypeInv /\ pc[t] # "Closed" /\ pc[t] \notin FetchLabels
         /\ op[t].result.outcome = "None"
         /\ op[t].owns_probe <=> op[t].support = "UNKNOWN"
         /\ op[t].owns_probe => State(t).support = "UNKNOWN" /\ State(t).probing
         /\ op[t].owns_probe => pc[t] = "Guarded" \/ setup.auto_fallback_to_full_download
         /\ ~op[t].owns_probe /\ Coordinated(t) => State(t).support # "UNKNOWN"
         /\ pc[t] = "Guarded" => Coordinated(t)
         /\ op[t].again => State(t).invalidated > 0 /\ op[t].purpose = "Read"
         /\ op[t].purpose = "Read" => op[t].location + op[t].size <= handle[t].length
  <1>1. /\ TypeInv /\ ThreadInv(t) /\ handle[t] \in Handle /\ op[t] \in Op
        /\ pc[t] # "Closed" /\ pc[t] # "Ready" /\ pc[t] \in RangeLabels /\ pc[t] \notin FetchLabels
    BY DEF ReadPathInv, TypeInv, GuardLabels, RangeLabels, FetchLabels
  <1>2. handle[t].state \in DOMAIN states /\ handle[t].state \in 0..Len(states)
    BY <1>1 DEF ThreadInv
  <1>3. State(t) \in FileState /\ StateInv(handle[t].state) /\ CacheInv(State(t))
    BY <1>1, <1>2, StatesDomain DEF ReadPathInv, StateInv, State
  <1>4. op[t].owns_probe => State(t).support = "UNKNOWN" /\ State(t).probing
    BY <1>3 DEF StateInv, ProbeInv, Owns, Probed, State
  <1> QED  BY <1>1, <1>2, <1>3, <1>4 DEF ThreadInv, GuardInv, AgainInv, RangeInv, ResultInv

\* A guard is given up with the state left as n: whoever owned the probe has ended it.
LEMMA GuardEnds ==
  ASSUME ReadPathInv, NEW t \in Threads, pc[t] \in GuardLabels,
         NEW h, NEW l, NEW o, Locally(t, h, l, o), SharedKept,
         ~o.owns_probe, l \notin FetchLabels,
         NEW n, SetState(t, n), ProbeChanged(State(t), n), Advances(State(t), n),
         op[t].owns_probe => ~(n.support = "UNKNOWN" /\ n.probing),
         ~op[t].owns_probe =>
             ((n.support = "UNKNOWN" /\ n.probing) <=>
                 (State(t).support = "UNKNOWN" /\ State(t).probing)),
         ThreadInv(t)'
  PROVE  ReadPathInv' /\ Advancing
  <1>1. /\ pc[t] # "Closed" /\ pc[t] \notin FetchLabels /\ CacheInv(State(t)) /\ State(t) \in FileState
    BY GuardKnows
  <1>2. n \in FileState /\ CacheInv(n) /\ n.downloading = State(t).downloading
    BY <1>1 DEF ProbeChanged, CacheInv
  <1>3. Probed(handle[t].state) <=> State(t).support = "UNKNOWN" /\ State(t).probing
    BY DEF Probed, State
  <1> QED  BY <1>1, <1>2, <1>3, StateStepPreserves

\* The effect of writing to the state of t.
LEMMA SetStateEffect ==
  ASSUME ReadPathInv, NEW t \in Threads, pc[t] # "Closed", NEW n \in FileState, SetState(t, n)
  PROVE  /\ states' \in Seq(FileState) /\ DOMAIN states' = DOMAIN states
         /\ Len(states') = Len(states) /\ states'[handle[t].state] = n
  <1> DEFINE k == handle[t].state
  <1>1. /\ states \in Seq(FileState) /\ k \in 1..Len(states)
        /\ states' = [states EXCEPT ![k] = n]
    BY DEF ReadPathInv, TypeInv, ThreadInv, SetState
  <1> HIDE DEF k
  <1>2. /\ states' \in Seq(FileState) /\ Len(states') = Len(states)
        /\ \A j \in 1..Len(states) : states'[j] = IF j = k THEN n ELSE states[j]
    BY <1>1, ExceptSeq
  <1>3. states'[k] = n /\ DOMAIN states' = DOMAIN states
    BY <1>1, <1>2
  <1> QED  BY <1>2, <1>3 DEF k

\* MarkSupported: the owner ends its probe with success, any other guard does nothing.
LEMMA MarkedChange ==
  ASSUME ReadPathInv, NEW t \in Threads, pc[t] \in GuardLabels
  PROVE  LET n == Marked(State(t), op[t])
         IN  /\ n \in FileState /\ ProbeChanged(State(t), n) /\ Advances(State(t), n)
             /\ op[t].owns_probe => n.support # "UNKNOWN"
             /\ ~op[t].owns_probe => n = State(t)
             /\ Coordinated(t) => n.support # "UNKNOWN"
             /\ n.invalidated = State(t).invalidated
  <1> DEFINE s == State(t)
             n == Marked(s, op[t])
  <1>1. /\ s \in FileState /\ CacheInv(s)
        /\ op[t].owns_probe <=> op[t].support = "UNKNOWN"
        /\ op[t].owns_probe => s.support = "UNKNOWN"
        /\ ~op[t].owns_probe /\ Coordinated(t) => s.support # "UNKNOWN"
    BY GuardKnows
  <1> HIDE DEF s
  <1>2. CASE op[t].owns_probe
    <2>1. n = Resolved(s, "SUPPORTED")
      BY <1>1, <1>2 DEF Marked
    <2>2. ProbeChanged(s, n) /\ n.support = "SUPPORTED"
      BY <1>1, <2>1, ResolvedChange DEF Supports
    <2> HIDE DEF n
    <2>3. Advances(s, n)
      BY <1>1, <1>2, <2>2, ProbeChangeKeeps
    <2> QED  BY <1>2, <2>2, <2>3 DEF ProbeChanged, s, n
  <1>3. CASE ~op[t].owns_probe
    <2>1. n = s
      BY <1>1, <1>3 DEF Marked
    <2>2. ProbeChanged(s, s)
      BY <1>1 DEF ProbeChanged
    <2>3. Advances(s, s)
      BY <1>1, <2>2, ProbeChangeKeeps
    <2> QED  BY <1>1, <1>3, <2>1, <2>2, <2>3 DEF s
  <1> QED  BY <1>2, <1>3

\* A request falls back to a full download.
LEMMA FallBackEffect ==
  ASSUME ReadPathInv, NEW t \in Threads, pc[t] \in GuardLabels, FallBack(t),
         states' \in Seq(FileState), DOMAIN states' = DOMAIN states,
         states'[handle[t].state].invalidated = State(t).invalidated
  PROVE  /\ \E g, l, o : /\ Locally(t, g, l, o) /\ ~o.owns_probe
                         /\ l \notin GuardLabels \cup FetchLabels
         /\ ThreadInv(t)'
  <1> DEFINE o == Guardless(op[t])
  <1>1. /\ handle[t].state \in DOMAIN states /\ handle[t] \in Handle /\ op[t] \in Op
        /\ TypeInv /\ op[t].result.outcome = "None" /\ pc[t] # "Closed"
        /\ op[t].again => State(t).invalidated > 0 /\ op[t].purpose = "Read"
        /\ op[t].purpose = "Read" => op[t].location + op[t].size <= handle[t].length
    BY GuardKnows
  <1>2. /\ o \in Op /\ o.support = "SUPPORTED" /\ ~o.owns_probe
        /\ o.again = op[t].again /\ o.purpose = op[t].purpose /\ o.result = op[t].result
        /\ o.location = op[t].location /\ o.size = op[t].size
    BY <1>1 DEF Guardless, Op, Supports
  <1>3. DOMAIN states' = 1..Len(states') /\ Len(states') \in Nat
    OBVIOUS
  <1> HIDE DEF o
  <1>4. CASE /\ op[t].purpose = "Info"
             /\ handle' = [handle EXCEPT ![t].length = 0, ![t].force_full_download = TRUE]
             /\ op' = [op EXCEPT ![t] = Guardless(@)]
             /\ Goto(t, "InitializeFileInfo")
    <2> DEFINE g == [handle[t] EXCEPT !.length = 0, !.force_full_download = TRUE]
    <2>1. g \in Handle /\ g.state = handle[t].state
      BY <1>1 DEF Handle
    <2>2. Locally(t, g, "InitializeFileInfo", o)
      BY <1>2, <1>4, <2>1 DEF Locally, Goto, Labels, OpenLabels, o
    <2> HIDE DEF g
    <2>3. handle'[t] = g /\ pc'[t] = "InitializeFileInfo" /\ op'[t] = o
      BY <1>1, <2>2, LocalEffect
    <2>4. Calm(o)
      BY <1>1, <1>2, <1>4 DEF Calm
    <2>5. ThreadInv(t)'
      BY <1>1, <1>3, <2>1, <2>3, <2>4, CalmThread DEF GuardLabels
    <2> QED  BY <1>2, <2>1, <2>2, <2>5 DEF GuardLabels, FetchLabels
  <1>5. CASE /\ op[t].purpose = "Read" /\ ~op[t].again
             /\ op' = [op EXCEPT ![t] = Guardless(@)]
             /\ Goto(t, "FullDownload")
             /\ UNCHANGED handle
    <2>1. Locally(t, handle[t], "FullDownload", o)
      BY <1>1, <1>2, <1>5 DEF Locally, Goto, Labels, TypeInv, o
    <2>2. handle'[t] = handle[t] /\ pc'[t] = "FullDownload" /\ op'[t] = o
      BY <1>1, <2>1, LocalEffect
    <2>3. AgainInv(t)' /\ "FullDownload" \notin GuardLabels \cup OpenLabels \cup {"AwaitProbe", "Finalize"}
      BY <1>2, <1>5, <2>2 DEF AgainInv, GuardLabels, OpenLabels
    <2>4. ThreadInv(t)'
      BY <1>1, <1>2, <1>3, <1>5, <2>2, <2>3, ReadingThread
    <2> QED  BY <1>2, <2>1, <2>4 DEF GuardLabels, FetchLabels
  <1>6. CASE op[t].again /\ Throw(t, "FailedAfterDownload")
    <2>1. /\ \E g, l, q : /\ Locally(t, g, l, q) /\ ~q.owns_probe
                          /\ l \notin GuardLabels \cup FetchLabels
                          /\ l \in {"Closed", "Ready"}
          /\ ThreadInv(t)'
      BY <1>1, <1>6, ThrowEffect DEF Errors
    <2> QED  BY <2>1
  <1> QED  BY <1>4, <1>5, <1>6 DEF FallBack

\* MarkRangeRequestsSupported ends, a request is not sent, or is about to be.
LEMMA GuardedPreserves ==
  ASSUME ReadPathInv, NEW t \in Threads, Guarded(t)
  PROVE  ReadPathInv' /\ Advancing
  <1>1. pc[t] = "Guarded" /\ pc[t] \in GuardLabels /\ SharedKept
    BY SharedUnchanged DEF Guarded, GuardLabels
  <1>2. /\ handle[t].state \in DOMAIN states /\ handle[t].state \in 0..Len(states)
        /\ handle[t] \in Handle /\ op[t] \in Op /\ ThreadInv(t) /\ TypeInv /\ Coordinated(t)
        /\ op[t].result.outcome = "None" /\ pc[t] # "Closed" /\ pc[t] \notin FetchLabels
        /\ op[t].owns_probe <=> op[t].support = "UNKNOWN"
    BY <1>1, GuardKnows
  <1>3. CASE /\ op[t].purpose = "Mark"
             /\ SetState(t, Marked(State(t), op[t]))
             /\ op' = [op EXCEPT ![t] = Guardless(@)]
             /\ Goto(t, "InitializeFileInfo")
             /\ UNCHANGED handle
    <2> DEFINE n == Marked(State(t), op[t])
               o == Guardless(op[t])
    <2>1. /\ n \in FileState /\ ProbeChanged(State(t), n) /\ Advances(State(t), n)
          /\ op[t].owns_probe => n.support # "UNKNOWN"
          /\ ~op[t].owns_probe => n = State(t)
      BY <1>1, MarkedChange
    <2>2. /\ o \in Op /\ o.support = "SUPPORTED" /\ ~o.owns_probe
          /\ o.again = op[t].again /\ o.purpose = op[t].purpose /\ o.result = op[t].result
      BY <1>2 DEF Guardless, Op, Supports
    <2>3. SetState(t, n)
      BY <1>3
    <2> HIDE DEF n
    <2>4. Locally(t, handle[t], "InitializeFileInfo", o)
      BY <1>2, <1>3, <2>2 DEF Locally, Goto, TypeInv, Labels, OpenLabels
    <2> HIDE DEF o
    <2>5. handle'[t] = handle[t] /\ pc'[t] = "InitializeFileInfo" /\ op'[t] = o
      BY <1>2, <2>4, LocalEffect
    <2>6. DOMAIN states' = DOMAIN states /\ Len(states') = Len(states)
      BY <1>2, <2>1, <2>3, SetStateEffect
    <2>7. Calm(o)
      BY <1>2, <1>3, <2>2 DEF Calm, ThreadInv, RangeInv
    <2>8. ThreadInv(t)'
      BY <1>2, <2>5, <2>6, <2>7, CalmThread DEF GuardLabels
    <2>9. "InitializeFileInfo" \notin FetchLabels
      BY DEF FetchLabels
    <2> QED  BY <1>1, <2>1, <2>2, <2>3, <2>4, <2>8, <2>9, GuardEnds
  <1>4. CASE /\ op[t].support = "NOT_SUPPORTED"
             /\ FallBack(t)
             /\ UNCHANGED states
    <2>2. /\ \E g, l, o : /\ Locally(t, g, l, o) /\ ~o.owns_probe
                          /\ l \notin GuardLabels \cup FetchLabels
          /\ ThreadInv(t)'
      <3>1. /\ states' \in Seq(FileState) /\ DOMAIN states' = DOMAIN states
            /\ states'[handle[t].state].invalidated = State(t).invalidated
        BY <1>2, <1>4 DEF TypeInv, State
      <3> QED  BY <1>1, <1>4, <3>1, FallBackEffect
    <2>3. ~op[t].owns_probe
      BY <1>2, <1>4
    <2>4. PICK g, l, o : /\ Locally(t, g, l, o) /\ ~o.owns_probe
                         /\ l \notin GuardLabels \cup FetchLabels
      BY <2>2
    <2>5. ThreadInv(t)' /\ l \notin FetchLabels
      BY <2>2, <2>4
    <2> QED  BY <1>1, <1>2, <1>4, <2>3, <2>4, <2>5, LocalStepPreserves
  <1>5. CASE /\ op[t].purpose # "Mark" /\ Goto(t, "RangeRequest") /\ UNCHANGED <<states, op, handle>>
    <2>1. Locally(t, handle[t], "RangeRequest", op[t])
      BY <1>2, <1>5 DEF Locally, Goto, TypeInv, Labels, RangeLabels, GuardLabels
    <2>2. handle'[t] = handle[t] /\ pc'[t] = "RangeRequest" /\ op'[t] = op[t]
      BY <1>2, <2>1, LocalEffect
    <2>3. (State(t))' = State(t) /\ (Coordinated(t)' <=> Coordinated(t)) /\ setup' = setup
      BY <1>1, <1>5, <2>2 DEF State, Coordinated, SharedKept
    <2>4. ThreadInv(t)'
      BY <1>1, <1>2, <1>5, <2>2, <2>3 DEF ThreadInv, GuardInv, BufferInv, AgainInv, RangeInv,
             ResultInv, GuardLabels, RangeLabels, OpenLabels, Coordinated
    <2>5. "RangeRequest" \notin FetchLabels
      BY DEF FetchLabels
    <2> QED  BY <1>1, <1>2, <1>5, <2>1, <2>4, <2>5, LocalStepPreserves
  <1> QED  BY <1>3, <1>4, <1>5 DEF Guarded

-----------------------------------------------------------------------------
(* Range requests. *)

\* A response that ignores the range.
LEMMA RangeIgnoredPreserves ==
  ASSUME ReadPathInv, NEW t \in Threads, RangeIgnored(t), pc[t] = "RangeRequest",
         UNCHANGED <<setup, version, file_states, calls>>
  PROVE  ReadPathInv' /\ Advancing
  <1>1. pc[t] \in GuardLabels /\ SharedKept
    BY SharedUnchanged DEF RangeIgnored, GuardLabels
  <1>2. /\ handle[t].state \in DOMAIN states /\ handle[t].state \in 0..Len(states)
        /\ handle[t] \in Handle /\ op[t] \in Op /\ TypeInv /\ State(t) \in FileState
        /\ pc[t] # "Closed" /\ pc[t] \notin FetchLabels /\ CacheInv(State(t))
        /\ op[t].result.outcome = "None"
        /\ op[t].owns_probe => setup.auto_fallback_to_full_download
        /\ ~op[t].owns_probe /\ Coordinated(t) => State(t).support # "UNKNOWN"
    BY <1>1, GuardKnows
  <1>3. \/ setup.auto_fallback_to_full_download /\ SetState(t, Resolved(State(t), "NOT_SUPPORTED"))
        \/ ~setup.auto_fallback_to_full_download /\ UNCHANGED states
    BY DEF RangeIgnored
  <1>4. \/ op[t].purpose = "Info" /\ ApplyFileInfo(t, Lengths[version])
        \/ op[t].purpose = "Read" /\ FallBack(t)
        \/ Throw(t, "RangeNotSupported")
    BY DEF RangeIgnored
  <1>5. ASSUME states' \in Seq(FileState), DOMAIN states' = DOMAIN states,
               states'[handle[t].state].invalidated = State(t).invalidated
        PROVE  /\ \E h, l, o : /\ Locally(t, h, l, o) /\ ~o.owns_probe
                               /\ l \notin GuardLabels \cup FetchLabels
               /\ ThreadInv(t)'
    <2>1. CASE op[t].purpose = "Info" /\ ApplyFileInfo(t, Lengths[version])
      <3>1. Lengths[version] \in Nat
        BY <1>2, LengthsType DEF TypeInv
      <3> QED  BY <1>2, <1>5, <2>1, <3>1, ApplyFileInfoEffect
    <2>2. CASE FallBack(t)
      BY <1>1, <1>5, <2>2, FallBackEffect
    <2>3. CASE Throw(t, "RangeNotSupported")
      BY <1>2, <1>5, <2>3, ThrowEffect DEF Errors
    <2> QED  BY <1>4, <2>1, <2>2, <2>3
  <1>6. CASE /\ setup.auto_fallback_to_full_download
             /\ SetState(t, Resolved(State(t), "NOT_SUPPORTED"))
    <2> DEFINE n == Resolved(State(t), "NOT_SUPPORTED")
    <2>1. SetState(t, n)
      BY <1>6
    <2>2. ProbeChanged(State(t), n) /\ n.support = "NOT_SUPPORTED"
      BY <1>2, ResolvedChange DEF Supports
    <2> HIDE DEF n
    <2>3. n \in FileState /\ Advances(State(t), n) /\ n.invalidated = State(t).invalidated
      BY <1>2, <2>2, ProbeChangeKeeps DEF ProbeChanged
    <2>4. /\ states' \in Seq(FileState) /\ DOMAIN states' = DOMAIN states
          /\ states'[handle[t].state] = n
      BY <1>2, <2>1, <2>3, SetStateEffect
    <2>5. states'[handle[t].state].invalidated = State(t).invalidated
      BY <2>3, <2>4
    <2>6. PICK g, l, o : /\ Locally(t, g, l, o) /\ ~o.owns_probe
                         /\ l \notin GuardLabels \cup FetchLabels
      BY <1>5, <2>4, <2>5
    <2>7. ThreadInv(t)' /\ l \notin FetchLabels
      BY <1>5, <2>4, <2>5, <2>6
    <2>8. ~op[t].owns_probe => State(t).support # "UNKNOWN"
      BY <1>2, <1>6 DEF Coordinated
    <2> QED  BY <1>1, <2>1, <2>2, <2>3, <2>6, <2>7, <2>8, GuardEnds
  <1>7. CASE ~setup.auto_fallback_to_full_download /\ UNCHANGED states
    <2>1. /\ states' \in Seq(FileState) /\ DOMAIN states' = DOMAIN states
          /\ states'[handle[t].state].invalidated = State(t).invalidated
      BY <1>2, <1>7 DEF TypeInv, State
    <2>2. ThreadInv(t)'
      BY <1>5, <2>1
    <2>3. PICK h, l, o : /\ Locally(t, h, l, o) /\ ~o.owns_probe
                         /\ l \notin GuardLabels \cup FetchLabels
      BY <1>5, <2>1
    <2>4. ~op[t].owns_probe
      BY <1>2, <1>7
    <2> QED  BY <1>1, <1>2, <1>7, <2>2, <2>3, <2>4, LocalStepPreserves
  <1> QED  BY <1>3, <1>6, <1>7

\* What the server sends begins where it was asked to, or is the whole file.
LEMMA AnswerType ==
  ASSUME TypeInv, NEW t \in Threads, NEW a \in Answer(t)
  PROVE  a.from = op[t].location \/ (a.from = 0 /\ a.size = Lengths[version])
  BY DEF Answer

\* The response is taken, or the request is repeated after support was marked.
LEMMA AcceptedPreserves ==
  ASSUME ReadPathInv, NEW t \in Threads, Accepted(t), pc[t] = "RangeRequest",
         UNCHANGED <<setup, version, file_states, calls>>
  PROVE  ReadPathInv' /\ Advancing
  <1> DEFINE n == Marked(State(t), op[t])
  <1>1. pc[t] \in GuardLabels /\ SharedKept
    BY SharedUnchanged DEF Accepted, GuardLabels
  <1>2. /\ handle[t].state \in DOMAIN states /\ handle[t].state \in 0..Len(states)
        /\ handle[t] \in Handle /\ op[t] \in Op /\ TypeInv /\ State(t) \in FileState
        /\ ThreadInv(t) /\ pc[t] # "Closed" /\ op[t].result.outcome = "None"
        /\ op[t].again => State(t).invalidated > 0 /\ op[t].purpose = "Read"
        /\ op[t].purpose = "Read" => op[t].location + op[t].size <= handle[t].length
        /\ version \in Versions
    BY <1>1, GuardKnows DEF TypeInv
  <1>3. /\ n \in FileState /\ ProbeChanged(State(t), n) /\ Advances(State(t), n)
        /\ op[t].owns_probe => n.support # "UNKNOWN"
        /\ ~op[t].owns_probe => n = State(t)
        /\ Coordinated(t) => n.support # "UNKNOWN"
        /\ n.invalidated = State(t).invalidated
    BY <1>1, MarkedChange
  <1>4. SetState(t, n)
    BY DEF Accepted
  <1> HIDE DEF n
  <1>5. /\ states' \in Seq(FileState) /\ DOMAIN states' = DOMAIN states
        /\ Len(states') = Len(states) /\ states'[handle[t].state] = n
    BY <1>2, <1>3, <1>4, SetStateEffect
  <1>6. PICK a \in Answer(t) :
          /\ Matches(handle[t])
          /\ a.size = op[t].size \/ (op[t].purpose = "Info" /\ ~a.announced)
          /\ \/ /\ op[t].purpose = "Read"
                /\ Returned(t, "Range", version, a.from, None)
                /\ UNCHANGED handle
             \/ /\ op[t].purpose = "Info"
                /\ ApplyFileInfo(t, IF a.announced THEN Lengths[version] ELSE 0)
             \/ /\ op' = [op EXCEPT ![t].attempts = @ + 1, ![t].support = "SUPPORTED",
                                    ![t].owns_probe = FALSE]
                /\ UNCHANGED <<pc, handle>>
    BY DEF Accepted
  <1>7. \A l \in {"Ready", "RangeRequest"} : l \in Labels /\ l \notin FetchLabels
    BY DEF Labels, OpenLabels, RangeLabels, GuardLabels, FetchLabels
  <1>8. CASE /\ op[t].purpose = "Read" /\ Returned(t, "Range", version, a.from, None)
             /\ UNCHANGED handle
    <2>1. handle[t].etag # None => version = handle[t].etag
      BY <1>6 DEF Matches
    <2>2. a.from \in Nat
      BY <1>2, AnswerType DEF Op
    <2>3. ASSUME handle[t].length <= Lengths[version] PROVE a.from = op[t].location
      <3>1. a.size = op[t].size
        BY <1>6, <1>8
      <3>2. /\ op[t].location \in Nat /\ op[t].size \in Nat /\ handle[t].length \in Nat
            /\ Lengths[version] \in Nat
        BY <1>2, LengthsType DEF Op, Handle
      <3> QED  BY <1>2, <1>8, <2>3, <3>1, <3>2, AnswerType
    <2>4. /\ \E o : Locally(t, handle[t], "Ready", o) /\ ~o.owns_probe
          /\ ThreadInv(t)'
      BY <1>2, <1>5, <1>8, <2>1, <2>2, <2>3, ReturnedEffect DEF ETags
    <2> QED  BY <1>1, <1>3, <1>4, <1>7, <2>4, GuardEnds
  <1>9. CASE /\ op[t].purpose = "Info"
             /\ ApplyFileInfo(t, IF a.announced THEN Lengths[version] ELSE 0)
    <2> DEFINE length == IF a.announced THEN Lengths[version] ELSE 0
    <2>1. length \in Nat
      BY <1>2, LengthsType
    <2>2. ApplyFileInfo(t, length)
      BY <1>9
    <2> HIDE DEF length
    <2>3. /\ \E h, l, o : /\ Locally(t, h, l, o) /\ ~o.owns_probe
                          /\ l \notin GuardLabels \cup FetchLabels
          /\ ThreadInv(t)'
      BY <1>2, <1>5, <1>9, <2>1, <2>2, ApplyFileInfoEffect
    <2> QED  BY <1>1, <1>3, <1>4, <2>3, GuardEnds
  <1>10. CASE /\ op' = [op EXCEPT ![t].attempts = @ + 1, ![t].support = "SUPPORTED",
                                  ![t].owns_probe = FALSE]
              /\ UNCHANGED <<pc, handle>>
    <2> DEFINE k == op[t].attempts + 1
               o == [op[t] EXCEPT !.attempts = k, !.support = "SUPPORTED", !.owns_probe = FALSE]
    <2>1. op' = [op EXCEPT ![t] = o] /\ k \in Nat
      <3>1. op[t].attempts \in Nat
        BY <1>2 DEF Op
      <3>2. op' = [op EXCEPT ![t] = o]
        BY <1>10
      <3> QED  BY <3>1, <3>2
    <2> HIDE DEF k
    <2>2. /\ o \in Op /\ o.support = "SUPPORTED" /\ ~o.owns_probe
          /\ o.again = op[t].again /\ o.purpose = op[t].purpose /\ o.result = op[t].result
          /\ o.location = op[t].location /\ o.size = op[t].size
      BY <1>2, <2>1 DEF Op, Supports
    <2> HIDE DEF o
    <2>3. Locally(t, handle[t], "RangeRequest", o)
      BY <1>2, <1>7, <1>10, <2>1, <2>2 DEF Locally, TypeInv
    <2>4. handle'[t] = handle[t] /\ pc'[t] = "RangeRequest" /\ op'[t] = o
      BY <1>2, <2>3, LocalEffect
    <2>5. (State(t))' = n /\ (Coordinated(t)' <=> Coordinated(t)) /\ setup' = setup
      BY <1>5, <2>2, <2>4 DEF State, Coordinated
    <2>6. GuardInv(t)' /\ AgainInv(t)'
      BY <1>2, <1>3, <2>2, <2>4, <2>5 DEF GuardInv, AgainInv
    <2>7. BufferInv(t)' /\ RangeInv(t)' /\ ResultInv(t)'
      BY <1>2, <2>2, <2>4 DEF BufferInv, RangeInv, ResultInv, OpenLabels
    <2>8. ThreadInv(t)'
      BY <1>2, <1>5, <2>4, <2>6, <2>7 DEF ThreadInv
    <2> QED  BY <1>1, <1>3, <1>4, <1>7, <2>2, <2>3, <2>8, GuardEnds
  <1> QED  BY <1>6, <1>8, <1>9, <1>10

\* A metadata entry is kept or erased.
LEMMA ErasedKeepsShared ==
  ASSUME ReadPathInv, UNCHANGED <<setup, version, file_states>>,
         metadata' \in {metadata, ErasedGlobally}
  PROVE  SharedKept
  BY DEF ReadPathInv, TypeInv, SharedKept, ErasedGlobally

\* The owner of the probe gives it up.
LEMMA RangeFailsPreserves ==
  ASSUME ReadPathInv, NEW t \in Threads, RangeFails(t), pc[t] = "RangeRequest",
         UNCHANGED <<setup, version, file_states, calls>>
  PROVE  ReadPathInv' /\ Advancing
  <1> DEFINE s == State(t)
             n == Destroyed(s, op[t])
  <1>1. pc[t] \in GuardLabels /\ SharedKept
    BY ErasedKeepsShared DEF RangeFails, GuardLabels
  <1>2. /\ TypeInv /\ s \in FileState /\ CacheInv(s) /\ pc[t] # "Closed"
        /\ op[t].owns_probe => s.support = "UNKNOWN"
    BY <1>1, GuardKnows
  <1>3. SetState(t, n) /\ Throw(t, "Error")
    BY DEF RangeFails
  <1> HIDE DEF s
  <1>4. /\ ProbeChanged(s, n) /\ n.support = s.support
        /\ IF op[t].owns_probe THEN ~n.probing ELSE n.probing = s.probing
    BY <1>2 DEF Destroyed, ProbeAborted, ProbeChanged, FileState
  <1> HIDE DEF n
  <1>5. n \in FileState /\ Advances(s, n)
    BY <1>2, <1>4, ProbeChangeKeeps DEF ProbeChanged
  <1>6. states' \in Seq(FileState) /\ DOMAIN states' = DOMAIN states
    BY <1>2, <1>3, <1>5, SetStateEffect
  <1>7. /\ \E h, l, o : /\ Locally(t, h, l, o) /\ ~o.owns_probe
                        /\ l \notin GuardLabels \cup FetchLabels
                        /\ l \in {"Closed", "Ready"}
        /\ ThreadInv(t)'
    BY <1>2, <1>3, <1>6, ThrowEffect DEF Errors
  <1>8. PICK h, l, o : /\ Locally(t, h, l, o) /\ ~o.owns_probe
                       /\ l \notin GuardLabels \cup FetchLabels
                       /\ l \in {"Closed", "Ready"}
    BY <1>7
  <1>9. ThreadInv(t)' /\ l \notin FetchLabels
    BY <1>7, <1>8
  <1> QED  BY <1>1, <1>3, <1>4, <1>5, <1>8, <1>9, GuardEnds DEF s

\* A range request: ignored, accepted or failed.
LEMMA RangeRequestPreserves ==
  ASSUME ReadPathInv, NEW t \in Threads, RangeRequest(t)
  PROVE  ReadPathInv' /\ Advancing
  BY RangeIgnoredPreserves, AcceptedPreserves, RangeFailsPreserves DEF RangeRequest

-----------------------------------------------------------------------------
(* The full download. *)

DownloadLabels == FetchLabels \cup {"FullDownload", "StartDownload", "InvalidateCachedFile",
                                    "EraseFileState"}

\* What a thread at the download knows.
LEMMA DownloadKnows ==
  ASSUME ReadPathInv, NEW t \in Threads, pc[t] \in DownloadLabels
  PROVE  /\ handle[t].state \in DOMAIN states /\ handle[t].state \in 0..Len(states)
         /\ handle[t] \in Handle /\ op[t] \in Op /\ State(t) \in FileState /\ ThreadInv(t)
         /\ CacheInv(State(t)) /\ TypeInv /\ pc[t] # "Closed" /\ pc[t] \in Labels
         /\ pc[t] \notin RangeLabels \cup OpenLabels \cup {"Closed", "Ready", "ReadAt"}
         /\ op[t].result.outcome = "None" /\ ~op[t].owns_probe /\ op[t].support # "UNKNOWN"
         /\ op[t].purpose = "Read" => op[t].location + op[t].size <= handle[t].length
         /\ pc[t] \in FetchLabels => State(t).downloading
  <1>1. /\ TypeInv /\ ThreadInv(t) /\ handle[t] \in Handle /\ op[t] \in Op /\ pc[t] \in Labels
        /\ pc[t] \notin RangeLabels \cup OpenLabels \cup {"Closed", "Ready", "ReadAt"}
    BY DEF ReadPathInv, TypeInv, DownloadLabels, FetchLabels, RangeLabels, GuardLabels,
           OpenLabels, Labels
  <1>2. handle[t].state \in DOMAIN states /\ handle[t].state \in 0..Len(states)
    BY <1>1 DEF ThreadInv
  <1>3. State(t) \in FileState /\ StateInv(handle[t].state) /\ CacheInv(State(t))
    BY <1>1, <1>2, StatesDomain DEF ReadPathInv, StateInv, State
  <1>4. pc[t] \in FetchLabels => State(t).downloading
    BY <1>3 DEF StateInv, DownloadInv, Fetches, State
  <1> QED  BY <1>1, <1>2, <1>3, <1>4 DEF ThreadInv, GuardInv, RangeInv, ResultInv, RangeLabels

\* A thread that goes on with the download.
LEMMA DownloadingThread ==
  ASSUME ReadPathInv, NEW t \in Threads, pc[t] \in DownloadLabels, pc'[t] \in DownloadLabels,
         handle'[t] = handle[t], DOMAIN states' = DOMAIN states, Len(states') = Len(states),
         op'[t].support = op[t].support, ~op'[t].owns_probe,
         op'[t].again = op[t].again, op'[t].purpose = op[t].purpose,
         op'[t].result = op[t].result, op'[t].location = op[t].location,
         op'[t].size = op[t].size, BufferInv(t)'
  PROVE  ThreadInv(t)'
  <1>1. /\ handle[t].state \in DOMAIN states /\ handle[t].state \in 0..Len(states)
        /\ ThreadInv(t) /\ op[t].result.outcome = "None" /\ ~op[t].owns_probe /\ op[t].support # "UNKNOWN"
    BY DownloadKnows
  <1>2. pc'[t] \notin RangeLabels \cup OpenLabels \cup {"Closed", "Ready", "ReadAt"}
    BY DEF DownloadLabels, FetchLabels, RangeLabels, GuardLabels, OpenLabels
  <1>3. GuardInv(t)'
    BY <1>1, <1>2 DEF GuardInv, RangeLabels, GuardLabels
  <1>4. AgainInv(t)' /\ RangeInv(t)' /\ ResultInv(t)'
    BY <1>1, <1>2 DEF ThreadInv, AgainInv, RangeInv, ResultInv
  <1> QED  BY <1>1, <1>3, <1>4 DEF ThreadInv

\* FullDownload returns while the download is there.
LEMMA DownloadedEffect ==
  ASSUME ReadPathInv, NEW t \in Threads, pc[t] \in DownloadLabels, NEW size \in Nat,
         Downloaded(t, size), states' \in Seq(FileState), DOMAIN states' = DOMAIN states,
         states'[handle[t].state].cached_data # None
  PROVE  /\ \E h, l, o : /\ Locally(t, h, l, o) /\ ~o.owns_probe
                         /\ h.state = handle[t].state
                         /\ l \notin GuardLabels \cup FetchLabels
         /\ ThreadInv(t)'
  <1>1. /\ handle[t].state \in DOMAIN states /\ handle[t] \in Handle /\ op[t] \in Op /\ TypeInv
        /\ op[t].result.outcome = "None" /\ ~op[t].owns_probe /\ op[t].support # "UNKNOWN"
        /\ op[t].purpose = "Read" => op[t].location + op[t].size <= handle[t].length
    BY DownloadKnows
  <1>2. DOMAIN states' = 1..Len(states') /\ Len(states') \in Nat /\ Len(states') = Len(states)
    BY <1>1 DEF TypeInv
  <1>3. \A l \in {"Ready", "ReadAt", "InvalidateCachedFile"} :
           /\ l \in Labels /\ l \notin GuardLabels \cup FetchLabels
           /\ l \notin {"AwaitProbe", "Finalize", "Closed"} \cup OpenLabels
    BY DEF Labels, GuardLabels, FetchLabels, OpenLabels
  <1>4. Empty \in Buffer
    BY DEF Empty, Buffer
  <1>5. CASE /\ handle' = [handle EXCEPT ![t].length = size]
             /\ op' = [op EXCEPT ![t] = NoOp]
             /\ Goto(t, "Ready")
    <2> DEFINE h == [handle[t] EXCEPT !.length = size]
    <2>1. h \in Handle /\ h.state = handle[t].state
      BY <1>1 DEF Handle
    <2>2. Locally(t, h, "Ready", NoOp)
      BY <1>3, <1>5, <2>1, Initial DEF Locally, Goto
    <2> HIDE DEF h
    <2>3. handle'[t] = h /\ pc'[t] = "Ready" /\ op'[t] = NoOp
      BY <1>1, <2>2, LocalEffect
    <2>4. ThreadInv(t)'
      BY <1>1, <1>2, <1>3, <2>1, <2>3, Initial, CalmThread
    <2> QED  BY <1>3, <2>1, <2>2, <2>4, Initial
  <1>6. CASE /\ op[t].purpose = "Read"
             /\ op' = [op EXCEPT ![t].buffer = Empty]
             /\ Goto(t, "InvalidateCachedFile")
             /\ UNCHANGED handle
    <2> DEFINE o == [op[t] EXCEPT !.buffer = Empty]
    <2>1. /\ o \in Op /\ o.support = op[t].support /\ ~o.owns_probe
          /\ o.again = op[t].again /\ o.purpose = op[t].purpose /\ o.result = op[t].result
          /\ o.location = op[t].location /\ o.size = op[t].size
      BY <1>1, <1>4 DEF Op
    <2>2. Locally(t, handle[t], "InvalidateCachedFile", o)
      BY <1>1, <1>3, <1>6, <2>1 DEF Locally, Goto, TypeInv
    <2> HIDE DEF o
    <2>3. handle'[t] = handle[t] /\ pc'[t] = "InvalidateCachedFile" /\ op'[t] = o
      BY <1>1, <2>2, LocalEffect
    <2>4. BufferInv(t)' /\ pc'[t] \in DownloadLabels
      BY <2>3 DEF BufferInv, DownloadLabels
    <2>5. ThreadInv(t)'
      BY <1>2, <2>1, <2>3, <2>4, DownloadingThread
    <2> QED  BY <1>1, <1>3, <2>1, <2>2, <2>5
  <1>7. CASE /\ op[t].purpose = "Read"
             /\ op' = [op EXCEPT ![t].again = TRUE, ![t].buffer = Empty, ![t].attempts = 0]
             /\ Goto(t, "ReadAt")
             /\ UNCHANGED handle
    <2> DEFINE o == [op[t] EXCEPT !.again = TRUE, !.buffer = Empty, !.attempts = 0]
    <2>1. /\ o \in Op /\ o.support = op[t].support /\ ~o.owns_probe
          /\ o.again /\ o.purpose = op[t].purpose /\ o.result = op[t].result
          /\ o.location = op[t].location /\ o.size = op[t].size
      BY <1>1, <1>4 DEF Op
    <2>2. Locally(t, handle[t], "ReadAt", o)
      BY <1>1, <1>3, <1>7, <2>1 DEF Locally, Goto, TypeInv
    <2> HIDE DEF o
    <2>3. handle'[t] = handle[t] /\ pc'[t] = "ReadAt" /\ op'[t] = o
      BY <1>1, <2>2, LocalEffect
    <2>4. AgainInv(t)'
      BY <2>3 DEF AgainInv, State, RangeLabels, GuardLabels
    <2>5. ThreadInv(t)'
      <3>1. /\ op'[t].purpose = "Read" /\ op'[t].support # "UNKNOWN" /\ ~op'[t].owns_probe
            /\ op'[t].result.outcome = "None"
            /\ op'[t].location + op'[t].size <= handle'[t].length
        BY <1>1, <1>7, <2>1, <2>3
      <3>2. pc'[t] \notin GuardLabels \cup OpenLabels \cup {"AwaitProbe", "Finalize"}
        BY <1>3, <2>3
      <3>3. handle'[t].state \in DOMAIN states' /\ handle'[t].state \in 0..Len(states')
        BY <1>1, <1>2, <2>3
      <3> QED  BY <2>4, <3>1, <3>2, <3>3, ReadingThread
    <2> QED  BY <1>1, <1>3, <2>1, <2>2, <2>5
  <1> QED  BY <1>5, <1>6, <1>7 DEF Downloaded

\* FullDownload finds the download or starts it.
LEMMA FullDownloadPreserves ==
  ASSUME ReadPathInv, NEW t \in Threads, FullDownload(t)
  PROVE  ReadPathInv' /\ Advancing
  <1>1. pc[t] = "FullDownload" /\ pc[t] \in DownloadLabels /\ pc[t] \notin FetchLabels /\ SharedKept
        /\ UNCHANGED states
    BY SharedUnchanged DEF FullDownload, DownloadLabels, FetchLabels
  <1>2. /\ handle[t] \in Handle /\ op[t] \in Op /\ State(t) \in FileState /\ TypeInv
        /\ ~op[t].owns_probe
    BY <1>1, DownloadKnows
  <1>3. CASE State(t).cached_data # None /\ Downloaded(t, State(t).cached_data.size)
    <2>1. State(t).cached_data.size \in Nat
      BY <1>2, <1>3 DEF FileState, CachedData
    <2>2. /\ states' \in Seq(FileState) /\ DOMAIN states' = DOMAIN states
          /\ states'[handle[t].state].cached_data # None
      BY <1>1, <1>2, <1>3 DEF TypeInv, State
    <2>3. /\ \E h, l, o : /\ Locally(t, h, l, o) /\ ~o.owns_probe
                          /\ h.state = handle[t].state
                          /\ l \notin GuardLabels \cup FetchLabels
          /\ ThreadInv(t)'
      BY <1>1, <1>3, <2>1, <2>2, DownloadedEffect
    <2>4. PICK h, l, o : /\ Locally(t, h, l, o) /\ ~o.owns_probe
                         /\ h.state = handle[t].state
                         /\ l \notin GuardLabels \cup FetchLabels
      BY <2>3
    <2>5. ThreadInv(t)' /\ l \notin FetchLabels
      BY <2>3, <2>4
    <2> QED  BY <1>1, <1>2, <2>4, <2>5, LocalStepPreserves
  <1>4. CASE Goto(t, "StartDownload") /\ UNCHANGED <<op, handle>>
    <2>1. Locally(t, handle[t], "StartDownload", op[t])
      BY <1>2, <1>4 DEF Locally, Goto, TypeInv, Labels
    <2>2. handle'[t] = handle[t] /\ pc'[t] = "StartDownload" /\ op'[t] = op[t]
      BY <1>2, <2>1, LocalEffect
    <2>3. BufferInv(t)' /\ pc'[t] \in DownloadLabels /\ "StartDownload" \notin FetchLabels
      BY <2>2 DEF BufferInv, DownloadLabels, FetchLabels
    <2>4. ThreadInv(t)'
      BY <1>1, <1>2, <2>2, <2>3, DownloadingThread
    <2> QED  BY <1>1, <1>2, <2>1, <2>3, <2>4, LocalStepPreserves
  <1> QED  BY <1>3, <1>4 DEF FullDownload

\* One thread starts the download of a state that has none.
LEMMA StartDownloadPreserves ==
  ASSUME ReadPathInv, NEW t \in Threads, StartDownload(t)
  PROVE  ReadPathInv' /\ Advancing
  <1> DEFINE s == State(t)
  <1>1. /\ pc[t] \in DownloadLabels /\ pc[t] \notin FetchLabels /\ SharedKept /\ UNCHANGED handle
        /\ MayDownload(s)
    BY SharedUnchanged DEF StartDownload, DownloadLabels, FetchLabels
  <1>2. /\ handle[t] \in Handle /\ op[t] \in Op /\ s \in FileState /\ TypeInv /\ CacheInv(s)
        /\ ~op[t].owns_probe /\ pc[t] # "Closed"
    BY <1>1, DownloadKnows
  <1>3. CASE Goto(t, "FullDownload") /\ UNCHANGED <<states, op>>
    <2>1. Locally(t, handle[t], "FullDownload", op[t])
      BY <1>1, <1>2, <1>3 DEF Locally, Goto, TypeInv, Labels
    <2>2. handle'[t] = handle[t] /\ pc'[t] = "FullDownload" /\ op'[t] = op[t]
      BY <1>2, <2>1, LocalEffect
    <2>3. BufferInv(t)' /\ pc'[t] \in DownloadLabels /\ "FullDownload" \notin FetchLabels
      BY <2>2 DEF BufferInv, DownloadLabels, FetchLabels
    <2>4. ThreadInv(t)'
      BY <1>1, <1>2, <1>3, <2>2, <2>3, DownloadingThread
    <2> QED  BY <1>1, <1>2, <1>3, <2>1, <2>3, <2>4, LocalStepPreserves
  <1>4. CASE /\ ~AlreadyDownloaded(s)
             /\ SetState(t, [s EXCEPT !.downloading = TRUE])
             /\ op' = [op EXCEPT ![t].attempts = 0]
             /\ Goto(t, "GetRequest")
    <2> DEFINE n == [s EXCEPT !.downloading = TRUE]
               o == [op[t] EXCEPT !.attempts = 0]
    <2>1. /\ n \in FileState /\ n.downloading /\ n.support = s.support /\ n.probing = s.probing
          /\ n.cached_data = s.cached_data /\ n.downloads = s.downloads
          /\ n.invalidated = s.invalidated /\ SetState(t, n)
      BY <1>2, <1>4 DEF FileState
    <2>2. CacheInv(n) /\ Advances(s, n) /\ ~s.downloading
      <3>1. s.invalidated \in Nat
        BY <1>2 DEF FileState
      <3> QED  BY <1>1, <1>2, <1>4, <2>1, <3>1 DEF CacheInv, Advances, AlreadyDownloaded, MayDownload
    <2>3. /\ o \in Op /\ o.support = op[t].support /\ ~o.owns_probe
          /\ o.again = op[t].again /\ o.purpose = op[t].purpose /\ o.result = op[t].result
          /\ o.location = op[t].location /\ o.size = op[t].size
      BY <1>2 DEF Op
    <2>4. Locally(t, handle[t], "GetRequest", o)
      BY <1>1, <1>2, <1>4, <2>3 DEF Locally, Goto, TypeInv, Labels, FetchLabels
    <2> HIDE DEF n, o, s
    <2>5. handle'[t] = handle[t] /\ pc'[t] = "GetRequest" /\ op'[t] = o
      BY <1>2, <2>4, LocalEffect
    <2>6. BufferInv(t)' /\ pc'[t] \in DownloadLabels /\ "GetRequest" \in FetchLabels
      BY <2>5 DEF BufferInv, DownloadLabels, FetchLabels
    <2>7. DOMAIN states' = DOMAIN states /\ Len(states') = Len(states)
      BY <1>2, <2>1, SetStateEffect
    <2>8. ThreadInv(t)'
      BY <1>1, <2>3, <2>5, <2>6, <2>7, DownloadingThread
    <2>9. (n.support = "UNKNOWN" /\ n.probing) <=> Probed(handle[t].state)
      BY <2>1 DEF Probed, State, s
    <2> QED  BY <1>1, <1>2, <2>1, <2>2, <2>3, <2>4, <2>6, <2>8, <2>9, StateStepPreserves DEF s
  <1> QED  BY <1>3, <1>4 DEF StartDownload

\* The download continues: the buffer is complete, or is filled again.
LEMMA ReceivedPreserves ==
  ASSUME ReadPathInv, NEW t \in Threads, pc[t] = "GetRequest",
         NEW l \in FetchLabels, pc' = [pc EXCEPT ![t] = l], NEW b \in Buffer, NEW k \in Nat,
         op' = [op EXCEPT ![t] = [op[t] EXCEPT !.buffer = b, !.attempts = k]],
         l = "Finalize" => Whole(b.size, b.version, handle[t].etag),
         SharedKept, UNCHANGED <<states, handle>>
  PROVE  ReadPathInv' /\ Advancing
  <1> DEFINE o == [op[t] EXCEPT !.buffer = b, !.attempts = k]
  <1>1. pc[t] \in DownloadLabels /\ pc[t] \in FetchLabels /\ l \in DownloadLabels /\ l \in Labels
    BY DEF DownloadLabels, FetchLabels, Labels
  <1>2. /\ handle[t] \in Handle /\ op[t] \in Op /\ TypeInv /\ ~op[t].owns_probe
    BY <1>1, DownloadKnows
  <1>3. /\ o \in Op /\ o.support = op[t].support /\ ~o.owns_probe
        /\ o.again = op[t].again /\ o.purpose = op[t].purpose /\ o.result = op[t].result
        /\ o.location = op[t].location /\ o.size = op[t].size /\ o.buffer = b
    BY <1>2 DEF Op
  <1>4. Locally(t, handle[t], l, o)
    BY <1>1, <1>2, <1>3 DEF Locally, TypeInv
  <1> HIDE DEF o
  <1>5. handle'[t] = handle[t] /\ pc'[t] = l /\ op'[t] = o
    BY <1>2, <1>4, LocalEffect
  <1>6. BufferInv(t)'
    BY <1>3, <1>5 DEF BufferInv, Whole
  <1>7. ThreadInv(t)'
    BY <1>1, <1>3, <1>5, <1>6, DownloadingThread
  <1> QED  BY <1>1, <1>2, <1>3, <1>4, <1>7, LocalStepPreserves

\* The download arrives, is cut off and repeated, or is given up.
LEMMA GetRequestPreserves ==
  ASSUME ReadPathInv, NEW t \in Threads, GetRequest(t)
  PROVE  ReadPathInv' /\ Advancing
  <1> DEFINE s == State(t)
  <1>1. pc[t] = "GetRequest" /\ pc[t] \in DownloadLabels /\ pc[t] \in FetchLabels
    BY DEF GetRequest, DownloadLabels, FetchLabels
  <1>2. /\ handle[t] \in Handle /\ op[t] \in Op /\ s \in FileState /\ TypeInv /\ CacheInv(s)
        /\ ~op[t].owns_probe /\ pc[t] # "Closed" /\ s.downloading /\ pc[t] \in Labels
        /\ handle[t].state \in DOMAIN states /\ version \in Versions
    BY <1>1, DownloadKnows DEF TypeInv
  <1>3. SharedKept
    <2>1. metadata' \in {metadata, ErasedGlobally}
      BY DEF GetRequest
    <2> QED  BY <2>1, ErasedKeepsShared DEF GetRequest
  <1>4. /\ op[t].attempts \in Nat /\ version \in Nat /\ Lengths[version] \in Nat
        /\ \A size \in Nat : Received(op[t].buffer, size) \in Buffer
    <2>1. version \in Nat /\ Lengths[version] \in Nat
      BY <1>2, LengthsType
    <2> QED  BY <1>2, <2>1 DEF Received, Buffer, Op
  <1>5. CASE /\ Matches(handle[t])
             /\ op' = [op EXCEPT ![t].buffer = Received(@, Lengths[version])]
             /\ Goto(t, "Finalize")
             /\ UNCHANGED <<states, handle, metadata>>
    <2> DEFINE b == Received(op[t].buffer, Lengths[version])
    <2>1. b \in Buffer /\ Whole(b.size, b.version, handle[t].etag)
      BY <1>2, <1>4, <1>5 DEF Received, Whole, Matches
    <2> HIDE DEF b
    <2>2. op' = [op EXCEPT ![t] = [op[t] EXCEPT !.buffer = b, !.attempts = op[t].attempts]]
      <3>1. op' = [op EXCEPT ![t] = [op[t] EXCEPT !.buffer = b]]
        BY <1>5 DEF b
      <3>2. [op[t] EXCEPT !.buffer = b, !.attempts = op[t].attempts] = [op[t] EXCEPT !.buffer = b]
        BY <1>2, <2>1 DEF Op
      <3> QED  BY <3>1, <3>2
    <2>3. "Finalize" \in FetchLabels
      BY DEF FetchLabels
    <2> QED  BY <1>1, <1>3, <1>4, <1>5, <2>1, <2>2, <2>3, ReceivedPreserves DEF Goto
  <1>6. CASE /\ op' = [op EXCEPT ![t].buffer = Received(@, 1), ![t].attempts = @ + 1]
             /\ UNCHANGED <<pc, states, handle, metadata>>
    <2> DEFINE b == Received(op[t].buffer, 1)
               k == op[t].attempts + 1
    <2>1. b \in Buffer /\ k \in Nat
      BY <1>4
    <2>2. op' = [op EXCEPT ![t] = [op[t] EXCEPT !.buffer = b, !.attempts = k]]
      BY <1>6
    <2>3. "GetRequest" \in FetchLabels /\ pc' = [pc EXCEPT ![t] = "GetRequest"]
      BY <1>1, <1>2, <1>6 DEF FetchLabels, TypeInv
    <2> HIDE DEF b, k
    <2>4. UNCHANGED <<states, handle>> /\ "GetRequest" # "Finalize"
      BY <1>6
    <2> QED  BY <1>1, <1>3, <2>1, <2>2, <2>3, <2>4, ReceivedPreserves
  <1>7. CASE SetState(t, DownloadAborted(s)) /\ Throw(t, "Error")
    <2> DEFINE n == DownloadAborted(s)
    <2>1. /\ n \in FileState /\ ~n.downloading /\ n.support = s.support /\ n.probing = s.probing
          /\ n.cached_data = s.cached_data /\ n.downloads = s.downloads
          /\ n.invalidated = s.invalidated /\ SetState(t, n)
      BY <1>2, <1>7 DEF DownloadAborted, FileState
    <2> HIDE DEF n
    <2>2. CacheInv(n) /\ Advances(s, n)
      <3>1. s.invalidated \in Nat
        BY <1>2 DEF FileState
      <3> QED  BY <1>2, <2>1, <3>1 DEF CacheInv, Advances
    <2>3. states' \in Seq(FileState) /\ DOMAIN states' = DOMAIN states
      BY <1>2, <2>1, SetStateEffect
    <2>4. /\ \E h, l, o : /\ Locally(t, h, l, o) /\ ~o.owns_probe
                          /\ l \notin GuardLabels \cup FetchLabels
                          /\ l \in {"Closed", "Ready"}
          /\ ThreadInv(t)'
      BY <1>2, <1>7, <2>3, ThrowEffect DEF Errors
    <2>5. PICK h, l, o : /\ Locally(t, h, l, o) /\ ~o.owns_probe
                         /\ l \notin GuardLabels \cup FetchLabels
                         /\ l \in {"Closed", "Ready"}
      BY <2>4
    <2>6. ThreadInv(t)' /\ l \notin FetchLabels
      BY <2>4, <2>5
    <2>7. (n.support = "UNKNOWN" /\ n.probing) <=> Probed(handle[t].state)
      BY <2>1 DEF Probed, State
    <2> HIDE DEF s
    <2> QED  BY <1>1, <1>2, <1>3, <2>1, <2>2, <2>5, <2>6, <2>7, StateStepPreserves DEF s
  <1> QED  BY <1>5, <1>6, <1>7 DEF GetRequest

\* The download is handed to all handles of the path.
LEMMA FinalizePreserves ==
  ASSUME ReadPathInv, NEW t \in Threads, Finalize(t)
  PROVE  ReadPathInv' /\ Advancing
  <1> DEFINE s == State(t)
             b == op[t].buffer
             data == [size |-> b.size, pinned |-> handle[t].etag, version |-> b.version]
             n == Finalized(s, data)
  <1>1. pc[t] = "Finalize" /\ pc[t] \in DownloadLabels /\ pc[t] \in FetchLabels /\ SharedKept
    BY SharedUnchanged DEF Finalize, DownloadLabels, FetchLabels
  <1>2. /\ handle[t] \in Handle /\ op[t] \in Op /\ s \in FileState /\ TypeInv /\ CacheInv(s)
        /\ ~op[t].owns_probe /\ pc[t] # "Closed" /\ s.downloading /\ ThreadInv(t)
        /\ handle[t].state \in DOMAIN states
    BY <1>1, DownloadKnows
  <1>3. SetState(t, n) /\ Downloaded(t, b.size)
    BY DEF Finalize
  <1>4. b \in Buffer /\ b.size \in Nat /\ handle[t].etag \in ETags
    BY <1>2 DEF Op, Buffer, Handle
  <1>5. Whole(b.size, b.version, handle[t].etag) /\ b.version \in Versions
    BY <1>1, <1>2 DEF ThreadInv, BufferInv, Whole
  <1> HIDE DEF s, b
  <1>6. /\ data \in CachedData /\ data # None /\ data.size = b.size /\ data.version = b.version
        /\ data.pinned = handle[t].etag
    <2>1. data \in CachedData
      BY <1>4, <1>5 DEF CachedData
    <2>2. ETags \subseteq Nat \cup {None} /\ Versions \subseteq Nat
      BY LengthsType DEF ETags
    <2>3. data \in [size : Nat, pinned : Nat \cup {None}, version : Nat]
      BY <1>4, <1>5, <2>2
    <2> QED  BY <2>1, <2>3, ReadPathAssumption DEF ReadPathAssumption
  <1> HIDE DEF data
  <1>7. /\ n \in FileState /\ ~n.downloading /\ n.support = s.support /\ n.probing = s.probing
        /\ n.cached_data = data /\ n.downloads = s.downloads + 1 /\ n.invalidated = s.invalidated
    <2>1. s.downloads + 1 \in Nat
      BY <1>2 DEF FileState
    <2> QED  BY <1>2, <1>6, <2>1 DEF Finalized, FileState
  <1> HIDE DEF n
  <1>8. CacheInv(n) /\ Advances(s, n)
    <2>1. s.invalidated \in Nat /\ s.downloads \in Nat
      BY <1>2 DEF FileState
    <2>2. s.cached_data = None /\ s.downloads <= s.invalidated
      BY <1>2 DEF CacheInv
    <2> QED  BY <1>5, <1>6, <1>7, <2>1, <2>2 DEF CacheInv, Advances, Whole
  <1>9. /\ states' \in Seq(FileState) /\ DOMAIN states' = DOMAIN states
        /\ states'[handle[t].state] = n
    BY <1>2, <1>3, <1>7, SetStateEffect
  <1>10. /\ \E h, l, o : /\ Locally(t, h, l, o) /\ ~o.owns_probe
                         /\ h.state = handle[t].state
                         /\ l \notin GuardLabels \cup FetchLabels
         /\ ThreadInv(t)'
    BY <1>1, <1>3, <1>4, <1>6, <1>7, <1>9, DownloadedEffect
  <1>11. PICK h, l, o : /\ Locally(t, h, l, o) /\ ~o.owns_probe
                        /\ h.state = handle[t].state
                        /\ l \notin GuardLabels \cup FetchLabels
    BY <1>10
  <1>12. ThreadInv(t)' /\ l \notin FetchLabels
    BY <1>10, <1>11
  <1>13. (n.support = "UNKNOWN" /\ n.probing) <=> Probed(handle[t].state)
    BY <1>7 DEF Probed, State, s
  <1> QED  BY <1>1, <1>2, <1>3, <1>7, <1>8, <1>11, <1>12, <1>13, StateStepPreserves DEF s

\* The download of another length is withdrawn.
LEMMA InvalidateCachedFilePreserves ==
  ASSUME ReadPathInv, NEW t \in Threads, InvalidateCachedFile(t)
  PROVE  ReadPathInv' /\ Advancing
  <1> DEFINE s == State(t)
             k == s.invalidated + 1
             n == [s EXCEPT !.cached_data = None, !.invalidated = k]
  <1>1. /\ pc[t] \in DownloadLabels /\ pc[t] \notin FetchLabels /\ SharedKept /\ UNCHANGED <<handle, op>>
        /\ Goto(t, "EraseFileState")
    BY SharedUnchanged DEF InvalidateCachedFile, DownloadLabels, FetchLabels
  <1>2. /\ handle[t] \in Handle /\ op[t] \in Op /\ s \in FileState /\ TypeInv /\ CacheInv(s)
        /\ ~op[t].owns_probe /\ pc[t] # "Closed"
    BY <1>1, DownloadKnows
  <1>3. SetState(t, n)
    BY DEF InvalidateCachedFile
  <1>4. s.invalidated \in Nat /\ s.downloads \in Nat /\ k \in Nat /\ k = s.invalidated + 1
    BY <1>2 DEF FileState
  <1> HIDE DEF k, s
  <1>5. /\ n \in FileState /\ n.downloading = s.downloading /\ n.support = s.support
        /\ n.probing = s.probing /\ n.cached_data = None /\ n.downloads = s.downloads
        /\ n.invalidated = k
    BY <1>2, <1>4 DEF FileState
  <1> HIDE DEF n
  <1>6. CacheInv(n) /\ Advances(s, n)
    BY <1>2, <1>4, <1>5 DEF CacheInv, Advances
  <1>7. Locally(t, handle[t], "EraseFileState", op[t])
    BY <1>1, <1>2 DEF Locally, Goto, TypeInv, Labels
  <1>8. handle'[t] = handle[t] /\ pc'[t] = "EraseFileState" /\ op'[t] = op[t]
    BY <1>2, <1>7, LocalEffect
  <1>9. BufferInv(t)' /\ pc'[t] \in DownloadLabels /\ "EraseFileState" \notin FetchLabels
    BY <1>8 DEF BufferInv, DownloadLabels, FetchLabels
  <1>10. DOMAIN states' = DOMAIN states /\ Len(states') = Len(states)
    BY <1>2, <1>3, <1>5, SetStateEffect
  <1>11. ThreadInv(t)'
    BY <1>1, <1>2, <1>8, <1>9, <1>10, DownloadingThread
  <1>12. (n.support = "UNKNOWN" /\ n.probing) <=> Probed(handle[t].state)
    BY <1>5 DEF Probed, State, s
  <1> QED  BY <1>1, <1>2, <1>3, <1>5, <1>6, <1>7, <1>9, <1>11, <1>12, StateStepPreserves DEF s

\* The state of a path is erased from the cache; who has it keeps it.
LEMMA EraseFileStatePreserves ==
  ASSUME ReadPathInv, NEW t \in Threads, EraseFileState(t)
  PROVE  ReadPathInv' /\ Advancing
  <1>1. /\ pc[t] \in DownloadLabels /\ pc[t] \notin FetchLabels /\ UNCHANGED states
        /\ Throw(t, "LengthMismatch")
    BY DEF EraseFileState, DownloadLabels, FetchLabels
  <1>2. TypeInv /\ ~op[t].owns_probe /\ pc[t] # "Closed"
    BY <1>1, DownloadKnows
  <1>3. SharedKept
    BY <1>2, StatesDomain DEF EraseFileState, SharedKept, TypeInv
  <1>4. /\ \E h, l, o : /\ Locally(t, h, l, o) /\ ~o.owns_probe
                        /\ l \notin GuardLabels \cup FetchLabels
                        /\ l \in {"Closed", "Ready"}
        /\ ThreadInv(t)'
    BY <1>1, <1>2, ThrowEffect DEF TypeInv, Errors
  <1> QED  BY <1>1, <1>2, <1>3, <1>4, LocalStepPreserves

-----------------------------------------------------------------------------
(* The rest, and the invariant. *)

\* A handle is closed.
LEMMA ClosePreserves ==
  ASSUME ReadPathInv, NEW t \in Threads, Close(t)
  PROVE  ReadPathInv' /\ Advancing
  <1>1. /\ pc[t] = "Ready" /\ SharedKept /\ UNCHANGED states /\ TypeInv /\ ThreadInv(t)
    BY SharedUnchanged DEF Close, ReadPathInv
  <1>2. Locally(t, NoHandle, "Closed", NoOp)
    BY Initial DEF Close, Goto, Locally, Labels
  <1>3. ~op[t].owns_probe /\ pc[t] \notin FetchLabels
    BY <1>1 DEF ThreadInv, GuardInv, GuardLabels, FetchLabels
  <1>4. "Closed" \notin GuardLabels \cup FetchLabels /\ NoHandle.state \in 0..Len(states)
    BY <1>1, Initial, StatesDomain DEF GuardLabels, FetchLabels
  <1> QED  BY <1>1, <1>2, <1>3, <1>4, Initial, CalmStepPreserves

\* The end of a query, and a new version of the file, concern no thread.
LEMMA QuietStepPreserves ==
  ASSUME ReadPathInv, TypeInv', UNCHANGED <<setup, states, handle, pc, op>>
  PROVE  ReadPathInv' /\ Advancing
  <1>1. Advancing
    BY StatesDomain DEF ReadPathInv, Advancing, Advances, FileState
  <1>2. ASSUME NEW t \in Threads PROVE ThreadInv(t)'
    BY <1>1, OthersKeep DEF ReadPathInv
  <1>3. ASSUME NEW i \in DOMAIN states PROVE StateInv(i)'
    BY DEF ReadPathInv, StateInv, ProbeInv, DownloadInv, CacheInv, Probed, Owns, Fetches, Whole
  <1> QED  BY <1>1, <1>2, <1>3 DEF ReadPathInv

\* The states of a query are dropped at its end.
LEMMA QueryEndPreserves ==
  ASSUME ReadPathInv, QueryEnd
  PROVE  ReadPathInv' /\ Advancing
  <1>1. TypeInv'
    <2>1. 0 \in 0..Len(states)
      BY StatesDomain DEF ReadPathInv
    <2> QED  BY <2>1 DEF ReadPathInv, TypeInv, QueryEnd
  <1> QED  BY <1>1, QuietStepPreserves DEF QueryEnd

\* The file on the server is replaced.
LEMMA ReplaceFilePreserves ==
  ASSUME ReadPathInv, ReplaceFile
  PROVE  ReadPathInv' /\ Advancing
  <1>1. version' \in Versions
    <2>1. version \in Versions
      BY DEF ReadPathInv, TypeInv
    <2> QED  BY <2>1, LengthsType DEF ReplaceFile
  <1>2. TypeInv'
    BY <1>1 DEF ReadPathInv, TypeInv, ReplaceFile
  <1> QED  BY <1>2, QuietStepPreserves DEF ReplaceFile

\* The invariant holds at first.
LEMMA InitInv == Init => ReadPathInv
  <1> SUFFICES ASSUME Init PROVE ReadPathInv
    OBVIOUS
  <1>1. states = <<>> /\ DOMAIN states = {} /\ Len(states) = 0 /\ states \in Seq(FileState)
    BY DEF Init
  <1>2. /\ handle \in [Threads -> Handle] /\ op \in [Threads -> Op]
        /\ \A t \in Threads : handle[t] = NoHandle /\ op[t] = NoOp /\ pc[t] = "Closed"
    BY Initial DEF Init
  <1>3. TypeInv
    <2>1. pc \in [Threads -> Labels]
      BY DEF Init, Labels
    <2> QED  BY <1>1, <1>2, <2>1, LengthsType DEF Init, TypeInv
  <1>4. ASSUME NEW t \in Threads PROVE ThreadInv(t)
    BY <1>1, <1>2, <1>4, Initial DEF ThreadInv, GuardInv, BufferInv, AgainInv, RangeInv, ResultInv,
       Calm, GuardLabels, OpenLabels
  <1> QED  BY <1>1, <1>3, <1>4 DEF ReadPathInv

\* One step, and what it does to the file states.
LEMMA NextInv == ReadPathInv /\ [Next]_vars => ReadPathInv' /\ Advancing
  <1> SUFFICES ASSUME ReadPathInv, [Next]_vars PROVE ReadPathInv' /\ Advancing
    OBVIOUS
  <1>1. ASSUME NEW t \in Threads, Open(t) \/ Read(t) \/ Close(t) PROVE ReadPathInv' /\ Advancing
    BY <1>1, OpenPreserves, ReadPreserves, ClosePreserves
  <1>2. ASSUME NEW t \in Threads, Step(t) PROVE ReadPathInv' /\ Advancing
    <2>1. CASE TryInitializeRead(t) \/ LoadFileInfo(t) \/ HeadRequest(t) \/ InitializeFileInfo(t)
      BY <2>1, TryInitializeReadPreserves, LoadFileInfoPreserves, HeadRequestPreserves,
         InitializeFileInfoPreserves
    <2>2. CASE ReadAt(t) \/ BeginRequest(t) \/ AwaitProbe(t) \/ Guarded(t) \/ RangeRequest(t)
      BY <2>2, ReadAtPreserves, BeginRequestPreserves, AwaitProbePreserves, GuardedPreserves,
         RangeRequestPreserves
    <2>3. CASE FullDownload(t) \/ StartDownload(t) \/ GetRequest(t) \/ Finalize(t)
      BY <2>3, FullDownloadPreserves, StartDownloadPreserves, GetRequestPreserves,
         FinalizePreserves
    <2>4. CASE InvalidateCachedFile(t) \/ EraseFileState(t)
      BY <2>4, InvalidateCachedFilePreserves, EraseFileStatePreserves
    <2> QED  BY <1>2, <2>1, <2>2, <2>3, <2>4 DEF Step
  <1>3. CASE UNCHANGED vars
    <2>1. UNCHANGED <<setup, version, states, file_states, metadata, handle, pc, op>>
      BY <1>3 DEF vars
    <2>2. TypeInv'
      BY <2>1 DEF ReadPathInv, TypeInv
    <2> QED  BY <2>1, <2>2, QuietStepPreserves
  <1> QED  BY <1>1, <1>2, <1>3, QueryEndPreserves, ReplaceFilePreserves DEF Next

\* The probe, the download and what each thread knows of them agree in every reachable
\* state, however many threads, versions and file states there are.
THEOREM ReadPathInvariant == Spec => []ReadPathInv
  BY InitInv, NextInv, PTL DEF Spec

-----------------------------------------------------------------------------
(* What follows. *)

\* A set of equal members has at most one.
LEMMA AtMostOne ==
  ASSUME NEW S, \A x, y \in S : x = y
  PROVE  Cardinality(S) <= 1
  <1>1. CASE S = {}
    BY <1>1, FS_EmptySet
  <1>2. CASE S # {}
    <2>1. PICK x : x \in S
      BY <1>2
    <2>2. S = {x}
      BY <2>1
    <2> QED  BY <2>2, FS_Singleton
  <1> QED  BY <1>1, <1>2

\* HTTPFileState's probe is owned by exactly one request while it runs, so a thread that
\* waits in BeginRequest waits for a guard that will mark support or be destroyed.
THEOREM ProbeIsOwned == Spec => []ProbeHasOwner
  <1>1. ReadPathInv => ProbeHasOwner
    <2> SUFFICES ASSUME ReadPathInv, NEW i \in DOMAIN states
                 PROVE  LET owners == {t \in Using(i) : op[t].owns_probe}
                        IN  /\ Cardinality(owners) <= 1
                            /\ states[i].support = "UNKNOWN" => (states[i].probing <=> owners # {})
      BY DEF ProbeHasOwner
    <2> DEFINE owners == {t \in Using(i) : op[t].owns_probe}
    <2>1. \A t : t \in owners <=> t \in Threads /\ Owns(t, i)
      BY DEF Using, Owns
    <2>2. ProbeInv(i)
      BY DEF ReadPathInv, StateInv
    <2>3. Cardinality(owners) <= 1
      BY <2>1, <2>2, AtMostOne DEF ProbeInv
    <2>4. Probed(i) <=> owners # {}
      BY <2>1, <2>2 DEF ProbeInv
    <2>5. states[i].probing \in BOOLEAN
      BY StatesDomain DEF ReadPathInv, FileState
    <2> QED  BY <2>3, <2>4, <2>5 DEF Probed
  <1> QED  BY <1>1, ReadPathInvariant, PTL

\* CachedFileDownload: one thread at a time downloads for a file state, the flag says so,
\* and a second download follows an invalidation only.
THEOREM FileIsDownloadedOnce == Spec => []DownloadedOnce
  <1>1. ReadPathInv => DownloadedOnce
    <2> SUFFICES ASSUME ReadPathInv, NEW i \in DOMAIN states
                 PROVE  LET active == {t \in Using(i) : pc[t] \in {"GetRequest", "Finalize"}}
                        IN  /\ Cardinality(active) <= 1
                            /\ states[i].downloading <=> active # {}
                            /\ states[i].downloads <= states[i].invalidated + 1
      BY DEF DownloadedOnce
    <2> DEFINE active == {t \in Using(i) : pc[t] \in {"GetRequest", "Finalize"}}
    <2>1. \A t : t \in active <=> t \in Threads /\ Fetches(t, i)
      BY DEF Using, Fetches, FetchLabels
    <2>2. DownloadInv(i) /\ CacheInv(states[i])
      BY DEF ReadPathInv, StateInv
    <2>3. Cardinality(active) <= 1
      BY <2>1, <2>2, AtMostOne DEF DownloadInv
    <2>4. states[i].downloading <=> active # {}
      BY <2>1, <2>2 DEF DownloadInv
    <2> QED  BY <2>2, <2>3, <2>4 DEF CacheInv
  <1> QED  BY <1>1, ReadPathInvariant, PTL

\* A cached download has the length of the version it is of, however often the GET was
\* cut off and repeated into the same buffer.
THEOREM CachedFileIsWhole == Spec => []DownloadIsWhole
  <1>1. ReadPathInv => DownloadIsWhole
    BY DEF ReadPathInv, StateInv, CacheInv, Whole, DownloadIsWhole
  <1> QED  BY <1>1, ReadPathInvariant, PTL

\* A read that fails after its own full download fails because another handle invalidated
\* the download.
THEOREM DownloadIsRead == Spec => []ReadsItsDownload
  <1>1. ReadPathInv => ReadsItsDownload
    BY DEF ReadPathInv, ThreadInv, ResultInv, ReadsItsDownload
  <1> QED  BY <1>1, ReadPathInvariant, PTL

\* A handle with an ETag reads the bytes of its own version, from the offset asked for
\* unless the handle is longer than that version.
THEOREM OpenedVersionIsRead == Spec => []ReadsOpenedVersion
  <1>1. ReadPathInv => ReadsOpenedVersion
    <2> SUFFICES ASSUME ReadPathInv, NEW t \in Threads, handle[t].etag # None,
                        \/ op[t].result.outcome = "Range"
                        \/ op[t].result.outcome = "Cached" /\ op[t].result.pinned = handle[t].etag
                 PROVE  /\ op[t].result.version = handle[t].etag
                        /\ handle[t].length <= Lengths[handle[t].etag] =>
                              op[t].result.from = op[t].location
      BY DEF ReadsOpenedVersion
    <2> QED  BY DEF ReadPathInv, ThreadInv, ResultInv
  <1> QED  BY <1>1, ReadPathInvariant, PTL

\* Once ranges are known not to be supported no late MarkSupported restores them.
THEOREM SupportStaysLost == Spec => SupportNeverRestored
  <1>1. ReadPathInv /\ [Next]_vars =>
          [\A i \in DOMAIN states : states[i].support = "NOT_SUPPORTED" =>
               states'[i].support = "NOT_SUPPORTED"]_vars
    BY NextInv DEF Advancing, Advances
  <1> QED  BY <1>1, ReadPathInvariant, PTL DEF Spec, SupportNeverRestored
=============================================================================
