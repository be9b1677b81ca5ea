---------------------------- MODULE Surfaces_proofs ----------------------------
(***************************************************************************)
(* What visitors hear, take and see, for every number of threads, texts,   *)
(* settings and tickets, every size of the cache and of the grid: a clip   *)
(* is the one asked for and the cache stays within its bound; every ticket *)
(* whose print nothing was in the way of is printed, and is shown for as   *)
(* long as it should be; the draft of the board is one the core API takes. *)
(***************************************************************************)
EXTENDS SurfacesMC, FiniteSetTheorems, WellFoundedInduction, TLAPS

-----------------------------------------------------------------------------
(* The threads of the tts-service.  What is known of a request at its      *)
(* stage: a clip is in hand only from the moment it was found or rendered, *)
(* and then it is the one asked for; the settings it fetched were stored   *)
(* at or after the time it began.                                          *)
Clip == Settings \X Texts

Working == {"clear", "remember", "get", "render", "replace", "list", "evict", "answer", "error"}

SynthesisJob ==
    [at : Stages, ask : AskRequest, now : Int, config : Settings \cup {NoSettings},
     failed : BOOLEAN, clip : Clip \cup {Torn}, mtime : Nat, todo : SUBSET Clip]

RequestIsOK(job) ==
    /\ job.at \in Working \cup {"compare"} => job.config \in Settings
    /\ job.at \in {"replace", "list", "evict", "answer"} => job.clip = CacheKey(job.config, job.ask)
    /\ job.at \in Stages \ {"replace", "list", "evict", "answer"} => job.clip = Torn
    /\ job.at \in {"fetch", "adopt"} => job.now <= time
    /\ job.at = "adopt" /\ ~job.failed => job.config \in Settings /\ inForce[job.config] >= job.now
    /\ job.at = "compare" /\ ~job.failed
           => inForce[job.config] > job.now - Ttl \/ (Ttl = 0 /\ inForce[job.config] >= job.now)

ClockOK ==
    /\ stored \in Settings /\ time \in Int
    /\ inForce \in [Settings -> Int] /\ inForce[stored] = time
    /\ \A s \in Settings : inForce[s] <= time

(* What is cached was still stored when its fetch began.                   *)
ConfigOK ==
    /\ cachedConfig \in Settings \cup {NoSettings} /\ fetchedAt \in Int
    /\ lastConfig \in Settings \cup {NoSettings}
    /\ cachedConfig # NoSettings => inForce[cachedConfig] >= fetchedAt

(* A file holds the clip of its key, and holds it on the disk.             *)
FilesOK ==
    /\ IsFiniteSet(DOMAIN files) /\ DOMAIN files \subseteq Clip
    /\ files \in [DOMAIN files -> [clip : Clip, mtime : Nat, synced : {TRUE}]]
    /\ \A k \in DOMAIN files : files[k].clip = k
    /\ writes \in Nat

ThreadsOK ==
    /\ thread \in [Threads -> SynthesisJob]
    /\ \A t \in Threads : RequestIsOK(thread[t])

(* Where a thread sweeps, or the last sweep was not cut off, the cache is  *)
(* within its bound, or will be after some thread's sweep: one that is     *)
(* about to list the entries, or one whose list leaves no more than that.  *)
SweptBy(t) ==
    \/ thread[t].at = "list"
    \/ thread[t].at = "evict" /\ Cardinality(DOMAIN files \ thread[t].todo) <= MaxEntries

BoundInSight ==
    Cardinality(DOMAIN files) <= MaxEntries \/ \E t \in Threads : SweptBy(t)

SweepOK == (~cut \/ \E t \in Threads : InSweep(t)) => BoundInSight

SynthesisIInv == ClockOK /\ ConfigOK /\ FilesOK /\ ThreadsOK /\ SweepOK

-----------------------------------------------------------------------------
LEMMA ThreadIsAJob ==
    ASSUME ThreadsOK, NEW t \in Threads
    PROVE  thread[t] \in SynthesisJob /\ RequestIsOK(thread[t])
BY DEF ThreadsOK

LEMMA IdleIsAJob == Idle \in SynthesisJob /\ (RequestIsOK(Idle))' /\ Idle.at = "idle"
<1>1. (CHOOSE text \in Texts : TRUE) \in Texts
  BY SynthesisAssumption
<1>2. [text |-> CHOOSE text \in Texts : TRUE, knob |-> NoKnob] \in AskRequest
  BY <1>1 DEF AskRequest
<1>3. Idle \in SynthesisJob /\ Idle.at = "idle" /\ Idle.clip = Torn
  BY <1>2 DEF Idle, SynthesisJob, Stages
<1>. QED BY <1>3 DEF RequestIsOK, Working

LEMMA KeyIsAClip ==
    ASSUME NEW config \in Settings, NEW ask \in AskRequest
    PROVE  CacheKey(config, ask) \in Clip /\ Rendered(config, ask) = CacheKey(config, ask)
BY SynthesisAssumption DEF CacheKey, Rendered, Effective, AskRequest, Clip

(* A step of one thread, the settings being what they were.                *)
LEMMA OneThreadMoves ==
    ASSUME ThreadsOK, NEW t \in Threads, NEW job \in SynthesisJob, RequestIsOK(job)',
           thread' = [thread EXCEPT ![t] = job], UNCHANGED world
    PROVE  ThreadsOK'
<1>1. thread' \in [Threads -> SynthesisJob]
  BY DEF ThreadsOK
<1>2. ASSUME NEW u \in Threads PROVE RequestIsOK(thread[u])'
  <2>1. CASE u = t
    <3>1. thread'[u] = job
      BY <2>1 DEF ThreadsOK
    <3>. QED BY <3>1 DEF RequestIsOK
  <2>2. CASE u # t
    <3>1. thread'[u] = thread[u] /\ RequestIsOK(thread[u])
      BY <2>2 DEF ThreadsOK
    <3>. QED BY <3>1 DEF RequestIsOK, world
  <2>. QED BY <2>1, <2>2
<1>. QED BY <1>1, <1>2 DEF ThreadsOK

LEMMA FewerFiles ==
    ASSUME NEW S, IsFiniteSet(S), NEW T \in SUBSET S, Cardinality(S) <= MaxEntries
    PROVE  Cardinality(T) <= MaxEntries
<1>1. IsFiniteSet(T) /\ Cardinality(T) <= Cardinality(S)
  BY FS_Subset
<1>2. Cardinality(T) \in Nat /\ Cardinality(S) \in Nat
  BY <1>1, FS_CardinalityType
<1>. QED BY <1>1, <1>2, SynthesisAssumption

(* A thread that does not sweep moves, and adds no file.                   *)
LEMMA SweepIsLeftAlone ==
    ASSUME ThreadsOK, FilesOK, SweepOK, NEW t \in Threads, NEW job \in SynthesisJob,
           ~InSweep(t), job.at \notin {"list", "evict"},
           thread' = [thread EXCEPT ![t] = job], UNCHANGED cut,
           DOMAIN files' \subseteq DOMAIN files
    PROVE  SweepOK'
<1>1. \A u \in Threads : InSweep(u)' => u # t /\ thread'[u] = thread[u] /\ InSweep(u)
  BY DEF InSweep, ThreadsOK
<1>2. \A u \in Threads : SweptBy(u) => u # t /\ thread'[u] = thread[u]
  BY DEF SweptBy, InSweep, ThreadsOK
<1>3. ASSUME NEW u \in Threads, SweptBy(u) PROVE SweptBy(u)'
  <2>1. DOMAIN files' \ thread[u].todo \subseteq DOMAIN files \ thread[u].todo
    OBVIOUS
  <2>2. IsFiniteSet(DOMAIN files \ thread[u].todo)
    BY FS_Subset DEF FilesOK
  <2>3. CASE thread[u].at = "list"
    BY <1>2, <1>3, <2>3 DEF SweptBy
  <2>4. CASE thread[u].at # "list"
    <3>1. thread[u].at = "evict" /\ Cardinality(DOMAIN files \ thread[u].todo) <= MaxEntries
      BY <1>3, <2>4 DEF SweptBy
    <3>2. Cardinality(DOMAIN files' \ thread[u].todo) <= MaxEntries
      BY <2>1, <2>2, <3>1, FewerFiles
    <3>. QED BY <1>2, <1>3, <3>1, <3>2 DEF SweptBy
  <2>. QED BY <2>3, <2>4
<1>4. BoundInSight => BoundInSight'
  <2>1. ASSUME Cardinality(DOMAIN files) <= MaxEntries
        PROVE  Cardinality(DOMAIN files') <= MaxEntries
    BY <2>1, FewerFiles DEF FilesOK
  <2>. QED BY <1>3, <2>1 DEF BoundInSight
<1>. QED BY <1>1, <1>4 DEF SweepOK

LEMMA FewerAreOK ==
    ASSUME FilesOK, NEW key, files' = Without(key), UNCHANGED writes
    PROVE  FilesOK' /\ DOMAIN files' = DOMAIN files \ {key}
<1>1. DOMAIN files' = DOMAIN files \ {key} /\ \A k \in DOMAIN files' : files'[k] = files[k]
  BY DEF Without
<1>2. IsFiniteSet(DOMAIN files')
  BY <1>1, FS_Subset DEF FilesOK
<1>3. files' \in [DOMAIN files' -> [clip : Clip, mtime : Nat, synced : {TRUE}]]
  BY <1>1 DEF FilesOK, Without
<1>. QED BY <1>1, <1>2, <1>3 DEF FilesOK

(* A step outside the sweeps that leaves the clock and the settings alone. *)
LEMMA StepOutsideSweeps ==
    ASSUME SynthesisIInv, NEW t \in Threads, NEW job \in SynthesisJob, RequestIsOK(job)',
           ~InSweep(t), job.at \notin {"list", "evict"},
           thread' = [thread EXCEPT ![t] = job], UNCHANGED <<world, cut>>,
           ConfigOK', FilesOK', DOMAIN files' \subseteq DOMAIN files
    PROVE  SynthesisIInv'
<1>1. ThreadsOK'
  BY OneThreadMoves DEF SynthesisIInv
<1>2. SweepOK'
  BY SweepIsLeftAlone DEF SynthesisIInv
<1>3. ClockOK'
  BY DEF SynthesisIInv, ClockOK, world
<1>. QED BY <1>1, <1>2, <1>3 DEF SynthesisIInv

LEMMA RequestKeeps ==
    ASSUME SynthesisIInv, NEW t \in Threads, Request(t) PROVE SynthesisIInv'
<1>0. ClockOK /\ ConfigOK /\ UNCHANGED <<world, memory, files, cut, writes>> /\ ~InSweep(t)
  BY DEF SynthesisIInv, Request, ThreadAt, InSweep
<1>1. PICK ask \in AskRequest :
          thread' = [thread EXCEPT ![t] = IF IsFresh
                  THEN [Idle EXCEPT !.at = "compare", !.ask = ask, !.now = time,
                                    !.config = cachedConfig]
                  ELSE [Idle EXCEPT !.at = "fetch", !.ask = ask, !.now = time]]
  BY DEF Request
<1>2. PICK job : job = IF IsFresh
                  THEN [Idle EXCEPT !.at = "compare", !.ask = ask, !.now = time,
                                    !.config = cachedConfig]
                  ELSE [Idle EXCEPT !.at = "fetch", !.ask = ask, !.now = time]
  OBVIOUS
<1>3. job \in SynthesisJob /\ RequestIsOK(job)' /\ job.at \in {"compare", "fetch"}
  <2>1. Idle \in SynthesisJob /\ Idle.clip = Torn
    BY IdleIsAJob DEF Idle
  <2>2. CASE IsFresh
    <3>1. /\ job \in SynthesisJob /\ job.at = "compare" /\ job.clip = Torn
          /\ job.config = cachedConfig /\ job.now = time
      BY <1>0, <1>2, <2>1, <2>2 DEF SynthesisJob, Stages, ClockOK, ConfigOK
    <3>2. cachedConfig \in Settings /\ inForce[cachedConfig] > time - Ttl
      <4>1. /\ cachedConfig \in Settings /\ fetchedAt \in Int /\ inForce[cachedConfig] \in Int
            /\ inForce[cachedConfig] >= fetchedAt /\ time - fetchedAt < Ttl
            /\ time \in Int /\ Ttl \in Int
        BY <1>0, <2>2, SynthesisAssumption DEF IsFresh, ConfigOK, ClockOK
      <4>. QED BY <4>1
    <3>. QED BY <1>0, <3>1, <3>2 DEF RequestIsOK, Working, world
  <2>3. CASE ~IsFresh
    <3>1. /\ job \in SynthesisJob /\ job.at = "fetch" /\ job.clip = Torn /\ job.now = time
      BY <1>0, <1>2, <2>1, <2>3 DEF SynthesisJob, Stages, ClockOK
    <3>2. job.now <= time' /\ time' = time
      BY <1>0, <3>1 DEF ClockOK, world
    <3>. QED BY <3>1, <3>2 DEF RequestIsOK, Working
  <2>. QED BY <2>2, <2>3
<1>4. ConfigOK' /\ FilesOK' /\ DOMAIN files' \subseteq DOMAIN files
  BY <1>0 DEF SynthesisIInv, ConfigOK, FilesOK, memory, world
<1>5. thread' = [thread EXCEPT ![t] = job]
  BY <1>1, <1>2
<1>. QED BY <1>0, <1>3, <1>4, <1>5, StepOutsideSweeps

LEMMA FetchKeeps ==
    ASSUME SynthesisIInv, NEW t \in Threads, Fetch(t) PROVE SynthesisIInv'
<1>0. /\ ClockOK /\ UNCHANGED <<world, memory, files, cut, writes>> /\ ~InSweep(t)
      /\ thread[t] \in SynthesisJob /\ RequestIsOK(thread[t]) /\ thread[t].at = "fetch"
  BY ThreadIsAJob DEF SynthesisIInv, Fetch, ThreadAt, InSweep
<1>1. PICK job :
        /\ thread' = [thread EXCEPT ![t] = job]
        /\ \/ job = [thread[t] EXCEPT !.at = "adopt", !.config = stored]
           \/ job = [thread[t] EXCEPT !.at = "adopt", !.failed = TRUE]
  BY DEF Fetch
<1>2. thread[t].clip = Torn /\ thread[t].now <= time
  BY <1>0 DEF RequestIsOK, Stages
<1>3. job \in SynthesisJob /\ RequestIsOK(job)' /\ job.at = "adopt"
  <2>1. CASE job = [thread[t] EXCEPT !.at = "adopt", !.config = stored]
    <3>1. /\ job \in SynthesisJob /\ job.at = "adopt" /\ job.clip = Torn /\ job.config = stored
          /\ job.now = thread[t].now
      BY <1>0, <1>2, <2>1 DEF SynthesisJob, Stages, ClockOK
    <3>2. stored \in Settings /\ inForce[stored] >= job.now
      BY <1>0, <1>2, <3>1 DEF ClockOK, SynthesisJob
    <3>. QED BY <1>0, <1>2, <3>1, <3>2 DEF RequestIsOK, Working, world
  <2>2. CASE job = [thread[t] EXCEPT !.at = "adopt", !.failed = TRUE]
    <3>1. /\ job \in SynthesisJob /\ job.at = "adopt" /\ job.clip = Torn /\ job.failed
          /\ job.now = thread[t].now
      BY <1>0, <1>2, <2>2 DEF SynthesisJob, Stages, ClockOK
    <3>. QED BY <1>0, <1>2, <3>1 DEF RequestIsOK, Working, world
  <2>. QED BY <1>1, <2>1, <2>2
<1>4. ConfigOK' /\ FilesOK' /\ DOMAIN files' \subseteq DOMAIN files
  BY <1>0 DEF SynthesisIInv, ConfigOK, FilesOK, memory, world
<1>. QED BY <1>0, <1>1, <1>3, <1>4, StepOutsideSweeps

LEMMA AdoptKeeps ==
    ASSUME SynthesisIInv, NEW t \in Threads, Adopt(t) PROVE SynthesisIInv'
<1>0. /\ ClockOK /\ ConfigOK /\ UNCHANGED <<world, files, cut, writes, lastConfig>> /\ ~InSweep(t)
      /\ thread[t] \in SynthesisJob /\ RequestIsOK(thread[t]) /\ thread[t].at = "adopt"
  BY ThreadIsAJob DEF SynthesisIInv, Adopt, ThreadAt, InSweep, memory
<1>1. thread[t].clip = Torn /\ thread[t].now \in Int
  BY <1>0 DEF RequestIsOK, Stages, SynthesisJob
<1>2. FilesOK' /\ DOMAIN files' \subseteq DOMAIN files
  BY <1>0 DEF SynthesisIInv, FilesOK
<1>3. CASE thread[t].failed
  <2>1. PICK job : job = [thread[t] EXCEPT !.at = "compare",
                   !.config = IF cachedConfig = NoSettings THEN Fallback ELSE cachedConfig]
    OBVIOUS
  <2>2. thread' = [thread EXCEPT ![t] = job] /\ UNCHANGED memory
    BY <1>3, <2>1 DEF Adopt
  <2>3. /\ job \in SynthesisJob /\ job.at = "compare" /\ job.clip = Torn /\ job.failed
        /\ job.config \in Settings
    BY <1>0, <1>1, <1>3, <2>1, SynthesisAssumption DEF SynthesisJob, Stages, ConfigOK
  <2>4. RequestIsOK(job)'
    BY <2>3 DEF RequestIsOK, Working
  <2>5. ConfigOK'
    BY <1>0, <2>2 DEF ConfigOK, memory, world
  <2>. QED BY <1>0, <1>2, <2>2, <2>3, <2>4, <2>5, StepOutsideSweeps
<1>4. CASE ~thread[t].failed
  <2>1. PICK job : job = [thread[t] EXCEPT !.at = "compare"]
    OBVIOUS
  <2>2. /\ thread' = [thread EXCEPT ![t] = job]
        /\ cachedConfig' = thread[t].config /\ fetchedAt' = thread[t].now
    BY <1>4, <2>1 DEF Adopt, Moves, Stamp
  <2>3. /\ job \in SynthesisJob /\ job.at = "compare" /\ job.clip = Torn
        /\ job.config = thread[t].config /\ job.now = thread[t].now
    BY <1>0, <1>1, <2>1 DEF SynthesisJob, Stages
  <2>4. thread[t].config \in Settings /\ inForce[thread[t].config] >= thread[t].now
    BY <1>0, <1>4 DEF RequestIsOK
  <2>5. inForce[thread[t].config] > thread[t].now - Ttl
        \/ (Ttl = 0 /\ inForce[thread[t].config] >= thread[t].now)
    <3>1. inForce[thread[t].config] \in Int /\ Ttl \in Nat
      BY <1>0, <2>4, SynthesisAssumption DEF ClockOK
    <3>. QED BY <1>1, <2>4, <3>1
  <2>6. RequestIsOK(job)'
    BY <1>0, <2>3, <2>4, <2>5 DEF RequestIsOK, Working, world
  <2>7. ConfigOK'
    BY <1>0, <1>1, <2>2, <2>4 DEF ConfigOK, world
  <2>. QED BY <1>0, <1>2, <2>2, <2>3, <2>6, <2>7, StepOutsideSweeps
<1>. QED BY <1>3, <1>4

LEMMA CompareKeeps ==
    ASSUME SynthesisIInv, NEW t \in Threads, Compare(t) PROVE SynthesisIInv'
<1>0. /\ UNCHANGED <<world, memory, files, cut, writes>> /\ ~InSweep(t)
      /\ thread[t] \in SynthesisJob /\ RequestIsOK(thread[t]) /\ thread[t].at = "compare"
  BY ThreadIsAJob DEF SynthesisIInv, Compare, ThreadAt, InSweep
<1>1. PICK resolved : resolved = [thread[t] EXCEPT !.now = 0, !.failed = FALSE]
  OBVIOUS
<1>2. PICK job :
        /\ thread' = [thread EXCEPT ![t] = job]
        /\ \/ job = [resolved EXCEPT !.at = "clear", !.todo = DOMAIN files]
           \/ job = [resolved EXCEPT !.at = "remember"]
  BY <1>1 DEF Compare
<1>3. /\ resolved \in SynthesisJob /\ resolved.config \in Settings /\ resolved.clip = Torn
  <2>1. thread[t].config \in Settings /\ thread[t].clip = Torn
    BY <1>0 DEF RequestIsOK, Stages
  <2>2. thread[t] \in SynthesisJob
    BY <1>0
  <2>3. /\ resolved \in SynthesisJob
        /\ resolved.config = thread[t].config /\ resolved.clip = thread[t].clip
    <3>1. PICK now \in Int : now = 0
      OBVIOUS
    <3>2. PICK failed \in BOOLEAN : failed = FALSE
      OBVIOUS
    <3>3. resolved = [thread[t] EXCEPT !.now = now, !.failed = failed]
      BY <1>1, <3>1, <3>2
    <3>. QED BY <2>2, <3>3 DEF SynthesisJob
  <2>. QED BY <2>1, <2>3
<1>4. DOMAIN files \in SUBSET Clip
  BY DEF SynthesisIInv, FilesOK
<1>5. /\ job \in SynthesisJob /\ job.config \in Settings /\ job.clip = Torn
      /\ job.at \in {"clear", "remember"}
  BY <1>2, <1>3, <1>4 DEF SynthesisJob, Stages
<1>6. RequestIsOK(job)'
  BY <1>5 DEF RequestIsOK, Working
<1>7. ConfigOK' /\ FilesOK' /\ DOMAIN files' \subseteq DOMAIN files
  BY <1>0 DEF SynthesisIInv, ConfigOK, FilesOK, memory, world
<1>. QED BY <1>0, <1>2, <1>5, <1>6, <1>7, StepOutsideSweeps

LEMMA ClearKeeps ==
    ASSUME SynthesisIInv, NEW t \in Threads, Clear(t) PROVE SynthesisIInv'
<1>0. /\ UNCHANGED <<world, memory, cut, writes>> /\ ~InSweep(t)
      /\ thread[t] \in SynthesisJob /\ RequestIsOK(thread[t]) /\ thread[t].at = "clear"
  BY ThreadIsAJob DEF SynthesisIInv, Clear, ThreadAt, InSweep
<1>1. PICK job :
        /\ thread' = [thread EXCEPT ![t] = job]
        /\ \/ job = [thread[t] EXCEPT !.at = "remember"] /\ UNCHANGED files
           \/ \E key \in thread[t].todo : /\ job = [thread[t] EXCEPT !.todo = @ \ {key}]
                                          /\ files' = Without(key)
  BY DEF Clear, Moves
<1>2. /\ job \in SynthesisJob /\ job.config \in Settings /\ job.clip = Torn
      /\ job.at \in {"clear", "remember"}
  BY <1>0, <1>1 DEF RequestIsOK, SynthesisJob, Stages, Working
<1>3. RequestIsOK(job)'
  BY <1>2 DEF RequestIsOK, Working
<1>4. FilesOK' /\ DOMAIN files' \subseteq DOMAIN files
  <2>1. CASE UNCHANGED files
    BY <1>0, <2>1 DEF SynthesisIInv, FilesOK
  <2>2. ASSUME NEW key, files' = Without(key) PROVE FilesOK' /\ DOMAIN files' \subseteq DOMAIN files
    BY <1>0, <2>2, FewerAreOK DEF SynthesisIInv
  <2>. QED BY <1>1, <2>1, <2>2
<1>5. ConfigOK'
  BY <1>0 DEF SynthesisIInv, ConfigOK, memory, world
<1>. QED BY <1>0, <1>1, <1>2, <1>3, <1>4, <1>5, StepOutsideSweeps

LEMMA RememberKeeps ==
    ASSUME SynthesisIInv, NEW t \in Threads, Remember(t) PROVE SynthesisIInv'
<1>0. /\ UNCHANGED <<world, cachedConfig, fetchedAt, files, cut, writes>> /\ ~InSweep(t)
      /\ thread[t] \in SynthesisJob /\ RequestIsOK(thread[t]) /\ thread[t].at = "remember"
      /\ lastConfig' = thread[t].config
  BY ThreadIsAJob DEF SynthesisIInv, Remember, ThreadAt, InSweep
<1>1. PICK job : job = [thread[t] EXCEPT !.at = "get"]
  OBVIOUS
<1>2. thread' = [thread EXCEPT ![t] = job]
  BY <1>1 DEF Remember, Moves
<1>3. thread[t].config \in Settings /\ thread[t].clip = Torn
  BY <1>0 DEF RequestIsOK, Stages, Working
<1>4. job \in SynthesisJob /\ job.config \in Settings /\ job.clip = Torn /\ job.at = "get"
  BY <1>0, <1>1, <1>3 DEF SynthesisJob, Stages
<1>5. RequestIsOK(job)'
  BY <1>4 DEF RequestIsOK, Working
<1>6. ConfigOK' /\ FilesOK' /\ DOMAIN files' \subseteq DOMAIN files
  BY <1>0, <1>3 DEF SynthesisIInv, ConfigOK, FilesOK, world
<1>. QED BY <1>0, <1>2, <1>4, <1>5, <1>6, StepOutsideSweeps

LEMMA GetKeeps ==
    ASSUME SynthesisIInv, NEW t \in Threads, Get(t) PROVE SynthesisIInv'
<1>0. /\ UNCHANGED <<world, memory, files, cut, writes>> /\ ~InSweep(t)
      /\ thread[t] \in SynthesisJob /\ RequestIsOK(thread[t]) /\ thread[t].at = "get"
  BY ThreadIsAJob DEF SynthesisIInv, Get, ThreadAt, InSweep
<1>1. PICK job : job = IF ThreadKey(t) \in DOMAIN files
           THEN [thread[t] EXCEPT !.at = "answer", !.clip = files[ThreadKey(t)].clip]
           ELSE [thread[t] EXCEPT !.at = "render"]
  OBVIOUS
<1>2. thread' = [thread EXCEPT ![t] = job]
  BY <1>1 DEF Get
<1>3. thread[t].config \in Settings /\ thread[t].clip = Torn /\ thread[t].ask \in AskRequest
  BY <1>0 DEF RequestIsOK, Stages, Working, SynthesisJob
<1>4. job \in SynthesisJob /\ RequestIsOK(job)' /\ job.at \in {"answer", "render"}
  <2>1. CASE ThreadKey(t) \in DOMAIN files
    <3>1. files[ThreadKey(t)].clip = ThreadKey(t) /\ ThreadKey(t) \in Clip
      BY <2>1 DEF SynthesisIInv, FilesOK
    <3>2. /\ job \in SynthesisJob /\ job.config = thread[t].config /\ job.at = "answer"
          /\ job.clip = ThreadKey(t) /\ job.ask = thread[t].ask
      BY <1>0, <1>1, <2>1, <3>1 DEF SynthesisJob, Stages
    <3>3. job.clip = CacheKey(job.config, job.ask)
      BY <3>2 DEF ThreadKey
    <3>. QED BY <1>3, <3>2, <3>3 DEF RequestIsOK, Working
  <2>2. CASE ThreadKey(t) \notin DOMAIN files
    <3>1. /\ job \in SynthesisJob /\ job.config = thread[t].config /\ job.at = "render"
          /\ job.clip = thread[t].clip
      BY <1>0, <1>1, <2>2 DEF SynthesisJob, Stages
    <3>. QED BY <1>3, <3>1 DEF RequestIsOK, Working
  <2>. QED BY <2>1, <2>2
<1>5. ConfigOK' /\ FilesOK' /\ DOMAIN files' \subseteq DOMAIN files
  BY <1>0 DEF SynthesisIInv, ConfigOK, FilesOK, memory, world
<1>. QED BY <1>0, <1>2, <1>4, <1>5, StepOutsideSweeps

LEMMA RenderKeeps ==
    ASSUME SynthesisIInv, NEW t \in Threads, Render(t) PROVE SynthesisIInv'
<1>0. /\ UNCHANGED <<world, memory, files, cut>> /\ ~InSweep(t) /\ writes \in Nat
      /\ thread[t] \in SynthesisJob /\ RequestIsOK(thread[t]) /\ thread[t].at = "render"
  BY ThreadIsAJob DEF SynthesisIInv, Render, ThreadAt, InSweep, FilesOK
<1>1. PICK job :
        /\ thread' = [thread EXCEPT ![t] = job]
        /\ \/ /\ job = [thread[t] EXCEPT !.at = "replace", !.mtime = writes + 1,
                                         !.clip = Rendered(thread[t].config, thread[t].ask)]
              /\ writes' = writes + 1
           \/ job = [thread[t] EXCEPT !.at = "error"] /\ UNCHANGED writes
  <2>1. \/ /\ writes' = writes + 1
           /\ thread' = [thread EXCEPT ![t] =
                            [thread[t] EXCEPT !.at = "replace", !.mtime = writes + 1,
                                 !.clip = Rendered(thread[t].config, thread[t].ask)]]
        \/ /\ thread' = [thread EXCEPT ![t] = [thread[t] EXCEPT !.at = "error"]]
           /\ UNCHANGED writes
    BY DEF Render
  <2>. QED BY <2>1
<1>2. thread[t].config \in Settings /\ thread[t].clip = Torn /\ thread[t].ask \in AskRequest
  BY <1>0 DEF RequestIsOK, Stages, Working, SynthesisJob
<1>3. writes' \in Nat
  BY <1>0, <1>1
<1>4. job \in SynthesisJob /\ RequestIsOK(job)' /\ job.at \in {"replace", "error"}
  <2>1. CASE job = [thread[t] EXCEPT !.at = "replace", !.mtime = writes + 1,
                                     !.clip = Rendered(thread[t].config, thread[t].ask)]
    <3>1. /\ Rendered(thread[t].config, thread[t].ask) = CacheKey(thread[t].config, thread[t].ask)
          /\ CacheKey(thread[t].config, thread[t].ask) \in Clip
      BY <1>2, KeyIsAClip
    <3>2. /\ job \in SynthesisJob /\ job.config = thread[t].config /\ job.at = "replace"
          /\ job.clip = CacheKey(thread[t].config, thread[t].ask) /\ job.ask = thread[t].ask
      <4>1. PICK stage \in Stages, mtime \in Nat, clip \in Clip :
                /\ stage = "replace" /\ mtime = writes + 1
                /\ clip = Rendered(thread[t].config, thread[t].ask)
        <5>1. PICK stage : stage \in Stages /\ stage = "replace"
          BY DEF Stages
        <5>. QED BY <1>0, <3>1, <5>1
      <4>2. job = [thread[t] EXCEPT !.at = stage, !.mtime = mtime, !.clip = clip]
        BY <2>1, <4>1
      <4>3. thread[t] \in SynthesisJob
        BY <1>0
      <4>4. /\ job \in SynthesisJob /\ job.config = thread[t].config
            /\ job.at = stage /\ job.clip = clip /\ job.ask = thread[t].ask
        BY <4>2, <4>3 DEF SynthesisJob
      <4>. QED BY <3>1, <4>1, <4>4
    <3>3. job.clip = CacheKey(job.config, job.ask) /\ job.config \in Settings
          /\ job \in SynthesisJob /\ job.at = "replace"
      BY <1>2, <3>2
    <3>. QED BY <3>3 DEF RequestIsOK, Working
  <2>2. CASE job = [thread[t] EXCEPT !.at = "error"]
    <3>1. /\ job \in SynthesisJob /\ job.config = thread[t].config /\ job.at = "error"
          /\ job.clip = thread[t].clip
      BY <1>0, <2>2 DEF SynthesisJob, Stages
    <3>. QED BY <1>2, <3>1 DEF RequestIsOK, Working
  <2>. QED BY <1>1, <2>1, <2>2
<1>5. ConfigOK' /\ FilesOK' /\ DOMAIN files' \subseteq DOMAIN files
  BY <1>0, <1>3 DEF SynthesisIInv, ConfigOK, FilesOK, memory, world
<1>. QED BY <1>0, <1>1, <1>4, <1>5, StepOutsideSweeps

LEMMA AnswersKeep ==
    ASSUME SynthesisIInv, NEW t \in Threads, Answer(t) \/ AnswerError(t) PROVE SynthesisIInv'
<1>0. /\ UNCHANGED <<world, memory, files, cut, writes>> /\ ~InSweep(t)
      /\ thread' = [thread EXCEPT ![t] = Idle]
  BY DEF Answer, AnswerError, ThreadAt, InSweep
<1>1. ConfigOK' /\ FilesOK' /\ DOMAIN files' \subseteq DOMAIN files
  BY <1>0 DEF SynthesisIInv, ConfigOK, FilesOK, memory, world
<1>2. PICK job : job = Idle
  OBVIOUS
<1>3. job \in SynthesisJob /\ RequestIsOK(job)' /\ job.at \notin {"list", "evict"}
  <2>1. Idle.at = "idle" /\ Idle.clip = Torn /\ Idle \in SynthesisJob
    BY IdleIsAJob DEF Idle
  <2>. QED BY <1>2, <2>1 DEF RequestIsOK, Working
<1>. QED BY <1>0, <1>1, <1>2, <1>3, StepOutsideSweeps

-----------------------------------------------------------------------------
(* The sweeps *)
LEMMA ReplaceKeeps ==
    ASSUME SynthesisIInv, NEW t \in Threads, ReplaceEntry(t) PROVE SynthesisIInv'
<1>0. /\ UNCHANGED <<world, memory, cut, writes>>
      /\ thread[t] \in SynthesisJob /\ RequestIsOK(thread[t]) /\ thread[t].at = "replace"
  BY ThreadIsAJob DEF SynthesisIInv, ReplaceEntry, ThreadAt
<1>1. /\ thread[t].config \in Settings /\ thread[t].ask \in AskRequest
      /\ thread[t].clip = ThreadKey(t) /\ ThreadKey(t) \in Clip
  <2>1. /\ thread[t].config \in Settings /\ thread[t].ask \in AskRequest
        /\ thread[t].clip = CacheKey(thread[t].config, thread[t].ask)
    BY <1>0 DEF RequestIsOK, Working, SynthesisJob
  <2>. QED BY <2>1, KeyIsAClip DEF ThreadKey
<1>2. PICK job : job = [thread[t] EXCEPT !.at = "list"]
  OBVIOUS
<1>3. thread' = [thread EXCEPT ![t] = job]
  BY <1>2 DEF ReplaceEntry, Moves
<1>4. /\ job \in SynthesisJob /\ job.at = "list" /\ job.clip = thread[t].clip
      /\ job.config = thread[t].config /\ job.ask = thread[t].ask
  BY <1>0, <1>2 DEF SynthesisJob, Stages
<1>5. RequestIsOK(job)'
  BY <1>1, <1>4 DEF RequestIsOK, Working, ThreadKey
<1>6. ThreadsOK'
  BY <1>0, <1>3, <1>4, <1>5, OneThreadMoves DEF SynthesisIInv
<1>7. FilesOK'
  <2>. DEFINE key == ThreadKey(t)
              entry == [clip |-> thread[t].clip, mtime |-> thread[t].mtime, synced |-> OnDisk(t)]
  <2>1. files' = [k \in DOMAIN files \cup {key} |-> IF k = key THEN entry ELSE files[k]]
    BY DEF ReplaceEntry
  <2>2. entry \in [clip : Clip, mtime : Nat, synced : {TRUE}] /\ entry.clip = key
    BY <1>0, <1>1 DEF SynthesisJob, OnDisk
  <2>3. key \in Clip /\ FilesOK
    BY <1>1 DEF SynthesisIInv
  <2>. HIDE DEF entry, key
  <2>4. DOMAIN files' = DOMAIN files \cup {key}
    BY <2>1
  <2>5. IsFiniteSet(DOMAIN files')
    BY <2>3, <2>4, FS_AddElement DEF FilesOK
  <2>6. ASSUME NEW k \in DOMAIN files'
        PROVE  files'[k] \in [clip : Clip, mtime : Nat, synced : {TRUE}] /\ files'[k].clip = k
    BY <2>1, <2>2, <2>3 DEF FilesOK
  <2>7. files' \in [DOMAIN files' -> [clip : Clip, mtime : Nat, synced : {TRUE}]]
    BY <2>1, <2>4, <2>6
  <2>. QED BY <1>0, <2>3, <2>4, <2>5, <2>6, <2>7 DEF FilesOK
<1>8. SweepOK'
  <2>1. thread'[t].at = "list"
    BY <1>3, <1>4 DEF SynthesisIInv, ThreadsOK
  <2>. QED BY <2>1 DEF SweepOK, BoundInSight, SweptBy
<1>. QED BY <1>0, <1>6, <1>7, <1>8 DEF SynthesisIInv, ClockOK, ConfigOK, memory, world

(* A sweeping thread moves: as long as there was a thread to see to it     *)
(* that the bound is kept, there is one.                                   *)
LEMMA SweepMoves ==
    ASSUME ThreadsOK, FilesOK, SweepOK, NEW t \in Threads, NEW job \in SynthesisJob,
           InSweep(t), thread' = [thread EXCEPT ![t] = job],
           DOMAIN files' \subseteq DOMAIN files,
           SweptBy(t) => \/ Cardinality(DOMAIN files') <= MaxEntries
                         \/ job.at = "evict" /\ Cardinality(DOMAIN files' \ job.todo) <= MaxEntries
    PROVE  SweepOK'
<1>0. thread'[t] = job
  BY DEF ThreadsOK
<1>1. BoundInSight
  BY DEF SweepOK
<1>2. CASE Cardinality(DOMAIN files) <= MaxEntries
  BY <1>2, FewerFiles DEF FilesOK, SweepOK, BoundInSight
<1>3. CASE SweptBy(t)
  BY <1>0, <1>3 DEF SweepOK, BoundInSight, SweptBy
<1>4. ASSUME NEW u \in Threads, u # t, SweptBy(u) PROVE SweepOK'
  <2>0. thread'[u] = thread[u]
    BY <1>4
  <2>1. IsFiniteSet(DOMAIN files \ thread[u].todo)
        /\ DOMAIN files' \ thread[u].todo \subseteq DOMAIN files \ thread[u].todo
    BY FS_Subset DEF FilesOK
  <2>2. SweptBy(u)'
    <3>1. CASE thread[u].at = "list"
      BY <2>0, <3>1 DEF SweptBy
    <3>2. CASE thread[u].at # "list"
      <4>1. thread[u].at = "evict" /\ Cardinality(DOMAIN files \ thread[u].todo) <= MaxEntries
        BY <1>4, <3>2 DEF SweptBy
      <4>2. Cardinality(DOMAIN files' \ thread[u].todo) <= MaxEntries
        BY <2>1, <4>1, FewerFiles
      <4>. QED BY <2>0, <4>1, <4>2 DEF SweptBy
    <3>. QED BY <3>1, <3>2
  <2>. QED BY <2>2 DEF SweepOK, BoundInSight
<1>. QED BY <1>1, <1>2, <1>3, <1>4 DEF BoundInSight

(* The listing thread takes the oldest of the entries over the bound.      *)
LEMMA ListKeeps ==
    ASSUME SynthesisIInv, NEW t \in Threads, ListEntries(t) PROVE SynthesisIInv'
<1>0. /\ UNCHANGED <<world, memory, files, writes>>
      /\ thread[t] \in SynthesisJob /\ RequestIsOK(thread[t]) /\ thread[t].at = "list"
      /\ InSweep(t)
  BY ThreadIsAJob DEF SynthesisIInv, ListEntries, ThreadAt, InSweep
<1>1. /\ thread[t].config \in Settings /\ thread[t].clip = CacheKey(thread[t].config, thread[t].ask)
  BY <1>0 DEF RequestIsOK, Working
<1>2. /\ IsFiniteSet(DOMAIN files) /\ DOMAIN files \subseteq Clip
      /\ Cardinality(DOMAIN files) \in Nat /\ MaxEntries \in Nat
  BY FS_CardinalityType, SynthesisAssumption DEF SynthesisIInv, FilesOK
<1>3. PICK job :
        /\ thread' = [thread EXCEPT ![t] = job]
        /\ \/ job = [thread[t] EXCEPT !.at = "answer"] /\ Excess(DOMAIN files) <= 0
           \/ \E oldest \in OldestOf(DOMAIN files, Excess(DOMAIN files)) :
                  job = [thread[t] EXCEPT !.at = "evict", !.todo = oldest]
  <2>1. \/ /\ Excess(DOMAIN files) <= 0
           /\ thread' = [thread EXCEPT ![t] = [thread[t] EXCEPT !.at = "answer"]]
        \/ \E oldest \in OldestOf(DOMAIN files, Excess(DOMAIN files)) :
               thread' = [thread EXCEPT ![t] =
                            [thread[t] EXCEPT !.at = "evict", !.todo = oldest]]
    BY DEF ListEntries, Moves
  <2>. QED BY <2>1
<1>4. /\ job \in SynthesisJob /\ job.config = thread[t].config /\ job.ask = thread[t].ask
      /\ job.clip = thread[t].clip /\ job.at \in {"answer", "evict"}
      /\ \/ Cardinality(DOMAIN files) <= MaxEntries
         \/ job.at = "evict" /\ Cardinality(DOMAIN files \ job.todo) <= MaxEntries
  <2>1. CASE job = [thread[t] EXCEPT !.at = "answer"] /\ Excess(DOMAIN files) <= 0
    <3>1. Cardinality(DOMAIN files) <= MaxEntries
      BY <1>2, <2>1 DEF Excess
    <3>. QED BY <1>0, <2>1, <3>1 DEF SynthesisJob, Stages
  <2>2. ASSUME NEW oldest \in OldestOf(DOMAIN files, Excess(DOMAIN files)),
               job = [thread[t] EXCEPT !.at = "evict", !.todo = oldest]
        PROVE  /\ job \in SynthesisJob /\ job.config = thread[t].config /\ job.ask = thread[t].ask
               /\ job.clip = thread[t].clip /\ job.at = "evict"
               /\ Cardinality(DOMAIN files \ job.todo) <= MaxEntries
    <3>1. oldest \subseteq DOMAIN files /\ Cardinality(oldest) = Excess(DOMAIN files)
      BY DEF OldestOf, kSubset
    <3>2. Cardinality(DOMAIN files \ oldest)
              = Cardinality(DOMAIN files) - Cardinality(DOMAIN files \cap oldest)
      <4>1. IsFiniteSet(oldest)
        BY <1>2, <3>1, FS_Subset
      <4>. QED BY <1>2, <4>1, FS_Difference
    <3>3. DOMAIN files \cap oldest = oldest
      BY <3>1
    <3>4. Cardinality(DOMAIN files \ oldest) = MaxEntries
      BY <1>2, <3>1, <3>2, <3>3 DEF Excess
    <3>5. oldest \in SUBSET Clip
      BY <1>2, <3>1
    <3>6. /\ job \in SynthesisJob /\ job.config = thread[t].config /\ job.ask = thread[t].ask
          /\ job.clip = thread[t].clip /\ job.at = "evict" /\ job.todo = oldest
      BY <1>0, <2>2, <3>5 DEF SynthesisJob, Stages
    <3>. QED BY <1>2, <3>4, <3>6
  <2>. QED BY <1>3, <2>1, <2>2
<1>5. RequestIsOK(job)'
  BY <1>1, <1>4 DEF RequestIsOK, Working
<1>6. ThreadsOK'
  BY <1>0, <1>3, <1>4, <1>5, OneThreadMoves DEF SynthesisIInv
<1>7. SweepOK'
  BY <1>0, <1>3, <1>4, SweepMoves DEF SynthesisIInv
<1>. QED BY <1>0, <1>6, <1>7 DEF SynthesisIInv, ClockOK, ConfigOK, FilesOK, memory, world

LEMMA EvictKeeps ==
    ASSUME SynthesisIInv, NEW t \in Threads, Evict(t) PROVE SynthesisIInv'
<1>0. /\ UNCHANGED <<world, memory, writes>>
      /\ thread[t] \in SynthesisJob /\ RequestIsOK(thread[t]) /\ thread[t].at = "evict"
      /\ InSweep(t)
  BY ThreadIsAJob DEF SynthesisIInv, Evict, ThreadAt, InSweep
<1>1. /\ thread[t].config \in Settings /\ thread[t].clip = CacheKey(thread[t].config, thread[t].ask)
  BY <1>0 DEF RequestIsOK, Working
<1>2. ASSUME NEW job \in SynthesisJob, thread' = [thread EXCEPT ![t] = job],
             job.config = thread[t].config, job.ask = thread[t].ask, job.clip = thread[t].clip,
             job.at \in {"answer", "evict"}, FilesOK', DOMAIN files' \subseteq DOMAIN files,
             SweptBy(t) => \/ Cardinality(DOMAIN files') <= MaxEntries
                           \/ job.at = "evict" /\ Cardinality(DOMAIN files' \ job.todo) <= MaxEntries
      PROVE  SynthesisIInv'
  <2>1. RequestIsOK(job)'
    BY <1>1, <1>2 DEF RequestIsOK, Working
  <2>2. ThreadsOK'
    BY <1>0, <1>2, <2>1, OneThreadMoves DEF SynthesisIInv
  <2>3. SweepOK'
    BY <1>0, <1>2, SweepMoves DEF SynthesisIInv
  <2>. QED BY <1>0, <1>2, <2>2, <2>3 DEF SynthesisIInv, ClockOK, ConfigOK, memory, world
<1>3. CASE thread[t].todo = {}
  <2>1. PICK job : job = [thread[t] EXCEPT !.at = "answer"]
    OBVIOUS
  <2>2. thread' = [thread EXCEPT ![t] = job] /\ UNCHANGED files
    BY <1>3, <2>1 DEF Evict, Moves
  <2>3. /\ job \in SynthesisJob /\ job.config = thread[t].config /\ job.ask = thread[t].ask
        /\ job.clip = thread[t].clip /\ job.at \in {"answer", "evict"}
    BY <1>0, <2>1 DEF SynthesisJob, Stages
  <2>4. FilesOK' /\ DOMAIN files' \subseteq DOMAIN files
    BY <1>0, <2>2 DEF SynthesisIInv, FilesOK
  <2>5. SweptBy(t) => Cardinality(DOMAIN files') <= MaxEntries
    <3>1. DOMAIN files \ thread[t].todo = DOMAIN files'
      BY <1>3, <2>2
    <3>. QED BY <1>0, <3>1 DEF SweptBy
  <2>. QED BY <1>2, <2>2, <2>3, <2>4, <2>5
<1>4. CASE thread[t].todo # {}
  <2>1. PICK key \in thread[t].todo :
          /\ files' = Without(key)
          /\ thread' = [thread EXCEPT ![t].todo = @ \ {key}, ![t].at = @]
    BY <1>4 DEF Evict, MayBeGone
  <2>2. PICK job : job = [thread[t] EXCEPT !.todo = thread[t].todo \ {key}, !.at = thread[t].at]
    OBVIOUS
  <2>3. thread' = [thread EXCEPT ![t] = job]
    BY <2>1, <2>2 DEF SynthesisIInv, ThreadsOK
  <2>4. /\ job \in SynthesisJob /\ job.config = thread[t].config /\ job.ask = thread[t].ask
        /\ job.clip = thread[t].clip /\ job.at = "evict" /\ job.todo = thread[t].todo \ {key}
    BY <1>0, <2>2 DEF SynthesisJob, Stages
  <2>5. FilesOK' /\ DOMAIN files' = DOMAIN files \ {key}
    BY <1>0, <2>1, FewerAreOK DEF SynthesisIInv
  <2>6. DOMAIN files' \ job.todo = DOMAIN files \ thread[t].todo
    BY <2>1, <2>4, <2>5
  <2>7. SweptBy(t) => job.at = "evict" /\ Cardinality(DOMAIN files' \ job.todo) <= MaxEntries
    BY <1>0, <2>4, <2>6 DEF SweptBy
  <2>. QED BY <1>2, <2>3, <2>4, <2>5, <2>7
<1>. QED BY <1>3, <1>4

-----------------------------------------------------------------------------
(* What was in force stays known, at its time or a later one.              *)
LEMMA LaterStaysOK ==
    ASSUME SynthesisIInv, time' \in Int, time <= time', inForce' \in [Settings -> Int],
           \A s \in Settings : inForce[s] <= inForce'[s],
           UNCHANGED <<memory, files, thread, cut, writes>>
    PROVE  ConfigOK' /\ FilesOK' /\ ThreadsOK' /\ SweepOK'
<1>0. ClockOK /\ ConfigOK /\ ThreadsOK
  BY DEF SynthesisIInv
<1>1. ConfigOK'
  <2>1. ASSUME cachedConfig # NoSettings PROVE inForce'[cachedConfig] >= fetchedAt
    <3>1. cachedConfig \in Settings /\ fetchedAt \in Int /\ inForce[cachedConfig] >= fetchedAt
      BY <1>0, <2>1 DEF ConfigOK
    <3>2. inForce[cachedConfig] \in Int /\ inForce'[cachedConfig] \in Int
          /\ inForce[cachedConfig] <= inForce'[cachedConfig]
      BY <1>0, <3>1 DEF ClockOK
    <3>. QED BY <3>1, <3>2
  <2>. QED BY <1>0, <2>1 DEF ConfigOK, memory
<1>2. ASSUME NEW job \in SynthesisJob, RequestIsOK(job) PROVE RequestIsOK(job)'
  <2>1. \A s \in Settings : inForce[s] \in Int /\ inForce'[s] \in Int /\ inForce[s] <= inForce'[s]
    BY <1>0 DEF ClockOK
  <2>2. job.at \in {"fetch", "adopt"} => job.now <= time'
    BY <1>0, <1>2 DEF RequestIsOK, ClockOK, SynthesisJob
  <2>3. job.at = "adopt" /\ ~job.failed => job.config \in Settings /\ inForce'[job.config] >= job.now
    <3>1. ASSUME job.config \in Settings, inForce[job.config] >= job.now
          PROVE  inForce'[job.config] >= job.now
      <4>1. job.now \in Int
        BY DEF SynthesisJob
      <4>. QED BY <2>1, <3>1, <4>1
    <3>. QED BY <1>2, <3>1 DEF RequestIsOK
  <2>4. ASSUME job.at = "compare", ~job.failed
        PROVE  inForce'[job.config] > job.now - Ttl
               \/ (Ttl = 0 /\ inForce'[job.config] >= job.now)
    <3>1. /\ job.config \in Settings
          /\ inForce[job.config] > job.now - Ttl \/ (Ttl = 0 /\ inForce[job.config] >= job.now)
      BY <1>2, <2>4 DEF RequestIsOK
    <3>2. job.now \in Int /\ Ttl \in Int
      BY SynthesisAssumption DEF SynthesisJob
    <3>. QED BY <2>1, <3>1, <3>2
  <2>. QED BY <1>2, <2>2, <2>3, <2>4 DEF RequestIsOK
<1>3. ThreadsOK'
  BY <1>0, <1>2 DEF ThreadsOK
<1>4. FilesOK' /\ SweepOK'
  BY DEF SynthesisIInv, FilesOK, SweepOK, BoundInSight, SweptBy, InSweep
<1>. QED BY <1>1, <1>3, <1>4

LEMMA EditSettingsKeeps == ASSUME SynthesisIInv, EditSettings PROVE SynthesisIInv'
<1>1. /\ stored' \in Settings /\ inForce' = [inForce EXCEPT ![stored'] = time] /\ time' = time
      /\ UNCHANGED <<memory, files, thread, cut, writes>>
  BY DEF EditSettings
<1>2. /\ inForce \in [Settings -> Int] /\ time \in Int
      /\ \A s \in Settings : inForce[s] <= time /\ inForce[s] \in Int
  BY DEF SynthesisIInv, ClockOK
<1>3. inForce' \in [Settings -> Int] /\ inForce'[stored'] = time
      /\ \A s \in Settings : inForce[s] <= inForce'[s] /\ inForce'[s] <= time
  BY <1>1, <1>2
<1>4. ClockOK'
  BY <1>1, <1>2, <1>3 DEF ClockOK
<1>. QED BY <1>1, <1>2, <1>3, <1>4, LaterStaysOK DEF SynthesisIInv

LEMMA PassTimeKeeps == ASSUME SynthesisIInv, PassTime PROVE SynthesisIInv'
<1>1. /\ stored' = stored /\ inForce' = [inForce EXCEPT ![stored] = time + 1] /\ time' = time + 1
      /\ UNCHANGED <<memory, files, thread, cut, writes>>
  BY DEF PassTime
<1>2. /\ inForce \in [Settings -> Int] /\ time \in Int /\ stored \in Settings
      /\ \A s \in Settings : inForce[s] <= time /\ inForce[s] \in Int
  BY DEF SynthesisIInv, ClockOK
<1>3. /\ time' \in Int /\ time <= time'
      /\ inForce' \in [Settings -> Int] /\ inForce'[stored] = time'
      /\ \A s \in Settings : inForce[s] <= inForce'[s] /\ inForce'[s] <= time'
  BY <1>1, <1>2
<1>4. ClockOK'
  BY <1>1, <1>2, <1>3 DEF ClockOK
<1>. QED BY <1>1, <1>3, <1>4, LaterStaysOK DEF SynthesisIInv

(* A power cut leaves every file as it is, for each is on the disk, and    *)
(* the cache over its bound only where it cut a sweep off.                 *)
LEMMA PowerCutKeeps == ASSUME SynthesisIInv, PowerCut PROVE SynthesisIInv'
<1>1. /\ thread' = [t \in Threads |-> Idle] /\ UNCHANGED <<world, writes>>
      /\ cachedConfig' = NoSettings /\ lastConfig' = NoSettings /\ fetchedAt' = 0
      /\ cut' = (cut \/ \E t \in Threads : InSweep(t))
  BY DEF PowerCut
<1>2. files' = files
  <2>1. files' = [k \in DOMAIN files |->
                    IF files[k].synced THEN files[k] ELSE [files[k] EXCEPT !.clip = Torn]]
    BY DEF PowerCut
  <2>2. files = [k \in DOMAIN files |-> files[k]] /\ \A k \in DOMAIN files : files[k].synced
    BY DEF SynthesisIInv, FilesOK
  <2>. QED BY <2>1, <2>2
<1>3. ClockOK' /\ ConfigOK' /\ FilesOK'
  <2>1. ClockOK'
    BY <1>1 DEF SynthesisIInv, ClockOK, world
  <2>2. ConfigOK'
    BY <1>1 DEF ConfigOK
  <2>3. FilesOK'
    BY <1>1, <1>2 DEF SynthesisIInv, FilesOK
  <2>. QED BY <2>1, <2>2, <2>3
<1>4. ThreadsOK'
  <2>1. PICK job : job = Idle
    OBVIOUS
  <2>2. Idle.at = "idle" /\ Idle.clip = Torn /\ Idle \in SynthesisJob
    BY IdleIsAJob DEF Idle
  <2>3. job \in SynthesisJob /\ RequestIsOK(job)'
    BY <2>1, <2>2 DEF RequestIsOK, Working
  <2>4. thread' = [t \in Threads |-> job]
    BY <1>1, <2>1
  <2>5. ASSUME NEW t \in Threads PROVE RequestIsOK(thread[t])'
    <3>1. thread'[t] = job
      BY <2>4
    <3>. QED BY <2>3, <3>1 DEF RequestIsOK
  <2>. QED BY <2>3, <2>4, <2>5 DEF ThreadsOK
<1>5. SweepOK'
  <2>1. \A t \in Threads : ~InSweep(t)'
    BY <1>1, IdleIsAJob DEF InSweep
  <2>2. ASSUME ~cut' PROVE Cardinality(DOMAIN files) <= MaxEntries
    <3>1. ~cut /\ \A t \in Threads : ~InSweep(t)
      BY <1>1, <2>2
    <3>. QED BY <3>1 DEF SynthesisIInv, SweepOK, BoundInSight, SweptBy, InSweep
  <2>. QED BY <1>2, <2>1, <2>2 DEF SweepOK, BoundInSight
<1>. QED BY <1>3, <1>4, <1>5 DEF SynthesisIInv

LEMMA SynthesisBegins == SynthesisInit => SynthesisIInv
<1>. SUFFICES ASSUME SynthesisInit PROVE SynthesisIInv
  OBVIOUS
<1>1. ClockOK
  <2>1. /\ stored \in Settings /\ time = 0 /\ Ttl \in Nat
        /\ inForce = [s \in Settings |-> IF s = stored THEN 0 ELSE -Ttl - 1]
    BY SynthesisAssumption DEF SynthesisInit
  <2>2. -Ttl - 1 \in Int /\ -Ttl - 1 <= 0
    BY <2>1
  <2>. QED BY <2>1, <2>2 DEF ClockOK
<1>2. ConfigOK
  BY DEF SynthesisInit, ConfigOK
<1>3. DOMAIN files = {} /\ files = <<>> /\ writes = 0
  BY DEF SynthesisInit
<1>4. IsFiniteSet({}) /\ Cardinality({}) = 0
  BY FS_EmptySet
<1>5. FilesOK
  BY <1>3, <1>4 DEF FilesOK
<1>6. ThreadsOK
  <2>1. PICK job : job = Idle
    OBVIOUS
  <2>2. Idle.at = "idle" /\ Idle.clip = Torn /\ Idle \in SynthesisJob
    BY IdleIsAJob DEF Idle
  <2>3. job \in SynthesisJob /\ RequestIsOK(job)
    BY <2>1, <2>2 DEF RequestIsOK, Working
  <2>4. thread = [t \in Threads |-> job]
    BY <2>1 DEF SynthesisInit
  <2>. QED BY <2>3, <2>4 DEF ThreadsOK
<1>7. SweepOK
  BY <1>3, <1>4, SynthesisAssumption DEF SweepOK, BoundInSight
<1>. QED BY <1>1, <1>2, <1>5, <1>6, <1>7 DEF SynthesisIInv

LEMMA SynthesisStepKeeps ==
    SynthesisIInv /\ [SynthesisNext]_synthesisVars => SynthesisIInv'
<1>. SUFFICES ASSUME SynthesisIInv, [SynthesisNext]_synthesisVars PROVE SynthesisIInv'
  OBVIOUS
<1>1. CASE UNCHANGED synthesisVars
  <2>1. UNCHANGED <<world, memory, files, thread, cut, writes>>
    BY <1>1 DEF synthesisVars, world, memory
  <2>2. ClockOK' /\ ConfigOK' /\ FilesOK'
    BY <2>1 DEF SynthesisIInv, ClockOK, ConfigOK, FilesOK, world, memory
  <2>3. ThreadsOK'
    BY <2>1 DEF SynthesisIInv, ThreadsOK, RequestIsOK, world
  <2>4. SweepOK'
    BY <2>1 DEF SynthesisIInv, SweepOK, BoundInSight, SweptBy, InSweep
  <2>. QED BY <2>2, <2>3, <2>4 DEF SynthesisIInv
<1>2. ASSUME NEW t \in Threads, Request(t) PROVE SynthesisIInv'
  BY <1>2, RequestKeeps
<1>3. ASSUME NEW t \in Threads, Progress(t) PROVE SynthesisIInv'
  <2>1. Fetch(t) \/ Adopt(t) \/ Compare(t) \/ Clear(t) \/ Remember(t) => SynthesisIInv'
    BY FetchKeeps, AdoptKeeps, CompareKeeps, ClearKeeps, RememberKeeps
  <2>2. Get(t) \/ Render(t) \/ ReplaceEntry(t) => SynthesisIInv'
    BY GetKeeps, RenderKeeps, ReplaceKeeps
  <2>3. ListEntries(t) \/ Evict(t) => SynthesisIInv'
    BY ListKeeps, EvictKeeps
  <2>4. Answer(t) \/ AnswerError(t) => SynthesisIInv'
    BY AnswersKeep
  <2>. QED BY <1>3, <2>1, <2>2, <2>3, <2>4 DEF Progress
<1>4. EditSettings \/ PassTime \/ PowerCut => SynthesisIInv'
  BY EditSettingsKeeps, PassTimeKeeps, PowerCutKeeps
<1>. QED BY <1>1, <1>2, <1>3, <1>4 DEF SynthesisNext

LEMMA SynthesisInvariance == SynthesisSpec => []SynthesisIInv
BY SynthesisBegins, SynthesisStepKeeps, PTL DEF SynthesisSpec

(* Every announcement answered is the one asked for, in the settings its   *)
(* request was resolved with: whatever is edited, swept, auditioned or cut *)
(* off meanwhile (SynthesizeAnnouncementUseCase._render, AudioCache).      *)
THEOREM ClipStaysAsAsked == SynthesisSpec => []ClipIsAsAsked
<1>1. SynthesisIInv => ClipIsAsAsked
  <2>. SUFFICES ASSUME SynthesisIInv, NEW t \in Threads, ThreadAt(t, "answer")
                PROVE  thread[t].clip = Rendered(thread[t].config, thread[t].ask)
    BY DEF ClipIsAsAsked
  <2>1. thread[t] \in SynthesisJob /\ RequestIsOK(thread[t]) /\ thread[t].at = "answer"
    BY ThreadIsAJob DEF SynthesisIInv, ThreadAt
  <2>2. /\ thread[t].config \in Settings /\ thread[t].ask \in AskRequest
        /\ thread[t].clip = CacheKey(thread[t].config, thread[t].ask)
    BY <2>1 DEF RequestIsOK, Working, SynthesisJob
  <2>. QED BY <2>2, KeyIsAClip
<1>. QED BY <1>1, SynthesisInvariance, PTL

(* The cache is within its bound when its sweeps are over, and none of     *)
(* them fails, for any number of requests that write and sweep at once     *)
(* (AudioCache.put, _evict_down_to_limit).                                 *)
THEOREM CacheStaysKept == SynthesisSpec => []CacheIsKept
<1>1. SynthesisIInv => CacheIsKept
  <2>. SUFFICES ASSUME SynthesisIInv PROVE CacheIsBounded /\ HousekeepingNeverFails
    BY DEF CacheIsKept
  <2>1. CacheIsBounded
    BY DEF SynthesisIInv, SweepOK, BoundInSight, SweptBy, InSweep, CacheIsBounded
  <2>2. ASSUME NEW t \in Threads, ThreadAt(t, "error") PROVE thread[t].clip = Torn
    <3>1. thread[t] \in SynthesisJob /\ RequestIsOK(thread[t]) /\ thread[t].at = "error"
      BY <2>2, ThreadIsAJob DEF SynthesisIInv, ThreadAt
    <3>. QED BY <3>1 DEF RequestIsOK, Stages
  <2>. QED BY <2>1, <2>2 DEF HousekeepingNeverFails
<1>. QED BY <1>1, SynthesisInvariance, PTL

(* The settings a request begins to work with were stored within the last  *)
(* Ttl, however the fetches of several requests overtake each other        *)
(* (CoreApiConfigClient.resolve).                                          *)
THEOREM SettingsStayRecent == SynthesisSpec => []SettingsAreRecent
<1>1. SynthesisIInv => SettingsAreRecent
  BY DEF SynthesisIInv, ThreadsOK, RequestIsOK, SettingsAreRecent, ThreadAt
<1>. QED BY <1>1, SynthesisInvariance, PTL

-----------------------------------------------------------------------------
(* The kiosk.  A request is under way only while the visitor is kept from  *)
(* making another, and before any ticket is shown; the timers are those of *)
(* the ticket shown; whoever has the serial port open is about to write or *)
(* to release it, and who meets another there knows that it was in the way.*)
PageOK ==
    /\ mode \in PrinterModes /\ provider \in PrinterModes
    /\ restricted \in BOOLEAN /\ paired \in BOOLEAN /\ profileRead \in BOOLEAN
    /\ inFlight \in BOOLEAN /\ issuing \in BOOLEAN /\ rendered \in BOOLEAN
    /\ screen \in {"select", "result", "setup", "notice"} /\ shown \in Tickets \cup {NoTicket}
    /\ screen = "result" => shown # NoTicket
    /\ categories \in {"loading", "loaded", "error"}

TimersOK ==
    /\ timers \subseteq [ticket : Tickets, left : 0 .. AutoReturn] /\ age \in 0 .. AutoReturn
    /\ timers # {} => screen = "result"
    /\ \A timer \in timers : timer.left + age = AutoReturn

RequestOK(request) ==
    /\ request \in CreateRequest
    /\ ~request.answered => issued < creation
    /\ request.ticket # NoTicket => request.ticket <= issued /\ request.ticket \notin DOMAIN jobs

CreatesOK ==
    /\ issued \in Nat /\ issued <= creation /\ creation \in 0 .. MaxTickets
    /\ \A request \in creates : RequestOK(request)
    /\ \A request, other \in creates : request = other
    /\ creates # {} => inFlight /\ screen \in {"select", "notice"}

PortStages == {"ports", "open", "write", "release"}

PrintOK(n, job) ==
    /\ job.at \in PortStages => job.by = "usb-serial"
    /\ job.at = "close" => n \in printed
    /\ job.at \in {"release", "ended"} /\ ~job.excused => n \in printed
    /\ job.answer = "204" => n \in printed

PrintsOK ==
    /\ DOMAIN jobs \subseteq 1 .. issued /\ jobs \in [DOMAIN jobs -> Job]
    /\ printed \subseteq DOMAIN jobs
    /\ \A n \in DOMAIN jobs : PrintOK(n, jobs[n])
    /\ \A n, m \in DOMAIN jobs : n # m /\ UsesPort(n) /\ UsesPort(m) => jobs[n].excused
    /\ port # NoPort => /\ port \in DOMAIN jobs /\ jobs[port].by = "usb-serial"
                        /\ jobs[port].at \in {"write", "release"}

KioskIInv == PageOK /\ TimersOK /\ CreatesOK /\ PrintsOK

-----------------------------------------------------------------------------
(* The page *)
LEMMA PageStepsKeep ==
    ASSUME KioskIInv, LoadCategories \/ RenderIssue \/ Pair \/ ChangeMode
    PROVE  KioskIInv'
<1>1. /\ UNCHANGED <<timers, age, screen, inFlight, creates, creation, issued, printing>>
      /\ UNCHANGED <<shown, provider, profileRead, restricted>>
  BY DEF LoadCategories, RenderIssue, Pair, ChangeMode, document, printing, server
<1>2. PageOK'
  <2>1. \/ /\ categories' \in {"loaded", "error"}
           /\ UNCHANGED <<mode, paired, issuing, rendered>>
        \/ rendered' = issuing /\ UNCHANGED <<mode, paired, issuing, categories>>
        \/ paired' = TRUE /\ UNCHANGED <<mode, issuing, rendered, categories>>
        \/ mode' \in PrinterModes /\ UNCHANGED <<paired, issuing, rendered, categories>>
    BY DEF LoadCategories, RenderIssue, Pair, ChangeMode, document, server
  <2>2. PageOK
    BY DEF KioskIInv
  <2>3. mode' \in PrinterModes /\ categories' \in {"loading", "loaded", "error"}
    BY <2>1, <2>2 DEF PageOK
  <2>4. paired' \in BOOLEAN /\ rendered' \in BOOLEAN /\ issuing' \in BOOLEAN
    BY <2>1, <2>2, Zenon DEF PageOK
  <2>. QED BY <1>1, <2>2, <2>3, <2>4 DEF PageOK
<1>3. TimersOK'
  BY <1>1 DEF KioskIInv, TimersOK
<1>4. CreatesOK'
  BY <1>1 DEF KioskIInv, CreatesOK, RequestOK, printing
<1>5. PrintsOK'
  BY <1>1 DEF KioskIInv, PrintsOK, PrintOK, UsesPort, printing
<1>. QED BY <1>2, <1>3, <1>4, <1>5 DEF KioskIInv

LEMMA ReadProfileKeeps == ASSUME KioskIInv, ReadProfile PROVE KioskIInv'
<1>1. /\ UNCHANGED <<mode, restricted, issued, paired, shown, age, categories, inFlight, issuing,
                     rendered, creates, creation, jobs, port, printed>>
      /\ profileRead' = TRUE /\ provider' \in {mode, provider}
      /\ \/ screen' = screen /\ timers' = timers
         \/ screen' = "notice" /\ timers' = {}
  BY DEF ReadProfile, server, printing
<1>2. PageOK'
  BY <1>1 DEF KioskIInv, PageOK
<1>3. TimersOK'
  BY <1>1 DEF KioskIInv, TimersOK
<1>4. CreatesOK'
  BY <1>1 DEF KioskIInv, CreatesOK, RequestOK
<1>5. PrintsOK'
  BY <1>1 DEF KioskIInv, PrintsOK, PrintOK, UsesPort
<1>. QED BY <1>2, <1>3, <1>4, <1>5 DEF KioskIInv

LEMMA SelectKeeps == ASSUME KioskIInv, Select PROVE KioskIInv'
<1>1. /\ UNCHANGED <<mode, restricted, issued, paired, provider, profileRead, categories, inFlight,
                     issuing, rendered, creates, creation, jobs, port, printed>>
      /\ screen' = "select" /\ shown' = NoTicket /\ timers' = {} /\ age' = 0
  BY DEF Select, AfterCleanup, server, printing
<1>2. PageOK'
  BY <1>1 DEF KioskIInv, PageOK
<1>3. TimersOK'
  BY <1>1, KioskAssumption DEF KioskIInv, TimersOK
<1>4. CreatesOK'
  BY <1>1 DEF KioskIInv, CreatesOK, RequestOK
<1>5. PrintsOK'
  BY <1>1 DEF KioskIInv, PrintsOK, PrintOK, UsesPort
<1>. QED BY <1>2, <1>3, <1>4, <1>5 DEF KioskIInv

LEMMA TickKeeps == ASSUME KioskIInv, Tick PROVE KioskIInv'
<1>1. /\ UNCHANGED <<mode, restricted, issued, paired, screen, shown, provider, profileRead,
                     categories, inFlight, issuing, rendered, creates, creation, jobs, port,
                     printed>>
      /\ timers # {} /\ (\A timer \in timers : timer.left # 0)
      /\ timers' = {[timer EXCEPT !.left = @ - 1] : timer \in timers}
      /\ age' = IF screen = "result" THEN age + 1 ELSE age
  BY DEF Tick, Fires, server, printing
<1>2. PageOK'
  BY <1>1 DEF KioskIInv, PageOK
<1>3. TimersOK'
  <2>1. /\ screen = "result" /\ age' = age + 1 /\ age \in 0 .. AutoReturn /\ AutoReturn \in Nat
        /\ timers \subseteq [ticket : Tickets, left : 0 .. AutoReturn]
        /\ \A timer \in timers : timer.left + age = AutoReturn
    BY <1>1, KioskAssumption DEF KioskIInv, TimersOK
  <2>2. ASSUME NEW timer \in timers, NEW next, next = [timer EXCEPT !.left = timer.left - 1]
        PROVE  /\ next \in [ticket : Tickets, left : 0 .. AutoReturn]
               /\ next.left + age' = AutoReturn
    <3>1. /\ timer \in [ticket : Tickets, left : 0 .. AutoReturn] /\ timer.left # 0
          /\ timer.left + age = AutoReturn /\ timer.left \in 0 .. AutoReturn
      BY <1>1, <2>1
    <3>2. timer.left - 1 \in 0 .. AutoReturn /\ (timer.left - 1) + (age + 1) = AutoReturn
      BY <2>1, <3>1
    <3>3. PICK left : left = timer.left - 1
      OBVIOUS
    <3>4. next \in [ticket : Tickets, left : 0 .. AutoReturn] /\ next.left = left
      BY <2>2, <3>1, <3>2, <3>3
    <3>. QED BY <2>1, <3>2, <3>3, <3>4
  <2>3. \A next \in timers' : next \in [ticket : Tickets, left : 0 .. AutoReturn]
                              /\ next.left + age' = AutoReturn
    BY <1>1, <2>2
  <2>4. age' \in 0 .. AutoReturn
    <3>1. PICK timer \in timers : TRUE
      BY <1>1
    <3>2. timer.left \in 0 .. AutoReturn /\ timer.left # 0 /\ timer.left + age = AutoReturn
      BY <1>1, <2>1
    <3>. QED BY <2>1, <3>2
  <2>. QED BY <1>1, <2>1, <2>3, <2>4 DEF TimersOK
<1>4. CreatesOK'
  BY <1>1 DEF KioskIInv, CreatesOK, RequestOK
<1>5. PrintsOK'
  BY <1>1 DEF KioskIInv, PrintsOK, PrintOK, UsesPort
<1>. QED BY <1>2, <1>3, <1>4, <1>5 DEF KioskIInv

LEMMA ChooseKeeps == ASSUME KioskIInv, Choose PROVE KioskIInv'
<1>1. /\ UNCHANGED <<mode, restricted, issued, paired, screen, shown, timers, age, provider,
                     profileRead, categories, rendered, jobs, port, printed>>
      /\ screen = "select" /\ ~inFlight /\ creation < MaxTickets
      /\ inFlight' = TRUE /\ issuing' = TRUE /\ creation' = creation + 1
  BY DEF Choose, IsBusy, server, printing
<1>2. PageOK'
  BY <1>1 DEF KioskIInv, PageOK
<1>3. TimersOK'
  BY <1>1 DEF KioskIInv, TimersOK
<1>4. CreatesOK'
  <2>1. PICK new : new = [id |-> creation', by |-> provider, answered |-> FALSE,
                          ticket |-> NoTicket]
    OBVIOUS
  <2>2. creates' = {new}
    BY <1>1, <2>1 DEF Choose, KioskIInv, CreatesOK
  <2>3. /\ issued \in Nat /\ issued <= creation /\ creation \in 0 .. MaxTickets
        /\ MaxTickets \in Nat
    BY KioskAssumption DEF KioskIInv, CreatesOK
  <2>4. new \in CreateRequest /\ new.ticket = NoTicket
    BY <1>1, <2>1, <2>3 DEF CreateRequest, KioskIInv, PageOK
  <2>5. issued < creation' /\ creation' \in 0 .. MaxTickets /\ issued' <= creation'
    BY <1>1, <2>3
  <2>6. RequestOK(new)'
    BY <1>1, <2>4, <2>5 DEF RequestOK
  <2>. QED BY <1>1, <2>2, <2>3, <2>5, <2>6 DEF CreatesOK
<1>5. PrintsOK'
  BY <1>1 DEF KioskIInv, PrintsOK, PrintOK, UsesPort
<1>. QED BY <1>2, <1>3, <1>4, <1>5 DEF KioskIInv

LEMMA CommitCreateKeeps ==
    ASSUME KioskIInv, NEW request \in creates, CommitCreate(request) PROVE KioskIInv'
<1>1. /\ UNCHANGED <<mode, restricted, paired, document, creation, jobs, port, printed>>
      /\ ~request.answered
  BY DEF CommitCreate, printing
<1>2. PageOK' /\ TimersOK'
  BY <1>1 DEF KioskIInv, PageOK, TimersOK, document
<1>3. PICK next :
        /\ creates' = (creates \ {request}) \cup {next}
        /\ \/ /\ issued' = issued + 1 
              /\ next = [request EXCEPT !.answered = TRUE, !.ticket = issued + 1]
           \/ /\ issued' \in {issued, issued + 1}
              /\ next = [request EXCEPT !.answered = TRUE, !.ticket = NoTicket]
  BY DEF CommitCreate
<1>4. /\ issued \in Nat /\ issued < creation /\ creation \in 0 .. MaxTickets /\ MaxTickets \in Nat
      /\ request \in CreateRequest /\ creates = {request}
  BY <1>1, KioskAssumption DEF KioskIInv, CreatesOK, RequestOK
<1>5. creates' = {next}
  BY <1>3, <1>4
<1>6. DOMAIN jobs \subseteq 1 .. issued
  BY DEF KioskIInv, PrintsOK
<1>7. issued' \in Nat /\ issued' <= creation /\ issued <= issued'
  BY <1>3, <1>4
<1>8. /\ next \in CreateRequest /\ next.answered
      /\ next.ticket # NoTicket => next.ticket = issued + 1 /\ issued' = issued + 1
  <2>1. PICK answered \in BOOLEAN : answered = TRUE
    OBVIOUS
  <2>2. issued + 1 \in Tickets
    BY <1>4 DEF Tickets
  <2>3. PICK ticket \in Tickets \cup {NoTicket} :
          /\ next = [request EXCEPT !.answered = answered, !.ticket = ticket]
          /\ ticket # NoTicket => ticket = issued + 1 /\ issued' = issued + 1
    BY <1>3, <2>1, <2>2
  <2>. QED BY <1>4, <2>1, <2>3 DEF CreateRequest
<1>9. RequestOK(next)'
  <2>1. issued + 1 \notin DOMAIN jobs
    BY <1>4, <1>6
  <2>. QED BY <1>1, <1>4, <1>8, <2>1 DEF RequestOK
<1>10. CreatesOK'
  <2>1. creates # {} /\ inFlight' = inFlight /\ screen' = screen
    BY <1>1 DEF document
  <2>. QED BY <1>1, <1>4, <1>5, <1>7, <1>9, <2>1 DEF KioskIInv, CreatesOK
<1>11. PrintsOK'
  <2>1. 1 .. issued \subseteq 1 .. issued'
    BY <1>4, <1>7
  <2>. QED BY <1>1, <2>1 DEF KioskIInv, PrintsOK, PrintOK, UsesPort
<1>. QED BY <1>2, <1>10, <1>11 DEF KioskIInv

(* The prints that are there when another begins stay what they are; those *)
(* that use the serial port know of it.                                    *)
LEMMA OverlappedKeeps ==
    ASSUME PrintsOK, NEW by \in PrinterModes, NEW n \in DOMAIN jobs
    PROVE  LET job == Overlapped(by)[n]
           IN  /\ job \in Job /\ PrintOK(n, job)
               /\ job.by = jobs[n].by /\ job.at = jobs[n].at
               /\ jobs[n].excused => job.excused
               /\ by = "usb-serial" /\ UsesPort(n) => job.excused
<1>1. jobs[n] \in Job /\ PrintOK(n, jobs[n])
  BY DEF PrintsOK
<1>2. PICK excused \in BOOLEAN : excused = TRUE
  OBVIOUS
<1>3. PICK job : job = [jobs[n] EXCEPT !.excused = excused]
  OBVIOUS
<1>4. /\ job \in Job /\ job.by = jobs[n].by /\ job.at = jobs[n].at /\ job.excused
      /\ job.answer = jobs[n].answer
  BY <1>1, <1>2, <1>3 DEF Job
<1>5. PrintOK(n, job)
  BY <1>1, <1>4 DEF PrintOK
<1>6. Overlapped(by)[n] = IF by = "usb-serial" /\ UsesPort(n) THEN job ELSE jobs[n]
  BY <1>2, <1>3 DEF Overlapped
<1>. QED BY <1>1, <1>4, <1>5, <1>6

LEMMA NewPrintIsOK ==
    ASSUME NEW by \in PrinterModes, NEW n
    PROVE  /\ NewPrint(by) \in Job /\ PrintOK(n, NewPrint(by)) /\ NewPrint(by).by = by
           /\ by = "usb-serial" /\ (\E m \in DOMAIN jobs : UsesPort(m)) => NewPrint(by).excused
<1>1. PICK overlaps \in BOOLEAN :
          overlaps <=> by = "usb-serial" /\ \E m \in DOMAIN jobs : UsesPort(m)
  OBVIOUS
<1>2. PICK stage : stage = IF by = "chrome" THEN "dialog"
                           ELSE IF by = "usb-serial" THEN "ports" ELSE "post"
  OBVIOUS
<1>3. NewPrint(by) = [by |-> by, answer |-> "none", at |-> stage, excused |-> overlaps]
  BY <1>1, <1>2 DEF NewPrint
<1>4. NewPrint(by) \in Job
  BY <1>1, <1>2, <1>3 DEF Job, PrinterModes
<1>. QED BY <1>1, <1>2, <1>3, <1>4 DEF PrintOK, PortStages

LEMMA ReturnKeeps ==
    ASSUME KioskIInv, NEW request \in creates, Return(request) PROVE KioskIInv'
<1>0. KioskIInv
  OBVIOUS
<1>1. /\ UNCHANGED <<mode, restricted, issued, paired, provider, profileRead, creation, port,
                     printed>>
      /\ creates' = creates \ {request} /\ inFlight' = FALSE
  BY DEF Return, server, limits
<1>2. creates' = {} /\ request \in CreateRequest /\ screen \in {"select", "notice"}
  BY <1>1 DEF KioskIInv, CreatesOK, RequestOK
<1>3. CreatesOK'
  BY <1>1, <1>2 DEF KioskIInv, CreatesOK
<1>4. CASE Failed(request)
  <2>1. UNCHANGED <<jobs, screen, shown, timers, age, rendered, categories>> /\ issuing' = FALSE
    BY <1>4 DEF Return
  <2>2. PageOK'
    BY <1>1, <2>1 DEF KioskIInv, PageOK
  <2>3. TimersOK'
    BY <1>1, <2>1 DEF KioskIInv, TimersOK
  <2>4. PrintsOK'
    BY <1>1, <2>1 DEF KioskIInv, PrintsOK, PrintOK, UsesPort
  <2>. QED BY <1>3, <2>2, <2>3, <2>4 DEF KioskIInv
<1>5. CASE ~Failed(request)
  <2>1. /\ request.ticket \in Tickets /\ request.ticket \in 1 .. issued
        /\ request.ticket \notin DOMAIN jobs /\ request.by \in PrinterModes
    BY <1>2, <1>5 DEF KioskIInv, CreatesOK, RequestOK, CreateRequest, Failed, Tickets
  <2>2. /\ jobs' = [n \in DOMAIN jobs \cup {request.ticket} |->
                           IF n = request.ticket THEN NewPrint(request.by)
                           ELSE Overlapped(request.by)[n]]
        /\ \/ UNCHANGED <<screen, shown, timers, age, issuing, rendered, categories>>
           \/ /\ screen # "notice"
              /\ screen' = "result" /\ shown' = request.ticket /\ age' = 0
              /\ timers' = timers \cup {[ticket |-> request.ticket, left |-> AutoReturn]}
              /\ issuing' = FALSE /\ rendered' = FALSE /\ categories' = "loading"
    BY <1>5 DEF Return
  <2>3. PageOK'
    <3>1. request.ticket # NoTicket
      BY <1>5 DEF Failed
    <3>. QED BY <1>0, <1>1, <2>1, <2>2, <3>1 DEF KioskIInv, PageOK
  <2>4. TimersOK'
    <3>1. CASE UNCHANGED <<screen, timers, age>>
      BY <1>0, <3>1 DEF KioskIInv, TimersOK
    <3>2. CASE /\ screen # "notice" /\ screen' = "result" /\ age' = 0
               /\ timers' = timers \cup {[ticket |-> request.ticket, left |-> AutoReturn]}
      <4>1. timers = {}
        BY <1>0, <1>2, <3>2 DEF KioskIInv, TimersOK
      <4>2. PICK timer : timer = [ticket |-> request.ticket, left |-> AutoReturn]
        OBVIOUS
      <4>3. timers' = {timer}
        BY <3>2, <4>1, <4>2
      <4>4. AutoReturn \in 0 .. AutoReturn /\ 0 \in 0 .. AutoReturn /\ AutoReturn + 0 = AutoReturn
        BY KioskAssumption
      <4>5. /\ timer \in [ticket : Tickets, left : 0 .. AutoReturn] /\ timer.left = AutoReturn
        BY <2>1, <4>2, <4>4
      <4>. QED BY <3>2, <4>3, <4>4, <4>5 DEF TimersOK
    <3>. QED BY <2>2, <3>1, <3>2
  <2>5. PrintsOK'
    <3>. DEFINE new == request.ticket
                by == request.by
    <3>0. PrintsOK /\ by \in PrinterModes /\ new \notin DOMAIN jobs /\ new \in 1 .. issued
      BY <2>1 DEF KioskIInv
    <3>1. /\ DOMAIN jobs' = DOMAIN jobs \cup {new} /\ jobs'[new] = NewPrint(by)
          /\ \A n \in DOMAIN jobs : jobs'[n] = Overlapped(by)[n]
          /\ jobs' = [n \in DOMAIN jobs' |-> jobs'[n]]
      BY <2>1, <2>2
    <3>. HIDE DEF new, by
    <3>2. \A n \in DOMAIN jobs' : jobs'[n] \in Job /\ PrintOK(n, jobs'[n])
      BY <3>0, <3>1, OverlappedKeeps, NewPrintIsOK
    <3>3. \A n \in DOMAIN jobs' : PrintOK(n, jobs[n])'
      BY <1>1, <3>2 DEF PrintOK
    <3>4. jobs' \in [DOMAIN jobs' -> Job]
      BY <3>1, <3>2
    <3>5. ASSUME NEW n \in DOMAIN jobs', NEW m \in DOMAIN jobs', n # m, UsesPort(n)', UsesPort(m)'
          PROVE  jobs'[n].excused
      <4>1. \A o \in DOMAIN jobs : UsesPort(o)' => UsesPort(o)
        <5>. SUFFICES ASSUME NEW o \in DOMAIN jobs, UsesPort(o)' PROVE UsesPort(o)
          OBVIOUS
        <5>1. jobs'[o].by = jobs[o].by /\ jobs'[o].at = jobs[o].at
          BY <3>0, <3>1, OverlappedKeeps
        <5>. QED BY <5>1 DEF UsesPort
      <4>2. CASE n = new
        <5>1. m \in DOMAIN jobs /\ UsesPort(m)
          BY <3>1, <3>5, <4>1, <4>2
        <5>2. by = "usb-serial"
          BY <3>0, <3>1, <3>5, <4>2, NewPrintIsOK DEF UsesPort
        <5>. QED BY <3>0, <3>1, <4>2, <5>1, <5>2, NewPrintIsOK
      <4>3. CASE n # new /\ m = new
        <5>1. n \in DOMAIN jobs /\ UsesPort(n)
          BY <3>1, <3>5, <4>1, <4>3
        <5>2. by = "usb-serial"
          BY <3>0, <3>1, <3>5, <4>3, NewPrintIsOK DEF UsesPort
        <5>. QED BY <3>0, <3>1, <5>1, <5>2, OverlappedKeeps
      <4>4. CASE n # new /\ m # new
        <5>1. n \in DOMAIN jobs /\ m \in DOMAIN jobs /\ UsesPort(n) /\ UsesPort(m)
          BY <3>1, <3>5, <4>1, <4>4
        <5>2. jobs[n].excused
          BY <3>0, <3>5, <5>1 DEF PrintsOK
        <5>. QED BY <3>0, <3>1, <5>1, <5>2, OverlappedKeeps
      <4>. QED BY <4>2, <4>3, <4>4
    <3>6. ASSUME port # NoPort
          PROVE  /\ port \in DOMAIN jobs' /\ jobs'[port].by = "usb-serial"
                 /\ jobs'[port].at \in {"write", "release"}
      <4>1. port \in DOMAIN jobs /\ jobs[port].by = "usb-serial" /\ jobs[port].at \in {"write", "release"}
        BY <3>0, <3>6 DEF PrintsOK
      <4>. QED BY <3>0, <3>1, <4>1, OverlappedKeeps
    <3>7. DOMAIN jobs' \subseteq 1 .. issued /\ printed \subseteq DOMAIN jobs'
      BY <3>0, <3>1 DEF PrintsOK
    <3>. QED BY <1>1, <3>3, <3>4, <3>5, <3>6, <3>7 DEF PrintsOK
  <2>. QED BY <1>3, <2>3, <2>4, <2>5 DEF KioskIInv
<1>. QED BY <1>4, <1>5

LEMMA ReloadKeeps == ASSUME KioskIInv, Reload PROVE KioskIInv'
<1>1. /\ UNCHANGED <<mode, restricted, paired, creation, printed>>
      /\ screen' \in {"select", "setup"} /\ shown' = NoTicket /\ timers' = {} /\ age' = 0
      /\ provider' = "chrome" /\ profileRead' = FALSE /\ categories' = "loading"
      /\ inFlight' = FALSE /\ issuing' = FALSE /\ rendered' = FALSE
      /\ creates' = {} /\ port' = NoPort
      /\ \/ issued' = issued
         \/ (\E request \in creates : ~request.answered) /\ issued' = issued + 1
  BY DEF Reload
<1>2. PageOK'
  BY <1>1 DEF KioskIInv, PageOK, PrinterModes
<1>3. TimersOK'
  BY <1>1, KioskAssumption DEF TimersOK
<1>4. /\ issued \in Nat /\ issued' \in Nat /\ issued <= issued' /\ issued' <= creation
      /\ creation \in 0 .. MaxTickets
  <2>1. /\ issued \in Nat /\ issued <= creation /\ creation \in 0 .. MaxTickets
        /\ \A request \in creates : ~request.answered => issued < creation
    BY DEF KioskIInv, CreatesOK, RequestOK
  <2>. QED BY <1>1, <2>1, KioskAssumption
<1>5. CreatesOK'
  BY <1>1, <1>4 DEF CreatesOK
<1>6. PrintsOK'
  <2>1. jobs' = [n \in DOMAIN jobs |-> IF jobs[n].at = "ended" THEN jobs[n]
                                      ELSE [jobs[n] EXCEPT !.at = "ended", !.excused = TRUE]]
    BY DEF Reload
  <2>2. ASSUME NEW n \in DOMAIN jobs
        PROVE  jobs'[n] \in Job /\ PrintOK(n, jobs'[n]) /\ jobs'[n].at = "ended"
    <3>1. jobs[n] \in Job /\ PrintOK(n, jobs[n])
      BY DEF KioskIInv, PrintsOK
    <3>2. PICK excused \in BOOLEAN : excused = TRUE
      OBVIOUS
    <3>3. PICK job : job = [jobs[n] EXCEPT !.at = "ended", !.excused = excused]
      OBVIOUS
    <3>4. job \in Job /\ job.at = "ended" /\ job.excused /\ job.answer = jobs[n].answer
      BY <3>1, <3>2, <3>3 DEF Job
    <3>5. PrintOK(n, job)
      BY <3>1, <3>4 DEF PrintOK, PortStages
    <3>6. jobs'[n] = IF jobs[n].at = "ended" THEN jobs[n] ELSE job
      BY <2>1, <3>2, <3>3
    <3>. QED BY <3>1, <3>4, <3>5, <3>6
  <2>3. DOMAIN jobs' = DOMAIN jobs /\ jobs' \in [DOMAIN jobs' -> Job]
    BY <2>1, <2>2
  <2>4. \A n \in DOMAIN jobs' : PrintOK(n, jobs[n])' /\ ~UsesPort(n)'
    BY <1>1, <2>2, <2>3 DEF PrintOK, UsesPort
  <2>5. DOMAIN jobs' \subseteq 1 .. issued' /\ printed' \subseteq DOMAIN jobs'
    <3>1. 1 .. issued \subseteq 1 .. issued'
      BY <1>4
    <3>. QED BY <1>1, <2>3, <3>1 DEF KioskIInv, PrintsOK
  <2>. QED BY <1>1, <2>3, <2>4, <2>5 DEF PrintsOK
<1>. QED BY <1>2, <1>3, <1>5, <1>6 DEF KioskIInv

-----------------------------------------------------------------------------
(* The prints.  One moves on from a stage that is not its last.            *)
LEMMA PrintMoves ==
    ASSUME KioskIInv, PrintStep, NEW n \in DOMAIN jobs, NEW job \in Job,
           jobs' = [jobs EXCEPT ![n] = job], jobs[n].at # "ended",
           job.by = jobs[n].by, jobs[n].excused => job.excused,
           printed \subseteq printed', printed' \subseteq printed \cup {n},
           PrintOK(n, job)',
           \/ port' = NoPort
           \/ port' = port /\ (port = n => job.at \in {"write", "release"})
           \/ port' = n /\ job.by = "usb-serial" /\ job.at \in {"write", "release"}
    PROVE  KioskIInv'
<1>0. PrintsOK
  BY DEF KioskIInv
<1>1. /\ PageOK' /\ TimersOK'
  BY DEF PrintStep, KioskIInv, PageOK, TimersOK, document, server
<1>2. /\ DOMAIN jobs' = DOMAIN jobs /\ jobs'[n] = job
      /\ \A m \in DOMAIN jobs : m # n => jobs'[m] = jobs[m]
      /\ jobs' \in [DOMAIN jobs' -> Job]
  BY <1>0 DEF PrintsOK
<1>3. CreatesOK'
  BY <1>2 DEF PrintStep, KioskIInv, CreatesOK, RequestOK, document, server
<1>4. \A m \in DOMAIN jobs' : PrintOK(m, jobs[m])'
  BY <1>0, <1>2 DEF PrintsOK, PrintOK
<1>5. \A m \in DOMAIN jobs : UsesPort(m)' => UsesPort(m)
  BY <1>2 DEF UsesPort
<1>6. \A m, o \in DOMAIN jobs' : m # o /\ UsesPort(m)' /\ UsesPort(o)' => jobs'[m].excused
  BY <1>0, <1>2, <1>5 DEF PrintsOK
<1>7. port' # NoPort => /\ port' \in DOMAIN jobs' /\ jobs'[port'].by = "usb-serial"
                        /\ jobs'[port'].at \in {"write", "release"}
  BY <1>0, <1>2 DEF PrintsOK
<1>8. DOMAIN jobs' \subseteq 1 .. issued' /\ printed' \subseteq DOMAIN jobs'
  BY <1>0, <1>2 DEF PrintStep, PrintsOK, server
<1>9. PrintsOK'
  BY <1>2, <1>4, <1>6, <1>7, <1>8 DEF PrintsOK
<1>. QED BY <1>1, <1>3, <1>9 DEF KioskIInv

(* A print that fails, and says so; and one that only goes on.             *)
LEMMA ExcusedJob ==
    ASSUME KioskIInv, NEW n \in DOMAIN jobs, NEW stage,
           stage \in {"ended", "release"}, stage = "release" => jobs[n].by = "usb-serial"
    PROVE  \E job \in Job :
              /\ Excused(n, stage) = [jobs EXCEPT ![n] = job]
              /\ job.by = jobs[n].by /\ job.at = stage /\ job.excused
              /\ job.answer = jobs[n].answer
<1>1. jobs[n] \in Job
  BY DEF KioskIInv, PrintsOK
<1>2. PICK excused \in BOOLEAN : excused = TRUE
  OBVIOUS
<1>3. PICK job : job = [jobs[n] EXCEPT !.at = stage, !.excused = excused]
  OBVIOUS
<1>4. /\ job \in Job /\ job.by = jobs[n].by /\ job.at = stage /\ job.excused
      /\ job.answer = jobs[n].answer
  BY <1>1, <1>2, <1>3 DEF Job
<1>5. Excused(n, stage) = [jobs EXCEPT ![n] = job]
  BY <1>2, <1>3 DEF Excused
<1>. QED BY <1>4, <1>5

LEMMA JobGoesOn ==
    ASSUME KioskIInv, NEW n \in DOMAIN jobs, NEW stage,
           stage \in {"connect", "flush", "close", "open", "write", "release", "ended"}
    PROVE  \E job \in Job :
              /\ [jobs EXCEPT ![n].at = stage] = [jobs EXCEPT ![n] = job]
              /\ job.by = jobs[n].by /\ job.at = stage /\ job.excused = jobs[n].excused
              /\ job.answer = jobs[n].answer
<1>1. jobs[n] \in Job
  BY DEF KioskIInv, PrintsOK
<1>2. PICK job : job = [jobs[n] EXCEPT !.at = stage]
  OBVIOUS
<1>3. /\ job \in Job /\ job.by = jobs[n].by /\ job.at = stage /\ job.excused = jobs[n].excused
      /\ job.answer = jobs[n].answer
  BY <1>1, <1>2 DEF Job
<1>. QED BY <1>2, <1>3

LEMMA PrintAtHand ==
    ASSUME KioskIInv, NEW n \in DOMAIN jobs
    PROVE  /\ jobs[n] \in Job /\ PrintOK(n, jobs[n]) /\ n \in Nat /\ n # NoPort
           /\ port = n => jobs[n].by = "usb-serial" /\ jobs[n].at \in {"write", "release"}
<1>1. n \in 1 .. issued /\ issued \in Nat
  BY DEF KioskIInv, PrintsOK, CreatesOK
<1>2. n \in Nat /\ n # NoPort
  BY <1>1, KioskAssumption
<1>. QED BY <1>2 DEF KioskIInv, PrintsOK

LEMMA PrintByChromeKeeps ==
    ASSUME KioskIInv, NEW n \in DOMAIN jobs, PrintByChrome(n) PROVE KioskIInv'
<1>1. /\ jobs[n].at = "dialog" /\ UNCHANGED port /\ PrintStep /\ PrintOK(n, jobs[n]) /\ port # n
  BY PrintAtHand DEF PrintByChrome, JobAt
<1>2. CASE printed' = printed \cup {n} /\ jobs' = Ends(n)
  <2>1. PICK job \in Job :
              /\ [jobs EXCEPT ![n].at = "ended"] = [jobs EXCEPT ![n] = job]
              /\ job.by = jobs[n].by /\ job.at = "ended" /\ job.excused = jobs[n].excused
              /\ job.answer = jobs[n].answer
    BY JobGoesOn
  <2>2. PrintOK(n, job)'
    BY <1>2, <2>1 DEF PrintOK, PortStages
  <2>. QED BY <1>1, <1>2, <2>1, <2>2, PrintMoves DEF Ends
<1>3. CASE jobs' = Excused(n, "ended") /\ UNCHANGED printed
  <2>1. PICK job \in Job :
              /\ Excused(n, "ended") = [jobs EXCEPT ![n] = job]
              /\ job.by = jobs[n].by /\ job.at = "ended" /\ job.excused
              /\ job.answer = jobs[n].answer
    BY ExcusedJob
  <2>2. PrintOK(n, job)'
    BY <1>1, <1>3, <2>1 DEF PrintOK, PortStages
  <2>. QED BY <1>1, <1>3, <2>1, <2>2, PrintMoves
<1>. QED BY <1>2, <1>3 DEF PrintByChrome

LEMMA AnsweredJob ==
    ASSUME NEW job \in Job, NEW answer \in {"204", "409", "502"}
    PROVE  \E next \in Job :
              /\ next = [job EXCEPT !.answer = answer]
              /\ next.by = job.by /\ next.at = job.at /\ next.excused = job.excused
              /\ next.answer = answer
<1>1. PICK next : next = [job EXCEPT !.answer = answer]
  OBVIOUS
<1>2. /\ next \in Job /\ next.by = job.by /\ next.at = job.at /\ next.excused = job.excused
      /\ next.answer = answer
  BY <1>1 DEF Job
<1>. QED BY <1>1, <1>2

(* The network printer: what core-api answers.                             *)
LEMMA PostKeeps ==
    ASSUME KioskIInv, NEW n \in DOMAIN jobs, Post(n) PROVE KioskIInv'
<1>1. /\ jobs[n].at = "post" /\ UNCHANGED <<port, printed>> /\ PrintStep
      /\ PrintOK(n, jobs[n]) /\ port # n
  BY PrintAtHand DEF Post, JobAt
<1>2. CASE jobs' = [jobs EXCEPT ![n].at = "connect"]
  <2>1. PICK job \in Job :
              /\ [jobs EXCEPT ![n].at = "connect"] = [jobs EXCEPT ![n] = job]
              /\ job.by = jobs[n].by /\ job.at = "connect" /\ job.excused = jobs[n].excused
              /\ job.answer = jobs[n].answer
    BY JobGoesOn
  <2>2. PrintOK(n, job)'
    BY <1>1, <2>1 DEF PrintOK, PortStages
  <2>. QED BY <1>1, <1>2, <2>1, <2>2, PrintMoves
<1>3. CASE jobs' = [Excused(n, "ended") EXCEPT ![n].answer = "409"]
  <2>1. PICK job \in Job :
              /\ Excused(n, "ended") = [jobs EXCEPT ![n] = job]
              /\ job.by = jobs[n].by /\ job.at = "ended" /\ job.excused
              /\ job.answer = jobs[n].answer
    BY ExcusedJob
  <2>2. PICK next \in Job :
              /\ next = [job EXCEPT !.answer = "409"]
              /\ next.by = job.by /\ next.at = job.at /\ next.excused = job.excused
              /\ next.answer = "409"
    BY AnsweredJob
  <2>3. jobs' = [jobs EXCEPT ![n] = next]
    BY <1>3, <2>1, <2>2
  <2>4. PrintOK(n, next)'
    BY <1>1, <2>1, <2>2 DEF PrintOK, PortStages
  <2>. QED BY <1>1, <2>1, <2>2, <2>3, <2>4, PrintMoves
<1>. QED BY <1>2, <1>3 DEF Post

LEMMA SocketGoesOnKeeps ==
    ASSUME KioskIInv, NEW n \in DOMAIN jobs, Connect(n) \/ Flush(n) PROVE KioskIInv'
<1>1. /\ jobs[n].at \in {"connect", "flush"} /\ UNCHANGED port /\ PrintStep
      /\ PrintOK(n, jobs[n]) /\ port # n
  BY PrintAtHand DEF Connect, Flush, JobAt
<1>2. PICK stage \in {"flush", "close"} :
          /\ jobs' = [jobs EXCEPT ![n].at = stage]
          /\ printed' = IF stage = "close" THEN printed \cup {n} ELSE printed
  BY DEF Connect, Flush
<1>3. stage \in {"connect", "flush", "close", "open", "write", "release", "ended"}
  BY <1>2
<1>4. jobs[n] \in Job
  BY DEF KioskIInv, PrintsOK
<1>5. PICK job : job = [jobs[n] EXCEPT !.at = stage]
  OBVIOUS
<1>6. /\ job \in Job /\ job.by = jobs[n].by /\ job.at = stage /\ job.excused = jobs[n].excused
      /\ job.answer = jobs[n].answer
  BY <1>3, <1>4, <1>5 DEF Job
<1>7. /\ job \in Job /\ [jobs EXCEPT ![n].at = stage] = [jobs EXCEPT ![n] = job]
      /\ job.by = jobs[n].by /\ job.at = stage /\ job.excused = jobs[n].excused
      /\ job.answer = jobs[n].answer
  BY <1>5, <1>6
<1>8. /\ printed \subseteq printed' /\ printed' \subseteq printed \cup {n}
      /\ stage = "close" => n \in printed'
  BY <1>2
<1>9. PrintOK(n, job)'
  <2>1. job.at \in {"flush", "close"} /\ (job.at = "close" => n \in printed')
    <3>1. stage \in {"flush", "close"}
      BY <1>2
    <3>. QED BY <1>7, <1>8, <3>1
  <2>2. job.answer = "204" => n \in printed'
    BY <1>1, <1>7, <1>8 DEF PrintOK
  <2>. QED BY <2>1, <2>2 DEF PrintOK, PortStages
<1>. QED BY <1>1, <1>2, <1>7, <1>8, <1>9, PrintMoves

LEMMA SocketEndsKeeps ==
    ASSUME KioskIInv, NEW n \in DOMAIN jobs, CloseSocket(n) \/ SocketFails(n) PROVE KioskIInv'
<1>1. /\ jobs[n].at \in {"connect", "flush", "close"} /\ UNCHANGED <<port, printed>> /\ PrintStep
      /\ PrintOK(n, jobs[n]) /\ port # n
  BY PrintAtHand DEF CloseSocket, SocketFails, JobAt
<1>2. CASE CloseSocket(n)
  <2>1. PICK job \in Job :
              /\ [jobs EXCEPT ![n].at = "ended"] = [jobs EXCEPT ![n] = job]
              /\ job.by = jobs[n].by /\ job.at = "ended" /\ job.excused = jobs[n].excused
              /\ job.answer = jobs[n].answer
    BY JobGoesOn
  <2>2. PICK next \in Job :
              /\ next = [job EXCEPT !.answer = "204"]
              /\ next.by = job.by /\ next.at = job.at /\ next.excused = job.excused
              /\ next.answer = "204"
    BY AnsweredJob
  <2>3. jobs' = [jobs EXCEPT ![n] = next] /\ n \in printed
    BY <1>1, <1>2, <2>1, <2>2 DEF CloseSocket, Ends, JobAt, PrintOK
  <2>4. PrintOK(n, next)'
    BY <1>1, <2>1, <2>2, <2>3 DEF PrintOK, PortStages
  <2>. QED BY <1>1, <2>1, <2>2, <2>3, <2>4, PrintMoves
<1>3. CASE SocketFails(n)
  <2>1. PICK job \in Job :
              /\ Excused(n, "ended") = [jobs EXCEPT ![n] = job]
              /\ job.by = jobs[n].by /\ job.at = "ended" /\ job.excused
              /\ job.answer = jobs[n].answer
    BY ExcusedJob
  <2>2. PICK next \in Job :
              /\ next = [job EXCEPT !.answer = "502"]
              /\ next.by = job.by /\ next.at = job.at /\ next.excused = job.excused
              /\ next.answer = "502"
    BY AnsweredJob
  <2>3. jobs' = [jobs EXCEPT ![n] = next]
    BY <1>3, <2>1, <2>2 DEF SocketFails, TimedOut
  <2>4. PrintOK(n, next)'
    BY <1>1, <2>1, <2>2 DEF PrintOK, PortStages
  <2>. QED BY <1>1, <2>1, <2>2, <2>3, <2>4, PrintMoves
<1>. QED BY <1>2, <1>3

-----------------------------------------------------------------------------
(* The serial port *)
LEMMA GetPortsKeeps ==
    ASSUME KioskIInv, NEW n \in DOMAIN jobs, GetPorts(n) PROVE KioskIInv'
<1>1. /\ jobs[n].at = "ports" /\ UNCHANGED <<port, printed>> /\ PrintStep
      /\ PrintOK(n, jobs[n]) /\ port # n
  BY PrintAtHand DEF GetPorts, JobAt
<1>2. CASE jobs' = [jobs EXCEPT ![n].at = "open"]
  <2>1. PICK job \in Job :
              /\ [jobs EXCEPT ![n].at = "open"] = [jobs EXCEPT ![n] = job]
              /\ job.by = jobs[n].by /\ job.at = "open" /\ job.excused = jobs[n].excused
              /\ job.answer = jobs[n].answer
    BY JobGoesOn
  <2>2. PrintOK(n, job)'
    BY <1>1, <2>1 DEF PrintOK, PortStages
  <2>. QED BY <1>1, <1>2, <2>1, <2>2, PrintMoves
<1>3. CASE jobs' = Excused(n, "ended")
  <2>1. PICK job \in Job :
              /\ Excused(n, "ended") = [jobs EXCEPT ![n] = job]
              /\ job.by = jobs[n].by /\ job.at = "ended" /\ job.excused
              /\ job.answer = jobs[n].answer
    BY ExcusedJob
  <2>2. PrintOK(n, job)'
    BY <1>1, <2>1 DEF PrintOK, PortStages
  <2>. QED BY <1>1, <1>3, <2>1, <2>2, PrintMoves
<1>. QED BY <1>2, <1>3 DEF GetPorts

(* Who meets an open port was told of the print that has it.               *)
LEMMA OpenPortKeeps ==
    ASSUME KioskIInv, NEW n \in DOMAIN jobs, OpenPort(n) PROVE KioskIInv'
<1>1. /\ jobs[n].at = "open" /\ UNCHANGED printed /\ PrintStep
      /\ PrintOK(n, jobs[n]) /\ port # n /\ jobs[n].by = "usb-serial"
  BY PrintAtHand DEF OpenPort, JobAt, PrintOK, PortStages
<1>2. CASE port = NoPort /\ port' = n /\ jobs' = [jobs EXCEPT ![n].at = "write"]
  <2>1. PICK job \in Job :
              /\ [jobs EXCEPT ![n].at = "write"] = [jobs EXCEPT ![n] = job]
              /\ job.by = jobs[n].by /\ job.at = "write" /\ job.excused = jobs[n].excused
              /\ job.answer = jobs[n].answer
    BY JobGoesOn
  <2>2. PrintOK(n, job)'
    BY <1>1, <2>1 DEF PrintOK, PortStages
  <2>. QED BY <1>1, <1>2, <2>1, <2>2, PrintMoves
<1>3. CASE port # NoPort /\ jobs' = Ends(n) /\ UNCHANGED port
  <2>1. PICK job \in Job :
              /\ [jobs EXCEPT ![n].at = "ended"] = [jobs EXCEPT ![n] = job]
              /\ job.by = jobs[n].by /\ job.at = "ended" /\ job.excused = jobs[n].excused
              /\ job.answer = jobs[n].answer
    BY JobGoesOn
  <2>2. jobs[n].excused
    <3>1. port \in DOMAIN jobs /\ UsesPort(port) /\ UsesPort(n)
      BY <1>1, <1>3 DEF KioskIInv, PrintsOK, UsesPort
    <3>. QED BY <1>1, <3>1 DEF KioskIInv, PrintsOK
  <2>3. PrintOK(n, job)'
    BY <1>1, <2>1, <2>2 DEF PrintOK, PortStages
  <2>. QED BY <1>1, <1>3, <2>1, <2>3, PrintMoves DEF Ends
<1>4. CASE jobs' = Excused(n, "ended") /\ UNCHANGED port
  <2>1. PICK job \in Job :
              /\ Excused(n, "ended") = [jobs EXCEPT ![n] = job]
              /\ job.by = jobs[n].by /\ job.at = "ended" /\ job.excused
              /\ job.answer = jobs[n].answer
    BY ExcusedJob
  <2>2. PrintOK(n, job)'
    BY <1>1, <2>1 DEF PrintOK, PortStages
  <2>. QED BY <1>1, <1>4, <2>1, <2>2, PrintMoves
<1>. QED BY <1>2, <1>3, <1>4 DEF OpenPort

LEMMA WriteToPortKeeps ==
    ASSUME KioskIInv, NEW n \in DOMAIN jobs, WriteToPort(n) PROVE KioskIInv'
<1>1. /\ jobs[n].at = "write" /\ UNCHANGED port /\ PrintStep
      /\ PrintOK(n, jobs[n]) /\ jobs[n].by = "usb-serial"
  BY PrintAtHand DEF WriteToPort, JobAt, PrintOK, PortStages
<1>2. CASE printed' = printed \cup {n} /\ jobs' = [jobs EXCEPT ![n].at = "release"]
  <2>1. PICK job \in Job :
              /\ [jobs EXCEPT ![n].at = "release"] = [jobs EXCEPT ![n] = job]
              /\ job.by = jobs[n].by /\ job.at = "release" /\ job.excused = jobs[n].excused
              /\ job.answer = jobs[n].answer
    BY JobGoesOn
  <2>2. PrintOK(n, job)'
    BY <1>1, <1>2, <2>1 DEF PrintOK, PortStages
  <2>. QED BY <1>1, <1>2, <2>1, <2>2, PrintMoves
<1>3. CASE jobs' = Excused(n, "release") /\ UNCHANGED printed
  <2>1. PICK job \in Job :
              /\ Excused(n, "release") = [jobs EXCEPT ![n] = job]
              /\ job.by = jobs[n].by /\ job.at = "release" /\ job.excused
              /\ job.answer = jobs[n].answer
    BY <1>1, ExcusedJob
  <2>2. PrintOK(n, job)'
    BY <1>1, <1>3, <2>1 DEF PrintOK, PortStages
  <2>. QED BY <1>1, <1>3, <2>1, <2>2, PrintMoves
<1>. QED BY <1>2, <1>3 DEF WriteToPort, AfterFailedWrite

LEMMA ClosePortKeeps ==
    ASSUME KioskIInv, NEW n \in DOMAIN jobs, ClosePort(n) PROVE KioskIInv'
<1>1. /\ jobs[n].at = "release" /\ UNCHANGED printed /\ PrintStep
      /\ PrintOK(n, jobs[n]) /\ port' = NoPort /\ jobs' = Ends(n)
  BY PrintAtHand DEF ClosePort, JobAt
<1>2. PICK job \in Job :
              /\ [jobs EXCEPT ![n].at = "ended"] = [jobs EXCEPT ![n] = job]
              /\ job.by = jobs[n].by /\ job.at = "ended" /\ job.excused = jobs[n].excused
              /\ job.answer = jobs[n].answer
  BY JobGoesOn
<1>3. PrintOK(n, job)'
  BY <1>1, <1>2 DEF PrintOK, PortStages
<1>. QED BY <1>1, <1>2, <1>3, PrintMoves DEF Ends

-----------------------------------------------------------------------------
LEMMA KioskBegins == KioskInit => KioskIInv
<1>. SUFFICES ASSUME KioskInit PROVE KioskIInv
  OBVIOUS
<1>1. PageOK
  BY DEF KioskInit, PageOK, PrinterModes
<1>2. TimersOK /\ CreatesOK
  BY KioskAssumption DEF KioskInit, TimersOK, CreatesOK
<1>3. PrintsOK
  <2>1. jobs = <<>> /\ DOMAIN jobs = {} /\ printed = {} /\ port = NoPort
    BY DEF KioskInit
  <2>. QED BY <2>1 DEF PrintsOK
<1>. QED BY <1>1, <1>2, <1>3 DEF KioskIInv

LEMMA KioskStepKeeps == KioskIInv /\ [KioskNext]_kioskVars => KioskIInv'
<1>. SUFFICES ASSUME KioskIInv, [KioskNext]_kioskVars PROVE KioskIInv'
  OBVIOUS
<1>1. CASE UNCHANGED kioskVars
  <2>1. UNCHANGED <<server, document, printing, creates, creation, paired>>
    BY <1>1 DEF kioskVars
  <2>2. PageOK' /\ TimersOK'
    BY <2>1 DEF KioskIInv, PageOK, TimersOK, document, server
  <2>3. CreatesOK' /\ PrintsOK'
    BY <2>1 DEF KioskIInv, CreatesOK, RequestOK, PrintsOK, PrintOK, UsesPort, document, server,
                printing
  <2>. QED BY <2>2, <2>3 DEF KioskIInv
<1>2. ReadProfile \/ LoadCategories \/ Choose \/ RenderIssue => KioskIInv'
  BY ReadProfileKeeps, PageStepsKeep, ChooseKeeps
<1>3. TapDone \/ ReturnByTimer \/ LeaveSetup => KioskIInv'
  BY SelectKeeps DEF TapDone, ReturnByTimer, LeaveSetup
<1>4. Tick \/ Reload \/ Pair \/ ChangeMode => KioskIInv'
  BY TickKeeps, ReloadKeeps, PageStepsKeep
<1>5. ASSUME NEW request \in creates, CommitCreate(request) \/ Return(request) PROVE KioskIInv'
  BY <1>5, CommitCreateKeeps, ReturnKeeps
<1>6. ASSUME NEW n \in DOMAIN jobs, PrintNext(n) PROVE KioskIInv'
  <2>1. PrintByChrome(n) \/ Post(n) \/ Connect(n) \/ Flush(n) => KioskIInv'
    BY PrintByChromeKeeps, PostKeeps, SocketGoesOnKeeps
  <2>2. CloseSocket(n) \/ SocketFails(n) \/ GetPorts(n) => KioskIInv'
    BY SocketEndsKeeps, GetPortsKeeps
  <2>3. OpenPort(n) \/ WriteToPort(n) \/ ClosePort(n) => KioskIInv'
    BY OpenPortKeeps, WriteToPortKeeps, ClosePortKeeps
  <2>. QED BY <1>6, <2>1, <2>2, <2>3 DEF PrintNext
<1>. QED BY <1>1, <1>2, <1>3, <1>4, <1>5, <1>6 DEF KioskNext

LEMMA KioskInvariance == KioskSpec => []KioskIInv
BY KioskBegins, KioskStepKeeps, PTL DEF KioskSpec

LEMMA KioskIsTyped == KioskIInv => KioskTypeOK
<1>. SUFFICES ASSUME KioskIInv PROVE KioskTypeOK
  OBVIOUS
<1>1. {restricted, paired, profileRead, inFlight, issuing, rendered} \subseteq BOOLEAN
  BY DEF KioskIInv, PageOK
<1>2. creates \subseteq CreateRequest
  BY DEF KioskIInv, CreatesOK, RequestOK
<1>3. \A n \in DOMAIN jobs : n \in Tickets /\ jobs[n] \in Job
  <2>. SUFFICES ASSUME NEW n \in DOMAIN jobs PROVE n \in Tickets /\ jobs[n] \in Job
    OBVIOUS
  <2>1. n \in 1 .. issued /\ issued \in Nat /\ issued <= creation /\ creation \in 0 .. MaxTickets
    BY DEF KioskIInv, PrintsOK, CreatesOK
  <2>2. n \in 1 .. MaxTickets
    BY <2>1, KioskAssumption
  <2>. QED BY <2>2, PrintAtHand DEF Tickets
<1>4. port \in DOMAIN jobs \cup {NoPort} /\ printed \subseteq DOMAIN jobs
  BY DEF KioskIInv, PrintsOK
<1>. QED BY <1>1, <1>2, <1>3, <1>4 DEF KioskIInv, PageOK, TimersOK, CreatesOK, KioskTypeOK

(* One ticket per visitor, however fast the taps; and a receipt for every  *)
(* ticket whose print nothing was in the way of, by whichever printer and  *)
(* whatever prints, reloads and faults came before (CategorySelectPage,    *)
(* TicketResultPage, UsbSerialPrintProvider, EscPosPrinterDriver).         *)
THEOREM KioskStaysConsistent == KioskSpec => []KioskIsConsistent
<1>1. KioskIInv => KioskIsConsistent
  <2>. SUFFICES ASSUME KioskIInv PROVE OneCreateInFlight /\ EveryTicketPrinted /\ SuccessMeansPrinted
    BY KioskIsTyped DEF KioskIsConsistent
  <2>1. OneCreateInFlight
    <3>1. CASE creates = {}
      BY <3>1, FS_EmptySet DEF OneCreateInFlight
    <3>2. CASE creates # {}
      <4>1. PICK request \in creates : TRUE
        BY <3>2
      <4>2. creates = {request}
        BY <4>1 DEF KioskIInv, CreatesOK
      <4>3. Cardinality({request}) = 1
        BY FS_Singleton, Zenon
      <4>. QED BY <4>2, <4>3 DEF OneCreateInFlight
    <3>. QED BY <3>1, <3>2
  <2>2. EveryTicketPrinted /\ SuccessMeansPrinted
    BY DEF KioskIInv, PrintsOK, PrintOK, EveryTicketPrinted, SuccessMeansPrinted
  <2>. QED BY <2>1, <2>2
<1>. QED BY <1>1, KioskInvariance, PTL

(* The page goes back by itself only from a ticket that was shown for all  *)
(* of AUTO_RETURN_MS (TicketResultPage).                                   *)
THEOREM TicketStaysLongEnough == KioskSpec => TicketShownLongEnough
<1>. DEFINE Shown == ReturnByTimer => shown # NoTicket /\ age = AutoReturn
<1>1. KioskIInv => Shown
  <2>. SUFFICES ASSUME KioskIInv, ReturnByTimer PROVE shown # NoTicket /\ age = AutoReturn
    OBVIOUS
  <2>1. PICK timer \in timers : timer.left = 0
    BY DEF ReturnByTimer, Fires
  <2>2. screen = "result" /\ timer.left + age = AutoReturn /\ age \in 0 .. AutoReturn
    BY <2>1 DEF KioskIInv, TimersOK
  <2>3. age = AutoReturn
    BY <2>1, <2>2, KioskAssumption
  <2>. QED BY <2>2, <2>3 DEF KioskIInv, PageOK
<1>. HIDE DEF Shown
<1>2. KioskSpec => [][Shown]_kioskVars
  BY <1>1, KioskInvariance, PTL
<1>3. [][Shown]_kioskVars => TicketShownLongEnough
  BY PTL DEF Shown, TicketShownLongEnough
<1>. QED BY <1>2, <1>3, PTL

-----------------------------------------------------------------------------
(* The layout of the TV board.  The helpers of lib/tv-grid-layout keep a   *)
(* layout acceptable, from any state of the drag and whatever replaced the *)
(* layout in the meantime.                                                 *)
LayoutOK(l) ==
    /\ l \in [DOMAIN l -> Widget]
    /\ \A id \in DOMAIN l : l[id].id = id
    /\ Accepted(l)

Rects == [x : Int, y : Int, w : Int, h : Int]
InGrid(rect) ==
    /\ rect \in Rects
    /\ rect.x \in 0 .. Cols - 1 /\ rect.y \in 0 .. Rows - 1
    /\ rect.w \in 1 .. Cols - rect.x /\ rect.h \in 1 .. Rows - rect.y

LayoutIInv ==
    /\ LayoutOK(storedLayout)
    /\ layout = NoLayout \/ LayoutOK(layout)
    /\ editing => LayoutOK(layout)
    /\ saving # NoSave =>
           /\ editing
           /\ DOMAIN saving = {"phase", "payload"} /\ LayoutOK(saving.payload)
           /\ saving.phase = "put" /\ ~editedSince => layout = saving.payload
           /\ saving.phase = "refresh" /\ ~editedSince => layout = storedLayout
    /\ drag # NoDrag =>
           /\ editing /\ InGrid(drag.rect)
           /\ drag \in [kind : {"move", "resize"}, id : WidgetIds, valid : BOOLEAN, rect : Rects]

-----------------------------------------------------------------------------
(* The first of the free spots is one of them.                             *)

Less == {pair \in Nat \X Nat : pair[1] < pair[2]}

LEMMA Smallest ==
    ASSUME NEW T, T \subseteq Nat, T # {}
    PROVE  \E m \in T : \A n \in T : m <= n
<1>1. OpToRel(<, Nat) = Less
    BY DEF OpToRel, Less
<1>2. IsWellFoundedOn(Less, Nat)
    BY <1>1, NatLessThanWellFounded
<1>3. PICK m \in T : \A n \in T : <<n, m>> \notin Less
    BY <1>2, WFMin
<1>4. ASSUME NEW n \in T PROVE m <= n
    <2>1. n \in Nat /\ m \in Nat /\ <<n, m>> \notin Less
        BY <1>3
    <2>2. ~(n < m)
        BY <2>1 DEF Less
    <2> QED BY <2>1, <2>2
<1> QED BY <1>4

LEMMA FirstSpotIsFree ==
    ASSUME NEW l, NEW size \in [w : 1 .. Cols, h : 1 .. Rows], FreeSpots(l, size) # {}
    PROVE  FindFreeSpot(l, size) \in FreeSpots(l, size)
<1> DEFINE F == FreeSpots(l, size)
           Ys == {y \in Nat : \E spot \in F : spot[2] = y}
<1>1. \A spot \in F : spot[1] \in Nat /\ spot[2] \in Nat /\ spot = <<spot[1], spot[2]>>
    BY GridAssumption DEF FreeSpots
<1>2. PICK y \in Ys : \A n \in Ys : y <= n
    <2>1. Ys # {} /\ Ys \subseteq Nat
        BY <1>1
    <2> HIDE DEF Ys
    <2> QED BY <2>1, Smallest
<1> DEFINE Xs == {x \in Nat : \E spot \in F : spot[2] = y /\ spot[1] = x}
<1>3. PICK x \in Xs : \A n \in Xs : x <= n
    <2>1. Xs # {} /\ Xs \subseteq Nat
        BY <1>1, <1>2
    <2> HIDE DEF Xs
    <2> QED BY <2>1, Smallest
<1>4. PICK first \in F : first[2] = y /\ first[1] = x
    BY <1>3
<1>5. ASSUME NEW other \in F
      PROVE  first[2] < other[2] \/ (first[2] = other[2] /\ first[1] <= other[1])
    <2>1. other[2] \in Ys /\ y <= other[2] /\ y \in Nat /\ other[2] \in Nat
        BY <1>1, <1>2
    <2>2. other[2] = y => other[1] \in Xs /\ x <= other[1]
        BY <1>1, <1>3
    <2> QED BY <1>4, <2>1, <2>2
<1> HIDE DEF F
<1>6. \E spot \in F : \A other \in F :
          spot[2] < other[2] \/ (spot[2] = other[2] /\ spot[1] <= other[1])
    BY <1>4, <1>5
<1> QED BY <1>6 DEF FindFreeSpot, F

-----------------------------------------------------------------------------
(* The helpers keep a layout acceptable.                                   *)

LEMMA OverlapIsSymmetric ==
    ASSUME NEW a, NEW b, RectsOverlap(a, b) PROVE RectsOverlap(b, a)
BY DEF RectsOverlap

LEMMA DefaultIsOK == LayoutOK(DefaultLayout)
BY DefaultAssumption DEF LayoutOK

LEMMA CoercedIsOK ==
    ASSUME NEW l, LayoutOK(l) PROVE LayoutOK(CoerceTvGridLayout(l))
BY DefaultIsOK DEF CoerceTvGridLayout

LEMMA PutIsOK ==
    ASSUME NEW l, LayoutOK(l), NEW id \in DOMAIN l, NEW rect, InGrid(rect)
    PROVE  LayoutOK(Put(l, id, rect))
<1> DEFINE new == Placed(l[id], rect)
           m == [l EXCEPT ![id] = new]
<1>1. l[id] \in Widget /\ l[id].id = id /\ Acceptable(l[id])
    BY DEF LayoutOK, Accepted
<1>2. /\ new.id = id /\ new.component = l[id].component
      /\ new.x = rect.x /\ new.y = rect.y /\ new.w = rect.w /\ new.h = rect.h
      /\ new \in Widget
    <2>1. rect.x \in Nat /\ rect.y \in Nat /\ rect.w \in Nat /\ rect.h \in Nat
        BY GridAssumption DEF InGrid, Rects
    <2> QED BY <1>1, <2>1 DEF Placed, Widget
<1> HIDE DEF new
<1>3. CASE HasOverlap(l, rect, {id})
    BY <1>3 DEF Put
<1>4. CASE ~HasOverlap(l, rect, {id})
    <2>1. /\ m \in [DOMAIN l -> Widget] /\ DOMAIN m = DOMAIN l
          /\ m[id] = new /\ \A i \in DOMAIN l \ {id} : m[i] = l[i]
        BY <1>2 DEF LayoutOK
    <2> HIDE DEF m
    <2>2. Acceptable(new)
        BY <1>1, <1>2 DEF Acceptable, InGrid
    <2>3. \A i \in DOMAIN l \ {id} : ~RectsOverlap(new, l[i]) /\ ~RectsOverlap(l[i], new)
        <3>1. \A i \in DOMAIN l \ {id} : ~RectsOverlap(rect, l[i])
            BY <1>4 DEF HasOverlap
        <3>2. \A i \in DOMAIN l \ {id} : ~RectsOverlap(new, l[i])
            BY <1>2, <3>1 DEF RectsOverlap
        <3> QED BY <3>2, OverlapIsSymmetric
    <2>4. \A i \in DOMAIN m : Acceptable(m[i]) /\ m[i].id = i
        BY <1>2, <2>1, <2>2 DEF LayoutOK, Accepted
    <2>5. ASSUME NEW i \in DOMAIN m, NEW j \in DOMAIN m \ {i}
          PROVE  m[i].id # m[j].id /\ ~RectsOverlap(m[i], m[j])
        <3>1. m[i].id # m[j].id
            BY <2>4
        <3>2. CASE i = id \/ j = id
            BY <2>1, <2>3, <2>5, <3>1, <3>2
        <3>3. CASE i # id /\ j # id
            BY <2>1, <3>1, <3>3 DEF LayoutOK, Accepted
        <3> QED BY <3>2, <3>3
    <2>6. LayoutOK(m)
        BY <2>1, <2>4, <2>5 DEF LayoutOK, Accepted
    <2> QED BY <1>4, <2>6 DEF Put, m, new
<1> QED BY <1>3, <1>4

LEMMA MoveIsOK ==
    ASSUME NEW l, LayoutOK(l), NEW id, NEW x \in Int, NEW y \in Int
    PROVE  LayoutOK(MoveWidget(l, id, x, y))
<1>1. CASE id \in DOMAIN l
    <2>1. l[id] \in Widget /\ Acceptable(l[id])
        BY <1>1 DEF LayoutOK, Accepted
    <2>2. /\ l[id].x \in 0 .. Cols - 1 /\ l[id].y \in 0 .. Rows - 1
          /\ l[id].w \in 1 .. Cols /\ l[id].h \in 1 .. Rows
        BY <2>1, GridAssumption DEF Acceptable
    <2>3. InGrid(MoveTarget(l[id], x, y))
        BY <2>2, GridAssumption DEF InGrid, MoveTarget, Rect, Rects, Clamp
    <2> QED BY <1>1, <2>3, PutIsOK DEF MoveWidget
<1>2. CASE id \notin DOMAIN l
    BY <1>2 DEF MoveWidget
<1> QED BY <1>1, <1>2

LEMMA ResizeIsOK ==
    ASSUME NEW l, LayoutOK(l), NEW id, NEW w \in Int, NEW h \in Int
    PROVE  LayoutOK(ResizeWidget(l, id, w, h))
<1>1. CASE id \in DOMAIN l
    <2>1. l[id] \in Widget /\ Acceptable(l[id])
        BY <1>1 DEF LayoutOK, Accepted
    <2>2. l[id].x \in 0 .. Cols - 1 /\ l[id].y \in 0 .. Rows - 1
        BY <2>1 DEF Acceptable
    <2>3. InGrid(ResizeTarget(l[id], w, h))
        BY <2>2, GridAssumption DEF InGrid, ResizeTarget, Rect, Rects, Clamp
    <2> QED BY <1>1, <2>3, PutIsOK DEF ResizeWidget
<1>2. CASE id \notin DOMAIN l
    BY <1>2 DEF ResizeWidget
<1> QED BY <1>1, <1>2

LEMMA RemoveIsOK ==
    ASSUME NEW l, LayoutOK(l), NEW id PROVE LayoutOK(RemoveWidget(l, id))
BY DEF RemoveWidget, LayoutOK, Accepted

LEMMA AddIsOK ==
    ASSUME NEW l, LayoutOK(l), NEW id \in WidgetIds \ DOMAIN l, NEW component \in Components
    PROVE  LayoutOK(AddWidget(l, id, component))
<1> DEFINE size == WidgetSize[component]
           spot == FindFreeSpot(l, size)
           new == [id |-> id, component |-> component, x |-> spot[1], y |-> spot[2],
                   w |-> size.w, h |-> size.h]
           m == [i \in DOMAIN l \cup {id} |-> IF i = id THEN new ELSE l[i]]
<1>1. size \in [w : 1 .. Cols, h : 1 .. Rows]
    BY GridAssumption
<1>2. CASE spot = NoSpot
    BY <1>2 DEF AddWidget
<1>3. CASE spot # NoSpot
    <2>1. spot \in FreeSpots(l, size)
        BY <1>1, <1>3, FirstSpotIsFree DEF FindFreeSpot
    <2> HIDE DEF spot, size
    <2>2. /\ spot[1] \in 0 .. Cols - size.w /\ spot[2] \in 0 .. Rows - size.h
          /\ ~HasOverlap(l, Rect(spot[1], spot[2], size.w, size.h), {})
        BY <2>1 DEF FreeSpots
    <2>3. /\ new.id = id /\ new.component = component
          /\ new.x = spot[1] /\ new.y = spot[2] /\ new.w = size.w /\ new.h = size.h
          /\ new \in Widget
        BY <1>1, <2>2, GridAssumption DEF Widget
    <2> HIDE DEF new
    <2>4. Acceptable(new)
        BY <1>1, <2>2, <2>3, GridAssumption DEF Acceptable
    <2>5. \A i \in DOMAIN l : ~RectsOverlap(new, l[i]) /\ ~RectsOverlap(l[i], new)
        <3>1. \A i \in DOMAIN l : ~RectsOverlap(Rect(spot[1], spot[2], size.w, size.h), l[i])
            BY <2>2 DEF HasOverlap
        <3>2. \A i \in DOMAIN l : ~RectsOverlap(new, l[i])
            BY <2>3, <3>1 DEF RectsOverlap, Rect
        <3> QED BY <3>2, OverlapIsSymmetric
    <2>6. /\ m \in [DOMAIN l \cup {id} -> Widget] /\ DOMAIN m = DOMAIN l \cup {id}
          /\ m[id] = new /\ \A i \in DOMAIN l : m[i] = l[i]
        BY <2>3 DEF LayoutOK
    <2> HIDE DEF m
    <2>7. \A i \in DOMAIN m : Acceptable(m[i]) /\ m[i].id = i
        BY <2>3, <2>4, <2>6 DEF LayoutOK, Accepted
    <2>8. ASSUME NEW i \in DOMAIN m, NEW j \in DOMAIN m \ {i}
          PROVE  m[i].id # m[j].id /\ ~RectsOverlap(m[i], m[j])
        <3>1. m[i].id # m[j].id
            BY <2>7
        <3>2. CASE i = id \/ j = id
            BY <2>5, <2>6, <2>8, <3>1, <3>2
        <3>3. CASE i # id /\ j # id
            BY <2>6, <3>1, <3>3 DEF LayoutOK, Accepted
        <3> QED BY <3>2, <3>3
    <2>9. LayoutOK(m)
        BY <2>6, <2>7, <2>8 DEF LayoutOK, Accepted
    <2> QED BY <1>3, <2>9 DEF AddWidget, m, new, spot, size
<1> QED BY <1>2, <1>3

-----------------------------------------------------------------------------
(* The steps of the page.                                                  *)

LEMMA WidgetsInGrid ==
    ASSUME NEW l, LayoutOK(l), NEW id \in DOMAIN l
    PROVE  /\ l[id] \in Widget /\ id \in WidgetIds
           /\ l[id].x \in 0 .. Cols - 1 /\ l[id].y \in 0 .. Rows - 1
           /\ l[id].w \in 1 .. Cols - l[id].x /\ l[id].h \in 1 .. Rows - l[id].y
<1>1. l[id] \in Widget /\ l[id].id = id /\ Acceptable(l[id])
    BY DEF LayoutOK, Accepted
<1> QED BY <1>1 DEF Acceptable, Widget

(* An edit gives the draft another layout the core API would take.         *)
LEMMA EditStep ==
    ASSUME LayoutIInv, NEW l, editing => LayoutOK(l), Edit(l), drag' = NoDrag \/ drag' = drag
    PROVE  LayoutIInv'
<1>1. /\ editing /\ layout' = l /\ (~editedSince' => ~editedSince /\ l = layout)
      /\ UNCHANGED <<storedLayout, editing, saving>>
    BY DEF Edit
<1>2. LayoutOK(layout') /\ (~editedSince' => layout' = layout)
    BY <1>1
<1> QED BY <1>1, <1>2 DEF LayoutIInv

LEMMA ClickChipStep ==
    ASSUME LayoutIInv, NEW component \in Components, ClickChip(component) PROVE LayoutIInv'
<1>1. PICK id \in WidgetIds \ IdsInUse : Edit(AddWidget(layout, id, component))
    BY DEF ClickChip
<1>2. id \notin DOMAIN layout /\ LayoutOK(layout) /\ drag' = drag
    BY DEF ClickChip, IdsInUse, LayoutIInv
<1>3. LayoutOK(AddWidget(layout, id, component))
    BY <1>2, AddIsOK
<1> QED BY <1>1, <1>2, <1>3, EditStep

LEMMA ClickRemoveStep ==
    ASSUME LayoutIInv, NEW id, ClickRemove(id) PROVE LayoutIInv'
<1>1. editing /\ LayoutOK(layout) /\ drag' = drag /\ Edit(RemoveWidget(layout, id))
    BY DEF ClickRemove, Edit, LayoutIInv
<1>2. LayoutOK(RemoveWidget(layout, id))
    BY <1>1, RemoveIsOK
<1> QED BY <1>1, <1>2, EditStep

LEMMA StepSizeStep ==
    ASSUME LayoutIInv, editing, NEW id \in DOMAIN layout, StepSize(id) PROVE LayoutIInv'
<1>1. LayoutOK(layout) /\ drag' = drag
    BY DEF StepSize, LayoutIInv
<1>2. PICK w \in Int, h \in Int : Edit(ResizeWidget(layout, id, w, h))
    <2>1. layout[id].w \in Int /\ layout[id].h \in Int /\ layout[id].x \in Int /\ layout[id].y \in Int
        BY <1>1, WidgetsInGrid, GridAssumption
    <2>2. (1 .. Cols - layout[id].x) \cup (1 .. Rows - layout[id].y) \subseteq Int
        BY <2>1, GridAssumption
    <2> QED BY <2>1, <2>2 DEF StepSize
<1>3. LayoutOK(ResizeWidget(layout, id, w, h))
    BY <1>1, ResizeIsOK
<1> QED BY <1>1, <1>2, <1>3, EditStep

LEMMA ResetStep ==
    ASSUME LayoutIInv, ResetToDefault PROVE LayoutIInv'
BY DefaultIsOK, EditStep DEF ResetToDefault

LEMMA BeginDragStep ==
    ASSUME LayoutIInv, NEW id \in DOMAIN layout, NEW kind \in {"move", "resize"}, BeginDrag(id, kind)
    PROVE  LayoutIInv'
<1> DEFINE new == [kind |-> kind, id |-> id, valid |-> TRUE,
                   rect |-> Rect(layout[id].x, layout[id].y, layout[id].w, layout[id].h)]
<1>1. /\ editing /\ LayoutOK(layout) /\ drag' = new
      /\ UNCHANGED <<layout, storedLayout, editing, saving, editedSince>>
    BY DEF BeginDrag, LayoutIInv
<1>2. /\ layout[id].x \in 0 .. Cols - 1 /\ layout[id].y \in 0 .. Rows - 1 /\ id \in WidgetIds
      /\ layout[id].w \in 1 .. Cols - layout[id].x /\ layout[id].h \in 1 .. Rows - layout[id].y
    BY <1>1, WidgetsInGrid
<1>3. InGrid(new.rect)
    BY <1>2, GridAssumption DEF InGrid, Rect, Rects
<1>4. new \in [kind : {"move", "resize"}, id : WidgetIds, valid : BOOLEAN, rect : Rects]
    BY <1>2, <1>3 DEF InGrid
<1> HIDE DEF new
<1> QED BY <1>1, <1>3, <1>4 DEF LayoutIInv

LEMMA PointerMoveStep ==
    ASSUME LayoutIInv, PointerMove PROVE LayoutIInv'
<1>1. /\ drag # NoDrag /\ drag.id \in DOMAIN layout /\ LayoutOK(layout) /\ editing
      /\ UNCHANGED <<layout, storedLayout, editing, saving, editedSince>>
    BY DEF PointerMove, LayoutIInv
<1>2. drag \in [kind : {"move", "resize"}, id : WidgetIds, valid : BOOLEAN, rect : Rects]
    BY <1>1 DEF LayoutIInv
<1>3. PICK ghost \in Ghosts :
          drag' = [drag EXCEPT !.rect = ghost, !.valid = ~HasOverlap(layout, ghost, {drag.id})]
    BY DEF PointerMove
<1> DEFINE widget == layout[drag.id]
<1>9. PICK dx \in -1 .. Cols, dy \in -1 .. Rows : ghost = Ghost(widget, drag.kind, dx, dy)
    BY <1>3 DEF Ghosts
<1>4. /\ widget.x \in 0 .. Cols - 1 /\ widget.y \in 0 .. Rows - 1
      /\ widget.w \in 1 .. Cols - widget.x /\ widget.h \in 1 .. Rows - widget.y
    BY <1>1, WidgetsInGrid
<1> HIDE DEF widget
<1>5. InGrid(ghost)
    BY <1>4, <1>9, GridAssumption DEF Ghost, InGrid, Rect, Rects, Clamp
<1>6. HasOverlap(layout, ghost, {drag.id}) \in BOOLEAN
    BY DEF HasOverlap
<1>7. /\ drag' \in [kind : {"move", "resize"}, id : WidgetIds, valid : BOOLEAN, rect : Rects]
      /\ drag'.rect = ghost
    BY <1>2, <1>3, <1>5, <1>6 DEF InGrid
<1>8. InGrid(drag'.rect)
    BY <1>5, <1>7
<1> QED BY <1>1, <1>7, <1>8 DEF LayoutIInv

LEMMA PointerUpStep ==
    ASSUME LayoutIInv, PointerUp PROVE LayoutIInv'
<1>1. drag # NoDrag /\ drag' = NoDrag /\ editing /\ LayoutOK(layout)
      /\ drag.rect \in Rects
    BY DEF PointerUp, LayoutIInv
<1>2. LayoutOK(Dropped(layout))
    <2>1. /\ drag.rect.x \in Int /\ drag.rect.y \in Int
          /\ drag.rect.w \in Int /\ drag.rect.h \in Int
        BY <1>1 DEF Rects
    <2> QED BY <1>1, <2>1, MoveIsOK, ResizeIsOK DEF Dropped
<1>3. CASE Edit(Dropped(layout))
    BY <1>1, <1>2, <1>3, EditStep
<1>4. CASE UNCHANGED <<layout, storedLayout, editing, saving, editedSince, layoutLimits>>
    BY <1>1, <1>4 DEF LayoutIInv
<1> QED BY <1>3, <1>4 DEF PointerUp

LEMMA ALayoutIsThere ==
    ASSUME NEW l, LayoutOK(l) PROVE l # NoLayout
<1>1. DOMAIN l \in SUBSET WidgetIds /\ l \in [DOMAIN l -> Widget]
    BY WidgetsInGrid DEF LayoutOK
<1> QED BY <1>1, NoLayoutAssumption

LEMMA LoadConfigStep ==
    ASSUME LayoutIInv, LoadConfig PROVE LayoutIInv'
<1>1. /\ layout = NoLayout /\ ~editing /\ saving = NoSave /\ drag = NoDrag
      /\ layout' = CoerceTvGridLayout(storedLayout)
      /\ UNCHANGED <<storedLayout, drag, editing, saving, editedSince>>
    BY ALayoutIsThere DEF LoadConfig, ShowSnapshot, LayoutIInv
<1>2. LayoutOK(layout')
    BY <1>1, CoercedIsOK DEF LayoutIInv
<1> QED BY <1>1, <1>2 DEF LayoutIInv

LEMMA OpenEditorStep ==
    ASSUME LayoutIInv, OpenEditor PROVE LayoutIInv'
BY DEF OpenEditor, LayoutIInv

LEMMA CloseEditorStep ==
    ASSUME LayoutIInv, CloseEditor PROVE LayoutIInv'
BY DEF CloseEditor, LayoutIInv

LEMMA SaveLayoutStep ==
    ASSUME LayoutIInv, SaveLayout PROVE LayoutIInv'
<1>1. /\ editing /\ LayoutOK(layout)
      /\ saving' = [phase |-> "put", payload |-> layout]
      /\ UNCHANGED <<layout, storedLayout, drag, editing>>
    BY DEF SaveLayout, Payload, LayoutIInv
<1> QED BY <1>1 DEF LayoutIInv

LEMMA PutStoredStep ==
    ASSUME LayoutIInv, PutStored PROVE LayoutIInv'
<1>1. /\ saving # NoSave /\ saving.phase = "put" /\ DOMAIN saving = {"phase", "payload"}
      /\ saving' = [saving EXCEPT !.phase = "refresh"] /\ storedLayout' = saving.payload
      /\ UNCHANGED <<layout, drag, editing, editedSince>>
    BY DEF PutStored, LayoutIInv
<1>2. /\ DOMAIN saving' = {"phase", "payload"} /\ saving'.phase = "refresh"
      /\ saving'.payload = saving.payload
    BY <1>1
<1> QED BY <1>1, <1>2 DEF LayoutIInv

LEMMA PutFailedStep ==
    ASSUME LayoutIInv, PutFailed PROVE LayoutIInv'
BY DEF PutFailed, LayoutIInv

LEMMA RefreshedStep ==
    ASSUME LayoutIInv, Refreshed PROVE LayoutIInv'
<1>1. /\ saving' = NoSave /\ ~editing' /\ drag' = NoDrag /\ storedLayout' = storedLayout
      /\ layout' = layout \/ layout' = CoerceTvGridLayout(storedLayout)
    BY DEF Refreshed, ShowSnapshot
<1>2. layout' = NoLayout \/ LayoutOK(layout')
    BY <1>1, CoercedIsOK DEF LayoutIInv
<1> QED BY <1>1, <1>2 DEF LayoutIInv

LEMMA ForeignSaveStep ==
    ASSUME LayoutIInv, ForeignSave PROVE LayoutIInv'
<1>1. /\ UNCHANGED <<layout, drag, editing, saving>> /\ editedSince'
      /\ \E id \in WidgetIds : storedLayout' \in {RemoveWidget(storedLayout, id), DefaultLayout}
    BY DEF ForeignSave
<1>2. LayoutOK(storedLayout')
    BY <1>1, RemoveIsOK, DefaultIsOK DEF LayoutIInv
<1> QED BY <1>1, <1>2 DEF LayoutIInv

LEMMA SnapshotReadStep ==
    ASSUME LayoutIInv, SnapshotRead PROVE LayoutIInv'
<1>1. /\ UNCHANGED <<storedLayout, drag, editing, saving>> /\ editedSince'
      /\ layout' = CoerceTvGridLayout(storedLayout)
    BY DEF SnapshotRead, ShowSnapshot
<1>2. LayoutOK(layout')
    BY <1>1, CoercedIsOK DEF LayoutIInv
<1> QED BY <1>1, <1>2 DEF LayoutIInv

LEMMA LayoutBegins == LayoutInit => LayoutIInv
BY DefaultIsOK DEF LayoutInit, LayoutIInv

LEMMA LayoutStepKeeps ==
    ASSUME LayoutIInv, LayoutNext PROVE LayoutIInv'
<1>1. CASE LoadConfig \/ OpenEditor \/ CloseEditor
    BY <1>1, LoadConfigStep, OpenEditorStep, CloseEditorStep
<1>2. CASE \E component \in Components : ClickChip(component)
    BY <1>2, ClickChipStep
<1>3. CASE /\ editing
           /\ \E id \in DOMAIN layout :
                  \/ ClickRemove(id) \/ StepSize(id)
                  \/ \E kind \in {"move", "resize"} : BeginDrag(id, kind)
    <2>1. PICK id \in DOMAIN layout :
              \/ ClickRemove(id) \/ StepSize(id)
              \/ \E kind \in {"move", "resize"} : BeginDrag(id, kind)
        BY <1>3
    <2>2. CASE ClickRemove(id)
        BY <2>2, ClickRemoveStep
    <2>3. CASE StepSize(id)
        BY <1>3, <2>3, StepSizeStep
    <2>4. CASE \E kind \in {"move", "resize"} : BeginDrag(id, kind)
        BY <2>4, BeginDragStep
    <2> QED BY <2>1, <2>2, <2>3, <2>4
<1>4. CASE ResetToDefault \/ PointerMove \/ PointerUp
    BY <1>4, ResetStep, PointerMoveStep, PointerUpStep
<1>5. CASE SaveLayout \/ PutStored \/ PutFailed \/ Refreshed
    BY <1>5, SaveLayoutStep, PutStoredStep, PutFailedStep, RefreshedStep
<1>6. CASE ForeignSave \/ SnapshotRead
    BY <1>6, ForeignSaveStep, SnapshotReadStep
<1> QED BY <1>1, <1>2, <1>3, <1>4, <1>5, <1>6 DEF LayoutNext

LEMMA LayoutInvariance == LayoutSpec => []LayoutIInv
<1>1. LayoutIInv /\ [LayoutNext]_layoutVars => LayoutIInv'
    <2> SUFFICES ASSUME LayoutIInv, LayoutNext \/ UNCHANGED layoutVars PROVE LayoutIInv'
        OBVIOUS
    <2>1. CASE LayoutNext
        BY <2>1, LayoutStepKeeps
    <2>2. CASE UNCHANGED layoutVars
        BY <2>2 DEF layoutVars, LayoutIInv
    <2> QED BY <2>1, <2>2
<1> QED BY <1>1, LayoutBegins, PTL DEF LayoutSpec

-----------------------------------------------------------------------------
(* Whatever drags, steppers, chips, saves and refreshes come in whatever   *)
(* order, the draft is a layout TvPanelLayout would take.                  *)
THEOREM DraftStaysAccepted == LayoutSpec => []DraftIsAccepted
<1>1. LayoutIInv => DraftIsAccepted
    BY DEF LayoutIInv, DraftIsAccepted, LayoutOK
<1> QED BY <1>1, LayoutInvariance, PTL

(* A drop puts the widget where its ghost was shown: the ghost lies within *)
(* the grid, so that clamping it once more, by the layout of the drop,     *)
(* changes nothing (use-grid-dnd.ts, onPointerUp).                         *)
THEOREM DropsFollowTheGhost == LayoutSpec => GhostIsHonoured
<1> DEFINE Honoured ==
        (PointerUp /\ drag.valid /\ drag.id \in DOMAIN layout)
            => (SameShape(layout[drag.id], drag.rect) /\ ~HasOverlap(layout, drag.rect, {drag.id})
                   => layout'[drag.id] = Placed(layout[drag.id], drag.rect))
<1>1. ASSUME LayoutIInv, PointerUp, drag.valid, drag.id \in DOMAIN layout,
             SameShape(layout[drag.id], drag.rect), ~HasOverlap(layout, drag.rect, {drag.id})
      PROVE  layout'[drag.id] = Placed(layout[drag.id], drag.rect)
    <2> DEFINE id == drag.id
               rect == drag.rect
               widget == layout[id]
    <2>1. /\ drag # NoDrag /\ layout' = Dropped(layout) /\ LayoutOK(layout)
          /\ InGrid(rect) /\ drag.kind \in {"move", "resize"}
        BY <1>1 DEF PointerUp, Edit, LayoutIInv
    <2>2. /\ widget.x \in 0 .. Cols - 1 /\ widget.y \in 0 .. Rows - 1
          /\ widget.w \in 1 .. Cols - widget.x /\ widget.h \in 1 .. Rows - widget.y
        BY <1>1, <2>1, WidgetsInGrid
    <2>3. rect = Rect(rect.x, rect.y, rect.w, rect.h)
        BY <2>1 DEF InGrid, Rects, Rect
    <2>4. layout' = Put(layout, id, rect)
        <3>1. CASE drag.kind = "move"
            <4>1. widget.w = rect.w /\ widget.h = rect.h
                BY <1>1, <3>1 DEF SameShape
            <4> HIDE DEF widget
            <4>2. MoveTarget(widget, rect.x, rect.y) = Rect(rect.x, rect.y, rect.w, rect.h)
                BY <2>1, <2>2, <4>1, GridAssumption DEF MoveTarget, Clamp, Rect, InGrid, Rects
            <4> QED BY <1>1, <2>1, <2>3, <3>1, <4>2 DEF Dropped, MoveWidget, widget
        <3>2. CASE drag.kind = "resize"
            <4>1. widget.x = rect.x /\ widget.y = rect.y
                BY <1>1, <3>2 DEF SameShape
            <4> HIDE DEF widget
            <4>2. ResizeTarget(widget, rect.w, rect.h) = Rect(rect.x, rect.y, rect.w, rect.h)
                BY <2>1, <2>2, <4>1, GridAssumption DEF ResizeTarget, Clamp, Rect, InGrid, Rects
            <4> QED BY <1>1, <2>1, <2>3, <3>2, <4>2 DEF Dropped, ResizeWidget, widget
        <3> QED BY <2>1, <3>1, <3>2
    <2>5. layout' = [layout EXCEPT ![id] = Placed(layout[id], rect)]
        BY <1>1, <2>4 DEF Put
    <2> QED BY <1>1, <2>5
<1>2. LayoutIInv /\ [LayoutNext]_layoutVars => [Honoured]_layoutVars
    BY <1>1
<1> HIDE DEF Honoured
<1>3. LayoutSpec => [][Honoured]_layoutVars
    BY <1>2, LayoutInvariance, PTL DEF LayoutSpec
<1> QED BY <1>3 DEF GhostIsHonoured, Honoured

(* After a save that was answered, with no edit and no other writer since, *)
(* the layout on the page is the one in the store.                         *)
THEOREM SavesAreShown == LayoutSpec => []SavedAsShown
<1>1. LayoutIInv => SavedAsShown
    BY DEF LayoutIInv, SavedAsShown
<1> QED BY <1>1, LayoutInvariance, PTL

-----------------------------------------------------------------------------
(* The same of the surfaces side by side.                                  *)
THEOREM SurfacesStaySound ==
    SurfacesSpec => /\ [](ClipIsAsAsked /\ CacheIsKept /\ SettingsAreRecent)
                    /\ [](KioskIsConsistent /\ DraftIsAccepted)
                    /\ TicketShownLongEnough /\ GhostIsHonoured
<1>1. SurfacesInit => SynthesisInit /\ KioskInit /\ LayoutInit
    BY DEF SurfacesInit
<1>2. [SurfacesNext]_surfacesVars => [SynthesisNext]_synthesisVars
    BY DEF SurfacesNext, surfacesVars
<1>3. [SurfacesNext]_surfacesVars => [KioskNext]_kioskVars
    BY DEF SurfacesNext, surfacesVars
<1>4. [SurfacesNext]_surfacesVars => [LayoutNext]_layoutVars
    BY DEF SurfacesNext, surfacesVars
<1>5. SurfacesSpec => SynthesisSpec /\ KioskSpec /\ LayoutSpec
    BY <1>1, <1>2, <1>3, <1>4, PTL DEF SurfacesSpec, SynthesisSpec, KioskSpec, LayoutSpec
<1> QED BY <1>5, ClipStaysAsAsked, CacheStaysKept, SettingsStayRecent, KioskStaysConsistent,
           DraftStaysAccepted, TicketStaysLongEnough, DropsFollowTheGhost, PTL
================================================================================
