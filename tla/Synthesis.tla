------------------------------- MODULE Synthesis -------------------------------
(***************************************************************************)
(* The requests the threads of the tts-service answer at the same time:    *)
(* CoreApiConfigClient, the use case that clears the cache when the        *)
(* settings change, the cache of clips on disk, and the browser of the     *)
(* board that keeps what it was served.  Each lock, each file operation    *)
(* and each unlocked read or write of shared state is a step.              *)
(***************************************************************************)
EXTENDS Integers, FiniteSetsExt, Functions

CONSTANTS
    Threads,
    Texts,              \* what is to be said
    Settings,           \* engine, voice, speed, volume and pause together
    Fallback,           \* the settings used when core-api has never answered
    NoKnob,             \* nothing is auditioned
    NoSettings,
    Torn,               \* the content of a file the disk never received
    MaxEntries,         \* AudioCache max_entries
    Ttl,                \* CoreApiConfigClient ttl_seconds
    MaxAge,             \* max-age of _AUDIO_CACHE_CONTROL
    MaxTime, MaxAsks, MaxEdits, MaxFaults   \* bounds

ASSUME SynthesisAssumption ==
    /\ MaxEntries \in Nat \ {0} /\ {Ttl, MaxAge, MaxTime, MaxAsks, MaxEdits, MaxFaults} \subseteq Nat
    /\ Fallback \in Settings /\ NoSettings \notin Settings /\ NoKnob \notin Settings
    /\ Texts # {}

VARIABLES
    stored,             \* ttsConfiguration in core-api
    inForce,            \* history: the last time each setting was stored
    time,
    cachedConfig, fetchedAt,    \* CoreApiConfigClient
    lastConfig,         \* SynthesizeAnnouncementUseCase._last_config
    files,              \* the *.mp3: key -> [clip, mtime, synced]
    thread,             \* what each thread is doing
    browser,            \* the board's HTTP cache: text -> [settings, from]
    cut,                \* history: a sweep was cut off, none has ended since
    writes, asks, edits, faults

synthesisVars == <<stored, inForce, time, cachedConfig, fetchedAt, lastConfig, files, thread,
                   browser, cut, writes, asks, edits, faults>>

memory == <<cachedConfig, fetchedAt, lastConfig>>
bounds == <<asks, edits, faults>>
world == <<stored, inForce, time>>

AskRequest == [text : Texts, knob : Settings \cup {NoKnob}]

Stages == {"idle", "fetch", "adopt", "compare", "clear", "remember", "get", "render", "replace",
           "list", "evict", "answer", "error"}

Idle == [at |-> "idle", ask |-> [text |-> CHOOSE text \in Texts : TRUE, knob |-> NoKnob],
         now |-> 0, config |-> NoSettings, failed |-> FALSE, clip |-> Torn, mtime |-> 0,
         todo |-> {}]

ThreadAt(t, stage) == thread[t].at = stage
Moves(t, stage) == thread' = [thread EXCEPT ![t].at = stage]

-----------------------------------------------------------------------------
(* _render: an auditioned knob takes the place of the stored one, and the  *)
(* key has everything that changes the audio.  (Mutant: only the text.)    *)
Effective(config, ask) == IF ask.knob = NoKnob THEN config ELSE ask.knob

KeyOfText(config, ask) == <<Fallback, ask.text>>

CacheKey(config, ask) == <<Effective(config, ask), ask.text>>

Rendered(config, ask) == <<Effective(config, ask), ask.text>>

ThreadKey(t) == CacheKey(thread[t].config, thread[t].ask)

-----------------------------------------------------------------------------
(* The board asks its browser, which has what it was served for MaxAge.    *)
IsFreshInBrowser(text) ==
    text \in DOMAIN browser /\ time - browser[text].from < MaxAge

(* A request, and resolve(): the cached configuration while it is fresh.   *)
IsFresh == cachedConfig # NoSettings /\ time - fetchedAt < Ttl

Request(t) ==
    /\ ThreadAt(t, "idle") /\ asks < MaxAsks
    /\ asks' = asks + 1
    /\ \E ask \in AskRequest :
           /\ ask.knob = NoKnob => ~IsFreshInBrowser(ask.text)
           /\ thread' = [thread EXCEPT ![t] = IF IsFresh
                  THEN [Idle EXCEPT !.at = "compare", !.ask = ask, !.now = time,
                                    !.config = cachedConfig]
                  ELSE [Idle EXCEPT !.at = "fetch", !.ask = ask, !.now = time]]
    /\ UNCHANGED <<world, memory, files, browser, cut, writes, edits, faults>>

(* _fetch, which fails when core-api does not answer.                      *)
Fetch(t) ==
    /\ ThreadAt(t, "fetch")
    /\ \/ /\ thread' = [thread EXCEPT ![t].at = "adopt", ![t].config = stored]
          /\ UNCHANGED faults
       \/ /\ faults < MaxFaults /\ faults' = faults + 1
          /\ thread' = [thread EXCEPT ![t].at = "adopt", ![t].failed = TRUE]
    /\ UNCHANGED <<world, memory, files, browser, cut, writes, asks, edits>>

(* Stamped with the time before the fetch.  (Mutant: the time after it.)   *)
StampNow(t) == time

Stamp(t) == thread[t].now

Adopt(t) ==
    /\ ThreadAt(t, "adopt")
    /\ IF thread[t].failed
       THEN /\ thread' = [thread EXCEPT ![t].at = "compare",
                   ![t].config = IF cachedConfig = NoSettings THEN Fallback ELSE cachedConfig]
            /\ UNCHANGED memory
       ELSE /\ cachedConfig' = thread[t].config /\ fetchedAt' = Stamp(t)
            /\ Moves(t, "compare")
            /\ UNCHANGED lastConfig
    /\ UNCHANGED <<world, files, browser, cut, writes, bounds>>

(* _resolve_config: no lock is held from the comparison to the assignment. *)
Compare(t) ==
    /\ ThreadAt(t, "compare")
    /\ LET resolved == [thread[t] EXCEPT !.now = 0, !.failed = FALSE] IN
           thread' = [thread EXCEPT ![t] =
               IF lastConfig \notin {NoSettings, thread[t].config}
               THEN [resolved EXCEPT !.at = "clear", !.todo = DOMAIN files]
               ELSE [resolved EXCEPT !.at = "remember"]]
    /\ UNCHANGED <<world, memory, files, browser, cut, writes, bounds>>

Without(key) == [k \in DOMAIN files \ {key} |-> files[k]]

Clear(t) ==
    /\ ThreadAt(t, "clear")
    /\ IF thread[t].todo = {}
       THEN Moves(t, "remember") /\ UNCHANGED files
       ELSE \E key \in thread[t].todo :
                /\ files' = Without(key)
                /\ thread' = [thread EXCEPT ![t].todo = @ \ {key}]
    /\ UNCHANGED <<world, memory, browser, cut, writes, bounds>>

Remember(t) ==
    /\ ThreadAt(t, "remember")
    /\ lastConfig' = thread[t].config
    /\ Moves(t, "get")
    /\ UNCHANGED <<world, cachedConfig, fetchedAt, files, browser, cut, writes, bounds>>

-----------------------------------------------------------------------------
Get(t) ==
    /\ ThreadAt(t, "get")
    /\ thread' = [thread EXCEPT ![t] =
           IF ThreadKey(t) \in DOMAIN files
           THEN [@ EXCEPT !.at = "answer", !.clip = files[ThreadKey(t)].clip]
           ELSE [@ EXCEPT !.at = "render"]]
    /\ UNCHANGED <<world, memory, files, browser, cut, writes, bounds>>

(* The engine and the finisher, and the .part file, written and flushed to *)
(* the disk; an unknown engine, an absent voice or a missing recording is  *)
(* an error.                                                               *)
Render(t) ==
    /\ ThreadAt(t, "render")
    /\ \/ /\ writes' = writes + 1
          /\ thread' = [thread EXCEPT ![t].at = "replace", ![t].mtime = writes + 1,
                             ![t].clip = Rendered(thread[t].config, thread[t].ask)]
          /\ UNCHANGED faults
       \/ /\ faults < MaxFaults /\ faults' = faults + 1
          /\ thread' = [thread EXCEPT ![t].at = "error"]
          /\ UNCHANGED writes
    /\ UNCHANGED <<world, memory, files, browser, cut, asks, edits>>

(* (Mutant: without fsync.)                                                *)
NotOnDisk(t) == FALSE

OnDisk(t) == TRUE

ReplaceEntry(t) ==
    /\ ThreadAt(t, "replace")
    /\ LET entry == [clip |-> thread[t].clip, mtime |-> thread[t].mtime, synced |-> OnDisk(t)] IN
           files' = [k \in DOMAIN files \cup {ThreadKey(t)} |->
                        IF k = ThreadKey(t) THEN entry ELSE files[k]]
    /\ Moves(t, "list")
    /\ UNCHANGED <<world, memory, browser, cut, writes, bounds>>

(* _evict_down_to_limit.  (Mutant: one entry more than the bound is kept.) *)
ExcessOverNext(entries) == Cardinality(entries) - MaxEntries - 1

Excess(entries) == Cardinality(entries) - MaxEntries

OldestOf(entries, count) ==
    {oldest \in kSubset(count, entries) :
        \A stale \in oldest, kept \in entries \ oldest : files[stale].mtime <= files[kept].mtime}

ListEntries(t) ==
    /\ ThreadAt(t, "list")
    /\ LET entries == DOMAIN files IN
           IF Excess(entries) <= 0
           THEN Moves(t, "answer") /\ cut' = FALSE
           ELSE /\ \E oldest \in OldestOf(entries, Excess(entries)) :
                       thread' = [thread EXCEPT ![t].at = "evict", ![t].todo = oldest]
                /\ UNCHANGED cut
    /\ UNCHANGED <<world, memory, files, browser, writes, bounds>>

(* unlink(missing_ok=True).  (Mutant: a vanished entry is an error.)       *)
MustExist(key) == key \in DOMAIN files

MayBeGone(key) == TRUE

Evict(t) ==
    /\ ThreadAt(t, "evict")
    /\ IF thread[t].todo = {}
       THEN Moves(t, "answer") /\ cut' = FALSE /\ UNCHANGED files
       ELSE \E key \in thread[t].todo :
                /\ files' = Without(key)
                /\ thread' = [thread EXCEPT ![t].todo = @ \ {key},
                                            ![t].at = IF MayBeGone(key) THEN @ ELSE "error"]
                /\ UNCHANGED cut
    /\ UNCHANGED <<world, memory, browser, writes, bounds>>

(* The answer, and what the board plays is kept by its browser.            *)
Answer(t) ==
    /\ ThreadAt(t, "answer")
    /\ LET now == thread[t] IN
           browser' = IF now.ask.knob # NoKnob THEN browser
                      ELSE [text \in {x \in DOMAIN browser : IsFreshInBrowser(x)}
                                        \cup {now.ask.text} |->
                               IF text = now.ask.text
                               THEN [settings |-> now.config, from |-> time]
                               ELSE browser[text]]
    /\ thread' = [thread EXCEPT ![t] = Idle]
    /\ UNCHANGED <<world, memory, files, cut, writes, bounds>>

AnswerError(t) ==
    /\ ThreadAt(t, "error")
    /\ thread' = [thread EXCEPT ![t] = Idle]
    /\ UNCHANGED <<world, memory, files, browser, cut, writes, bounds>>

-----------------------------------------------------------------------------
(* The manager saves other settings; time passes.                          *)
EditSettings ==
    /\ edits < MaxEdits /\ edits' = edits + 1
    /\ stored' \in Settings \ {stored}
    /\ inForce' = [inForce EXCEPT ![stored'] = time]
    /\ UNCHANGED <<time, memory, files, thread, browser, cut, writes, asks, faults>>

PassTime ==
    /\ time < MaxTime /\ time' = time + 1
    /\ inForce' = [inForce EXCEPT ![stored] = time + 1]
    /\ UNCHANGED <<stored, memory, files, thread, browser, cut, writes, bounds>>

(* A power cut: the memory is lost, a file that was not flushed is torn,   *)
(* the temporary files stay behind.                                        *)
InSweep(t) == thread[t].at \in {"list", "evict"}

PowerCut ==
    /\ faults < MaxFaults /\ faults' = faults + 1
    /\ thread' = [t \in Threads |-> Idle]
    /\ cachedConfig' = NoSettings /\ lastConfig' = NoSettings /\ fetchedAt' = 0
    /\ files' = [k \in DOMAIN files |->
                    IF files[k].synced THEN files[k] ELSE [files[k] EXCEPT !.clip = Torn]]
    /\ cut' = (cut \/ \E t \in Threads : InSweep(t))
    /\ UNCHANGED <<world, browser, writes, asks, edits>>

SynthesisInit ==
    /\ stored \in Settings
    /\ inForce = [s \in Settings |-> IF s = stored THEN 0 ELSE -Ttl - 1]
    /\ time = 0 /\ cachedConfig = NoSettings /\ fetchedAt = 0 /\ lastConfig = NoSettings
    /\ files = <<>> /\ thread = [t \in Threads |-> Idle] /\ browser = <<>>
    /\ cut = FALSE /\ writes = 0 /\ asks = 0 /\ edits = 0 /\ faults = 0

Progress(t) ==
    \/ Fetch(t) \/ Adopt(t) \/ Compare(t) \/ Clear(t) \/ Remember(t) \/ Get(t)
    \/ Render(t) \/ ReplaceEntry(t) \/ ListEntries(t) 
    \/ Evict(t) \/ Answer(t) \/ AnswerError(t)

SynthesisNext ==
    \/ \E t \in Threads : Request(t) \/ Progress(t)
    \/ EditSettings \/ PassTime \/ PowerCut

SynthesisSpec == SynthesisInit /\ [][SynthesisNext]_synthesisVars

-----------------------------------------------------------------------------
(* A clip is what was asked for in the settings it was resolved with,      *)
(* whether it was rendered for this request or found in the cache, after   *)
(* edits, auditions, sweeps and power cuts (SynthesizeAnnouncementUseCase).*)
ClipIsAsAsked ==
    \A t \in Threads :
        ThreadAt(t, "answer") => thread[t].clip = Rendered(thread[t].config, thread[t].ask)

(* When no sweep is under way the cache is within its bound, unless the    *)
(* last sweep was cut off (AudioCache._evict_down_to_limit).               *)
CacheIsBounded ==
    ~cut /\ (\A t \in Threads : ~InSweep(t)) => Cardinality(DOMAIN files) <= MaxEntries

(* Requests that sweep the same entries do not fail over it: only an       *)
(* engine makes an announcement an error (AudioCache).                     *)
HousekeepingNeverFails ==
    \A t \in Threads : ThreadAt(t, "error") => thread[t].clip = Torn

(* The cache keeps its bound and never costs an announcement, whatever     *)
(* writes, sweeps and power cuts overlap.                                  *)
CacheIsKept == CacheIsBounded /\ HousekeepingNeverFails

(* Settings a request begins to work with were stored within the last Ttl  *)
(* (with a Ttl of zero, since it began), however fetches overtake each     *)
(* other, unless its own fetch failed (CoreApiConfigClient.resolve).       *)
SettingsAreRecent ==
    \A t \in Threads :
        ThreadAt(t, "compare") /\ ~thread[t].failed
            => \/ inForce[thread[t].config] > thread[t].now - Ttl
               \/ Ttl = 0 /\ inForce[thread[t].config] >= thread[t].now

(* "Perubahan berlaku dalam waktu 30 detik": what the board would play if  *)
(* the ticket were called again was in force within the last Ttl, also     *)
(* when it comes from its browser.                                         *)
ChangeIsHeard ==
    \A text \in DOMAIN browser :
        IsFreshInBrowser(text) => inForce[browser[text].settings] > time - Ttl
===============================================================================
