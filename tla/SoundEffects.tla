---------------------------- MODULE SoundEffects ----------------------------
(***************************************************************************)
(* The sounds of ResourceManager.m over the effects of SoundEngine.cpp.    *)
(* The manager remembers a number for every file it was asked for, the     *)
(* engine an effect for every file it could load; the number of an effect  *)
(* is that of its OpenAL source.  The device has few sources and buffers,  *)
(* and a load may fail at any of its steps: getSound does not look.        *)
(***************************************************************************)
EXTENDS Naturals, FiniteSets

CONSTANTS
  Files,        \* the sound files the screens may ask for
  SourceLimit,  \* the sources of the device
  BufferLimit   \* its buffers

ASSUME LimitsAssumption == SourceLimit \in Nat /\ BufferLimit \in Nat

Sources == 1 .. SourceLimit
Buffers == 1 .. BufferLimit

(* A UInt32 that numbers no source stands for all of them: alGenSources    *)
(* never returns 0.                                                        *)
Numbers == Sources \union {0}

Silence == "silence"
ASSUME SilenceAssumption == Silence \notin Files

VARIABLES
  sounds,       \* ResourceManager.sounds: file to number, and whether the
                \*   load the number comes from succeeded (getSound drops it)
  effects,      \* mEffectsMap: source to the file and the buffer of an effect
  sources,      \* OpenAL: the sources that are allocated
  buffers,      \* OpenAL: the buffers that are allocated
  started,      \* the last playSound: the file, whether it had been loaded,
                \*   and the file of the effect that was started
  app           \* "running" or "terminated"

vars == <<sounds, effects, sources, buffers, started, app>>
engine == <<effects, sources, buffers>>

NoSounds == [f \in {} |-> 0]

(* ResourceManager's init and setupSound: an engine without effects.       *)
Init ==
  /\ sounds = NoSounds /\ effects = NoSounds
  /\ sources = {} /\ buffers = {}
  /\ started = [asked |-> Silence, loaded |-> FALSE, played |-> Silence]
  /\ app = "running"

(* What getSound puts into the dictionary.                                 *)
Cache(file, number, loaded) ==
  sounds' = [f \in DOMAIN sounds \union {file} |->
               IF f = file THEN [id |-> number, loaded |-> loaded] ELSE sounds[f]]

(* LoadEffect when AttachFilesToSource succeeds.                           *)
LoadSucceeds(file) ==
  \E s \in Sources \ sources, b \in Buffers \ buffers :
    /\ sources' = sources \union {s}
    /\ buffers' = buffers \union {b}
    /\ effects' = [t \in DOMAIN effects \union {s} |->
                     IF t = s THEN [file |-> file, buffer |-> b] ELSE effects[t]]
    /\ Cache(file, s, TRUE)

(* LoadEffect when a step of it fails: there may be no source, the file    *)
(* may be unreadable, and a buffer may have been generated.  The effect is *)
(* not deleted.  loadedsound stays uninitialized: any number.              *)
LoadFails(file) ==
  /\ \/ \E s \in Sources \ sources : sources' = sources \union {s}
     \/ sources' = sources
  /\ \/ \E b \in Buffers \ buffers : buffers' = buffers \union {b}
     \/ buffers' = buffers
  /\ effects' = effects
  /\ \E garbage \in Numbers : Cache(file, garbage, FALSE)

(* getSound: a number that is remembered is returned as it is.             *)
GetSound(file) ==
  \/ file \in DOMAIN sounds /\ UNCHANGED <<sounds, engine>>
  \/ file \notin DOMAIN sounds /\ (LoadSucceeds(file) \/ LoadFails(file))

(* getSound called by a screen to preload a sound.                         *)
Preload(file) ==
  /\ app = "running"
  /\ GetSound(file)
  /\ UNCHANGED <<started, app>>

(* playSound: StartEffect looks the number up.                             *)
PlaySound(file) ==
  /\ app = "running"
  /\ GetSound(file)
  /\ LET number == sounds'[file].id
     IN  started' =
           [asked  |-> file,
            loaded |-> sounds'[file].loaded,
            played |-> IF number \in DOMAIN effects' THEN effects'[number].file
                                                     ELSE Silence]
  /\ app' = app

(* UnloadEffect as Apple wrote it, left in a comment of the source: the    *)
(* number is used as an index into the map.                                *)
UnloadByIndex(ids) ==
  /\ LET there == {t \in ids : t < Cardinality(DOMAIN effects)}
     IN  effects' = [s \in DOMAIN effects \ there |-> effects[s]]
  /\ sources' = sources \ {s \in DOMAIN effects :
                             Cardinality({t \in DOMAIN effects : t < s}) \in ids}
  /\ buffers' = buffers

(* UnloadEffect of each of the numbers; a number of no effect is passed    *)
(* over.  The destructor deletes the source.                               *)
Unload(ids) ==
  /\ effects' = [s \in DOMAIN effects \ ids |-> effects[s]]
  /\ sources' = sources \ (DOMAIN effects \intersect ids)
  /\ buffers' = buffers

CachedIds == {sounds[f].id : f \in DOMAIN sounds}

PurgeKeepsNumbers ==
  /\ Unload(CachedIds)
  /\ sounds' = sounds

PurgeSounds ==
  /\ Unload(CachedIds)
  /\ sounds' = NoSounds

(* applicationDidReceiveMemoryWarning.                                     *)
MemoryWarning ==
  /\ app = "running"
  /\ PurgeSounds
  /\ UNCHANGED <<started, app>>

(* OpenALObject::Teardown: the loop counts up to a size that shrinks as it *)
(* takes effects from the front, so it deletes half of them, rounded up.   *)
TeardownLeaves(ids) ==
  {s \in ids : 2 * Cardinality({t \in ids : t < s}) >= Cardinality(ids)}

(* applicationWillTerminate: shutdown purges, then SoundEngine_Teardown,   *)
(* which closes the device with all it has allocated.                      *)
Terminate ==
  /\ app = "running"
  /\ LET left == DOMAIN effects \ CachedIds
     IN  effects' = [s \in TeardownLeaves(left) |-> effects[s]]
  /\ sources' = {} /\ buffers' = {} /\ sounds' = NoSounds
  /\ app' = "terminated"
  /\ started' = started

Next ==
  \/ \E file \in Files : Preload(file) \/ PlaySound(file)
  \/ MemoryWarning
  \/ Terminate

Spec == Init /\ [][Next]_vars
-----------------------------------------------------------------------------
TypeOK ==
  /\ DOMAIN sounds \subseteq Files
  /\ \A f \in DOMAIN sounds : sounds[f] \in [id : Numbers, loaded : BOOLEAN]
  /\ DOMAIN effects \subseteq sources
  /\ \A s \in DOMAIN effects : effects[s] \in [file : Files, buffer : Buffers]
  /\ sources \subseteq Sources /\ buffers \subseteq Buffers
  /\ started \in [asked  : Files \union {Silence},
                  loaded : BOOLEAN,
                  played : Files \union {Silence}]
  /\ app \in {"running", "terminated"}

(* Every effect of the engine is remembered under the file it was loaded   *)
(* from: purgeSounds, which goes by the numbers, reaches them all.         *)
EffectsTracked ==
  \A s \in DOMAIN effects :
    /\ effects[s].file \in DOMAIN sounds
    /\ sounds[effects[s].file] = [id |-> s, loaded |-> TRUE]

(* A number that came out of a load that succeeded is the number of that   *)
(* file's effect for as long as it is remembered, whatever numbers the     *)
(* failed loads left beside it.                                            *)
NumbersKept ==
  \A f \in DOMAIN sounds :
    sounds[f].loaded =>
      sounds[f].id \in DOMAIN effects /\ effects[sounds[f].id].file = f

(* A sound that could be loaded is the one that is heard, across purges    *)
(* and numbers used again, and whatever failed beside it.                  *)
LoadedSoundPlays == started.loaded => started.played = started.asked

(* The application leaves no effect behind when it terminates, although    *)
(* the engine's own teardown would leave every second one.                 *)
NothingLeftBehind == app = "terminated" => DOMAIN effects = {}

(* The inductive invariant.                                                *)
IInv ==
  /\ TypeOK
  /\ EffectsTracked /\ NumbersKept
  /\ LoadedSoundPlays /\ NothingLeftBehind

(* ResourceManager.m, line 140: "play specified file."  The number of a    *)
(* failed load is whatever the stack held, so that of another file too.    *)
PlaysSpecifiedFile == started.played \in {started.asked, Silence}
=============================================================================
