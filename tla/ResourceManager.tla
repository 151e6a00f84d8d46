-------------------------- MODULE ResourceManager --------------------------
(***************************************************************************)
(* ResourceManager.m: the sounds (SoundEffects) and the music              *)
(* (BackgroundMusic) of one manager.  Termination ends both; otherwise     *)
(* they share no state, so that a behaviour in which the screens ask for   *)
(* the ones and for the other is made of two in which they ask for one     *)
(* kind only: asks says for which.                                         *)
(***************************************************************************)
EXTENDS SoundEffects, Integers, Sequences

CONSTANTS
  Tracks,      \* the music files
  PacketsOf,   \* the packets in each, perhaps none
  PerBuffer    \* the packets in half a second's buffer; none fits if they
               \*   are larger than a buffer may be

ASSUME MusicAssumption == PacketsOf \in [Tracks -> Nat] /\ PerBuffer \in Nat

VARIABLES
  asks,   \* "sounds" or "music"
  manager, track, mQueue, queues, playing, enqueued, finished,
  mCurrentPacket, mNumPacketsToRead, unfilled, failed, pc

musicVars == <<manager, track, mQueue, queues, playing, enqueued, finished,
               mCurrentPacket, mNumPacketsToRead, unfilled, failed, pc>>
allVars == <<asks, vars, musicVars>>

Music == INSTANCE BackgroundMusic WITH Files <- Tracks, Packets <- PacketsOf

ManagerInit == asks \in {"sounds", "music"} /\ Init /\ Music!Init

SoundCall ==
  /\ asks = "sounds"
  /\ (\E file \in Files : Preload(file) \/ PlaySound(file)) \/ MemoryWarning
  /\ UNCHANGED <<asks, musicVars>>

MusicCall ==
  /\ asks = "music"
  /\ (\E file \in Tracks : Music!PlayMusic(file)) \/ Music!StopMusic
  /\ UNCHANGED <<asks, vars>>

MusicStep == Music!MainStep /\ UNCHANGED <<asks, vars>>
BufferPlayed == Music!BufferPlayed /\ UNCHANGED <<asks, vars>>

(* shutdown purges the sounds, then tears the engine down.                 *)
Shutdown == Terminate /\ Music!Terminate /\ UNCHANGED asks

ManagerNext == SoundCall \/ MusicCall \/ MusicStep \/ BufferPlayed \/ Shutdown

(* The main thread runs on in a call and takes up callbacks that are due;  *)
(* a queue that was started plays its buffers.                             *)
ManagerSpec ==
  /\ ManagerInit /\ [][ManagerNext]_allVars
  /\ WF_allVars(MusicStep) /\ WF_allVars(BufferPlayed)
-----------------------------------------------------------------------------
(* The buffers hold the packets of the track in the order in which they    *)
(* are heard, and one queue is alive at most (SoundEngine.cpp:565).        *)
PlaysInOrder == Music!PlaysInOrder
OneQueue == Music!OneQueue

(* A track that is left alone comes back to its first packet for ever      *)
(* (ResourceManager.h, playMusic).                                         *)
Repeats == Music!Repeats
=============================================================================
