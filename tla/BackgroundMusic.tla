-------------------------- MODULE BackgroundMusic --------------------------
(***************************************************************************)
(* playMusic and stopMusic of ResourceManager.m over the track manager of  *)
(* SoundEngine.cpp.  The system's audio queue plays the buffers it is      *)
(* given on a thread of its own and calls QueueCallback, on the main run   *)
(* loop, for each one it has played; so callbacks fall between calls of    *)
(* the application and never inside one, while buffers end at any time.    *)
(*                                                                         *)
(* playMusic unloads before it loads and adds nothing to a track that is   *)
(* loaded: mBGFileInfo holds one track at most, the next one of            *)
(* QueueCallback is the track itself, and the queue states for a change of *)
(* format or of buffers do not arise.                                      *)
(***************************************************************************)
EXTENDS Integers, Sequences

CONSTANTS
  Files,          \* the music files
  Packets,        \* the packets in each, perhaps none
  PerBuffer       \* the packets half a second's buffer holds

kNumberBuffers == 3
NoTrack == [file |-> "none"]

VARIABLES
  manager,        \* whether sBackgroundTrackMgr is there
  track,          \* mBGFileInfo: NoTrack or the one track, with mLoadAtOnce,
                  \*   mFileDataInQueue, and whether it has been deleted
  mQueue,         \* whether the manager has a queue
  queues,         \* the number of queues that have not been disposed of
  playing,        \* whether the queue has been started
  enqueued,       \* the packets in each buffer of the queue, in order
  finished,       \* buffers that have been played and wait for the callback
  mCurrentPacket,
  mNumPacketsToRead,
  unfilled,       \* buffers SetupBuffers has yet to allocate and fill
  failed,         \* whether a step failed since the track was asked for
  pc              \* the main thread: "idle", "allocate", "reading", "ended",
                  \*   "start", "undefined" or "terminated"

setup == <<manager, mQueue, queues>>
vars == <<setup, track, playing, enqueued, finished, mCurrentPacket,
          mNumPacketsToRead, unfilled, failed, pc>>

(* SoundEngine_Initialize: a manager without a track.                      *)
Init ==
  /\ manager = TRUE /\ track = NoTrack
  /\ mQueue = FALSE /\ queues = 0 /\ playing = FALSE
  /\ enqueued = <<>> /\ finished = <<>>
  /\ mCurrentPacket = 0 /\ mNumPacketsToRead = 0
  /\ unfilled = 0 /\ failed = FALSE
  /\ pc = "idle"

Deleted == track # NoTrack /\ track.deleted

(* The manager's Teardown reads and deletes the track it lists: nothing is *)
(* known of the program once that has been deleted before.                 *)
Undefined == pc' = "undefined" /\ UNCHANGED <<setup, track, playing, enqueued,
               finished, mCurrentPacket, mNumPacketsToRead, unfilled, failed>>

(* SoundEngine_StopBackgroundMusic and ..UnloadBackgroundMusicTrack: the   *)
(* queue is stopped and disposed of with its buffers and the callbacks     *)
(* that were due.                                                          *)
Silenced == playing' = FALSE /\ enqueued' = <<>> /\ finished' = <<>>
QueuesLeft == IF mQueue THEN queues - 1 ELSE queues

TrackOf(file, deleted) ==
  [file |-> file, deleted |-> deleted, inQueue |-> FALSE,
   atOnce |-> PerBuffer * kNumberBuffers > Packets[file]]

(* A new manager, and its constructor.                                     *)
Fresh ==
  /\ manager' = TRUE
  /\ mCurrentPacket' = 0
  /\ Silenced

(* LoadTrack cannot open the file.  StartBackgroundMusic without a queue   *)
(* is an error nobody looks at.                                            *)
OpenFails ==
  /\ Fresh /\ failed' = TRUE
  /\ track' = NoTrack /\ mNumPacketsToRead' = 0
  /\ mQueue' = FALSE /\ queues' = QueuesLeft
  /\ unfilled' = 0 /\ pc' = "idle"

(* SetupQueue fails, before or after it has made the queue: the track is   *)
(* deleted and stays in the list.                                          *)
SetupFails(file) ==
  /\ Fresh /\ failed' = TRUE
  /\ track' = TrackOf(file, TRUE) /\ mNumPacketsToRead' = 0
  /\ mQueue' \in BOOLEAN /\ queues' = QueuesLeft + (IF mQueue' THEN 1 ELSE 0)
  /\ unfilled' = 0 /\ pc' = "start"

SetupKeepsOldQueue(file) ==
  /\ Fresh /\ failed' = FALSE
  /\ track' = TrackOf(file, FALSE)
  /\ mQueue' = TRUE /\ queues' = queues + 1
  /\ mNumPacketsToRead' = IF track'.atOnce THEN Packets[file] ELSE PerBuffer
  /\ unfilled' = IF track'.atOnce THEN 1 ELSE kNumberBuffers
  /\ pc' = "allocate"

(* The queue is there and SetupBuffers begins: one buffer for all of a     *)
(* track that three can hold, three for a longer one.                      *)
SetupSucceeds(file) ==
  /\ Fresh /\ failed' = FALSE
  /\ track' = TrackOf(file, FALSE)
  /\ mQueue' = TRUE /\ queues' = QueuesLeft + 1
  /\ mNumPacketsToRead' = IF track'.atOnce THEN Packets[file] ELSE PerBuffer
  /\ unfilled' = IF track'.atOnce THEN 1 ELSE kNumberBuffers
  /\ pc' = "allocate"

(* playMusic, up to the buffers.                                           *)
PlayMusic(file) ==
  /\ pc = "idle"
  /\ IF Deleted THEN Undefined
     ELSE OpenFails \/ SetupFails(file) \/ SetupSucceeds(file)

(* SetupBuffers' loop.  If a buffer cannot be had, LoadTrack deletes the   *)
(* track and leaves it in the list; playMusic starts what there is.        *)
Allocate ==
  /\ pc = "allocate"
  /\ \/ unfilled = 0 /\ pc' = "start" /\ UNCHANGED <<track, unfilled, failed>>
     \/ unfilled > 0 /\ pc' = "reading" /\ UNCHANGED <<track, unfilled, failed>>
     \/ /\ unfilled > 0 /\ pc' = "start"
        /\ track' = [track EXCEPT !.deleted = TRUE]
        /\ unfilled' = 0 /\ failed' = TRUE
  /\ UNCHANGED <<setup, playing, enqueued, finished, mCurrentPacket,
                 mNumPacketsToRead>>

(* The end of QueueCallback: back to SetupBuffers, which then calls the    *)
(* file's data queued, or to the run loop.                                 *)
CallbackReturns(inQueue) ==
  /\ track' = [track EXCEPT !.inQueue = inQueue \/ (unfilled > 0 /\ track.atOnce)]
  /\ pc' = IF unfilled > 0 THEN "allocate" ELSE "idle"
  /\ unfilled' = IF unfilled > 0 THEN unfilled - 1 ELSE 0

(* AudioFileReadPackets gives what is left of the file, at most.           *)
Readable ==
  LET left == Packets[track.file] - mCurrentPacket
  IN  IF left < mNumPacketsToRead THEN left ELSE mNumPacketsToRead

ReadForgetsHowMany ==
  /\ pc = "reading" /\ Readable > 0
  /\ enqueued' = Append(enqueued, [from |-> mCurrentPacket, n |-> Readable])
  /\ mCurrentPacket' = mCurrentPacket + mNumPacketsToRead
  /\ CallbackReturns(track.atOnce)
  /\ UNCHANGED <<setup, playing, finished, mNumPacketsToRead, failed>>

(* Packets are read and the buffer is enqueued.                            *)
Read ==
  /\ pc = "reading" /\ Readable > 0
  /\ enqueued' = Append(enqueued, [from |-> mCurrentPacket, n |-> Readable])
  /\ mCurrentPacket' = mCurrentPacket + Readable
  /\ CallbackReturns(track.atOnce)
  /\ UNCHANGED <<setup, playing, finished, mNumPacketsToRead, failed>>

(* One of the two calls fails: QueueCallback just returns, and the buffer  *)
(* is never used again.                                                    *)
ReadFails ==
  /\ pc = "reading"
  /\ failed' = TRUE
  /\ CallbackReturns(track.inQueue)
  /\ UNCHANGED <<setup, playing, enqueued, finished, mCurrentPacket,
                 mNumPacketsToRead>>

(* No packet was read: the file has ended.                                 *)
ReadNothing ==
  /\ pc = "reading" /\ Readable = 0
  /\ pc' = "ended"
  /\ UNCHANGED <<setup, track, playing, enqueued, finished, mCurrentPacket,
                 mNumPacketsToRead, unfilled, failed>>

RewindForgotten ==
  /\ pc = "ended"
  /\ track' = [track EXCEPT !.inQueue = FALSE]
  /\ pc' = "reading"
  /\ UNCHANGED <<setup, playing, enqueued, finished, mCurrentPacket,
                 mNumPacketsToRead, unfilled, failed>>

(* The next track is this one: GetQueueStateForNextBuffer forgets that its *)
(* data is queued, and the loop reads again, from the beginning.           *)
Rewind ==
  /\ pc = "ended"
  /\ mCurrentPacket' = 0
  /\ track' = [track EXCEPT !.inQueue = FALSE]
  /\ pc' = "reading"
  /\ UNCHANGED <<setup, playing, enqueued, finished, mNumPacketsToRead,
                 unfilled, failed>>

(* StartBackgroundMusic: priming or starting may fail.                     *)
Start ==
  /\ pc = "start"
  /\ playing' \in {mQueue, FALSE}
  /\ pc' = "idle"
  /\ UNCHANGED <<setup, track, enqueued, finished, mCurrentPacket,
                 mNumPacketsToRead, unfilled, failed>>

(* The audio queue has played its first buffer.                            *)
BufferPlayed ==
  /\ pc \notin {"undefined", "terminated"}
  /\ playing /\ enqueued # <<>>
  /\ enqueued' = Tail(enqueued)
  /\ finished' = Append(finished, Head(enqueued))
  /\ UNCHANGED <<setup, track, playing, mCurrentPacket, mNumPacketsToRead,
                 unfilled, failed, pc>>

(* QueueCallback from the run loop.  A track that is in its buffer whole   *)
(* is enqueued again as it is; its packet number, which grows by the       *)
(* packets enqueued, is of no use any more and is left at the end.         *)
QueueCallback ==
  /\ pc = "idle" /\ finished # <<>>
  /\ \/ Deleted /\ Undefined
     \/ /\ ~ Deleted /\ track.inQueue
        /\ finished' = Tail(finished)
        /\ \/ enqueued' = Append(enqueued, Head(finished)) /\ failed' = failed
           \/ enqueued' = enqueued /\ failed' = TRUE
        /\ UNCHANGED <<setup, track, playing, mCurrentPacket, mNumPacketsToRead,
                       unfilled, pc>>
     \/ /\ ~ Deleted /\ ~ track.inQueue
        /\ finished' = Tail(finished)
        /\ pc' = "reading"
        /\ UNCHANGED <<setup, track, playing, enqueued, mCurrentPacket,
                       mNumPacketsToRead, unfilled, failed>>

(* stopMusic, and SoundEngine_Teardown when the application terminates:    *)
(* the manager goes.                                                       *)
Remove(next) ==
  /\ pc = "idle"
  /\ IF Deleted THEN Undefined
     ELSE /\ manager' = FALSE /\ track' = NoTrack
          /\ mQueue' = FALSE /\ queues' = QueuesLeft
          /\ Silenced
          /\ pc' = next
          /\ UNCHANGED <<mCurrentPacket, mNumPacketsToRead, unfilled, failed>>

StopMusic == Remove("idle")
Terminate == Remove("terminated")

MainStep ==
  \/ Allocate \/ Read \/ ReadFails \/ ReadNothing \/ Rewind \/ Start
  \/ QueueCallback

Next ==
  \/ \E file \in Files : PlayMusic(file)
  \/ StopMusic \/ Terminate
  \/ MainStep
  \/ BufferPlayed

(* The main thread runs on in a call and takes up callbacks that are due;  *)
(* a queue that was started plays its buffers.                             *)
Spec == Init /\ [][Next]_vars /\ WF_vars(MainStep) /\ WF_vars(BufferPlayed)
-----------------------------------------------------------------------------
Buffers == [from : Nat, n : Nat]
TracksListed == [file : Files, deleted : BOOLEAN, inQueue : BOOLEAN, atOnce : BOOLEAN]

TypeOK ==
  /\ manager \in BOOLEAN /\ mQueue \in BOOLEAN /\ playing \in BOOLEAN /\ failed \in BOOLEAN
  /\ track \in TracksListed \union {NoTrack}
  /\ queues \in Nat /\ mCurrentPacket \in Nat /\ mNumPacketsToRead \in Nat
  /\ enqueued \in Seq(Buffers) /\ finished \in Seq(Buffers)
  /\ unfilled \in 0 .. kNumberBuffers
  /\ pc \in {"idle", "allocate", "reading", "ended", "start", "undefined", "terminated"}

Buffered == finished \o enqueued

After(buffer) == (buffer.from + buffer.n) % Packets[track.file]

(* Whatever was lost to errors, the buffers hold the packets of the track  *)
(* in the order in which they are heard, from its last packet on to its    *)
(* first, and the next packet to be read continues the last buffer.        *)
PlaysInOrder ==
  /\ \A k \in 1 .. Len(Buffered) - 1 : Buffered[k + 1].from = After(Buffered[k])
  /\ Buffered # <<>> =>
       mCurrentPacket % Packets[track.file] = After(Buffered[Len(Buffered)])

(* There is the manager's queue and no other: no track goes on playing     *)
(* under the next one, and nothing plays when the music has been stopped.  *)
OneQueue ==
  /\ queues = IF mQueue THEN 1 ELSE 0
  /\ ~ manager => ~ mQueue
  /\ ~ mQueue => ~ playing /\ Buffered = <<>>

(* A buffer is filled only for a track that is open, from the packets the  *)
(* track has.                                                              *)
FilledFromTrack ==
  /\ pc \in {"allocate", "reading", "ended"} => track # NoTrack /\ ~ track.deleted /\ mQueue
  /\ track # NoTrack => mCurrentPacket <= Packets[track.file]
  /\ Buffered # <<>> => track # NoTrack /\ 0 < Packets[track.file]

(* A track that is loaded at once is in one buffer, whole; or in none, and *)
(* then it is still to be read from its beginning.                         *)
WholeInOneBuffer ==
  track # NoTrack /\ track.atOnce =>
    /\ Buffered \in {<<>>, << [from |-> 0, n |-> Packets[track.file]] >>}
    /\ track.deleted \/ mNumPacketsToRead = Packets[track.file]
    /\ ~ track.inQueue => Buffered = <<>> /\ mCurrentPacket = 0
    /\ unfilled <= 1
    /\ unfilled > 0 \/ pc \in {"reading", "ended"} => ~ track.inQueue

(* A track that is streamed is read to its end before it is rewound.       *)
ReadToTheEnd ==
  track # NoTrack /\ ~ track.atOnce =>
    /\ ~ track.inQueue
    /\ Buffered # <<>> => 0 < mNumPacketsToRead
    /\ Buffered # <<>> /\ pc = "ended" => mCurrentPacket = Packets[track.file]

(* The inductive invariant.                                                *)
IInv ==
  /\ TypeOK /\ FilledFromTrack /\ WholeInOneBuffer /\ ReadToTheEnd
  /\ PlaysInOrder /\ OneQueue

Undisturbed == playing /\ ~ failed /\ pc # "undefined"

(* ResourceManager.h of playMusic: "play and loop a music file".  A track  *)
(* that is left alone comes back to its first packet for ever.             *)
Repeats ==
  <>[]Undisturbed => []<>(enqueued # <<>> /\ Head(enqueued).from = 0)
=============================================================================
