--------------------------- MODULE VideoPipeline ----------------------------
(***************************************************************************)
(* The packing thread of the server (_video_pack_rtp) between the queue of *)
(* NAL units, which some other thread fills, and the packetizer.           *)
(*                                                                         *)
(* Both sides hold the lock of the queue for all they do with it, so that  *)
(* a critical section is a step; waiting splits the packing thread's into  *)
(* the part before cdk_cnd_wait and the part after.                        *)
(*                                                                         *)
(* The loop waits while the queue is NOT empty.  What it dequeues is then  *)
(* no unit but the empty queue's own memory taken for one: a unit of any   *)
(* size and marker, unless the process ends there.                         *)
(***************************************************************************)
EXTENDS RtpPacketizer

CONSTANT MaxPosted   \* bound: how many units are posted to the queue

VARIABLES
  at,      \* the packing thread: "boot" (not started), "lock" (about to lock
           \* or holding the lock), "wait" (in cdk_cnd_wait), "pack"
  nalus,   \* the NALU queue: the numbers of the units in it
  posted   \* history: how many units were posted

pipeVars == <<at, nalus, posted>>
vars == <<packVars, pipeVars>>

Init ==
  /\ PackInit
  /\ at = "boot" /\ nalus = <<>> /\ posted = 0

\* The RTP queue, its condition and its lock are initialised through a null
\* pointer before the thread is created: undefined, as in RtspServer!StartUp.
Boot ==
  /\ at = "boot" /\ pc # "ended"
  /\ \/ at' = "lock" /\ UNCHANGED packVars
     \/ EndsElsewhere /\ UNCHANGED at
  /\ UNCHANGED <<nalus, posted>>

\* Another thread posts a unit as rtp_queue_post posts a packet: lock, enqueue,
\* signal, unlock.  The signal wakes the packing thread if it waits.
PostUnit ==
  /\ pc # "ended" /\ posted < MaxPosted
  /\ posted' = posted + 1
  /\ nalus' = Append(nalus, posted + 1)
  /\ at' = IF at = "wait" THEN "lock" ELSE at
  /\ UNCHANGED packVars

\* The condition of the loop, as it is written.
MustWait == nalus # <<>>

Wait ==
  /\ at = "lock" /\ pc # "ended" /\ MustWait
  /\ at' = "wait"
  /\ UNCHANGED <<packVars, nalus, posted>>

\* A condition variable may wake without a signal; the loop tests again.
WakeUp ==
  /\ at = "wait" /\ pc # "ended"
  /\ at' = "lock"
  /\ UNCHANGED <<packVars, nalus, posted>>

Dequeue ==
  /\ at = "lock" /\ ~MustWait
  /\ Call
  /\ at' = "pack"
  /\ nalus' = IF nalus = <<>> THEN nalus ELSE Tail(nalus)
  /\ UNCHANGED posted

\* The node that is none is looked into: reading it may end the process.
DequeueTraps ==
  /\ at = "lock" /\ ~MustWait /\ nalus = <<>>
  /\ EndsElsewhere
  /\ UNCHANGED pipeVars

\* rtp_nalu2rtp runs, and after it the loop begins again.
Packing ==
  /\ at = "pack" /\ Pack
  /\ at' = IF pc' = "idle" THEN "lock" ELSE at
  /\ UNCHANGED <<nalus, posted>>

PackTraps == at = "pack" /\ Traps /\ UNCHANGED pipeVars

ServerEnds == EndsElsewhere /\ UNCHANGED pipeVars

PackThread == Wait \/ Dequeue \/ Packing

Next ==
  \/ Boot \/ PostUnit \/ PackThread \/ WakeUp
  \/ DequeueTraps \/ PackTraps \/ ServerEnds

\* The packing thread is scheduled.  Nobody has to post, and nothing has to wake
\* a waiting thread but the signal, which PostUnit delivers itself; undefined
\* behaviour is never counted on to end anything.
Spec == Init /\ [][Next]_vars /\ WF_vars(PackThread)

-----------------------------------------------------------------------------
\* What the inverted condition comes to: once a unit is posted the thread finishes
\* what it has in hand, whatever its size, and is then never found packing again,
\* whenever posts, signals and spurious wake-ups meet the loop.
StopsForGood == posted > 0 ~> [](at # "pack" \/ pc = "ended")
=============================================================================
