------------------------------- MODULE MCUnits -------------------------------
(***************************************************************************)
(* The parts of the pusher that stand alone, for TLC: the pool of frames,  *)
(* the PCM reframer, the blocking queue and the scanner of MP3 frames.     *)
(* A behaviour is of one of them, which unit names; the others rest in an  *)
(* initial state.                                                          *)
(***************************************************************************)
EXTENDS FramePool, PcmReframer, BlockingQueue, FrameScanner

CONSTANT MaxOffered   \* bound on the PutFrame calls per audio type

VARIABLE unit

vars == <<unit, poolVars, rvars, bqVars, scanVars>>

MCMaxFrames == [t \in AudioType |-> IF t = "mp3" THEN 2 ELSE 3]

MCMaxPuts == [t \in Producers |-> IF t = "p1" THEN 2 ELSE 1]

MCJunks == {<<>>, <<0, 251>>, <<255>>, <<0, 255, 251, 144>>}

RestFile == [junk |-> <<>>, frames |-> <<>>, cut |-> 0]

Init ==
  /\ unit \in {"pool", "reframer", "queue", "scanner"}
  /\ PoolInit /\ ReframerInit
  /\ BlockingQueueInit
  /\ unit # "queue" => ~block_ /\ capacity_ = CHOOSE c \in Capacities : TRUE
  /\ IF unit = "scanner" THEN ScannerInit ELSE OpenMp3(RestFile)

MCPoolNext ==
  \E t \in AudioType :
    \/ RegisterFramesPool(t)
    \/ UnregisterFramesPool(t)
    \/ offered[t] < MaxOffered /\ PutFrame(t)
    \/ TakeFrame(t)

PoolStep ==
  unit = "pool" /\ MCPoolNext /\ UNCHANGED <<unit, rvars, bqVars, scanVars>>

ReframerStep ==
  unit = "reframer" /\ ReframerNext /\ UNCHANGED <<unit, poolVars, bqVars, scanVars>>

InQueue(A) ==
  unit = "queue" /\ A /\ UNCHANGED <<unit, poolVars, rvars, scanVars>>

ScannerStep ==
  unit = "scanner" /\ ScannerNext /\ UNCHANGED <<unit, poolVars, rvars, bqVars>>

Next == PoolStep \/ ReframerStep \/ InQueue(BlockingQueueNext) \/ ScannerStep

\* BlockingQueueFairness, of the steps of this specification.
Fairness ==
  \A t \in QueueThreads :
    /\ WF_vars(InQueue(QueueStep(t) /\ at[t] # "waiting"))
    /\ WF_vars(InQueue(Wake(t) /\ t \notin notEmpty_ \cup notFull_))

Spec == Init /\ [][Next]_vars /\ Fairness

=============================================================================
