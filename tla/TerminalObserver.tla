--------------------------- MODULE TerminalObserver ---------------------------
(***************************************************************************)
(* TerminalStreamObserver (core/terminal_stream_observer.cc) and Terminal  *)
(* (core/terminal.cc): the registry of terminals and the thread that takes *)
(* frames from the pool and writes each one to every terminal of its type. *)
(*                                                                         *)
(* A terminal is registered under its descriptor, is for MP3 or AAC by the *)
(* parity of that descriptor, and keeps the descriptor it writes to; so    *)
(* the registry is the set of registered descriptors.                      *)
(***************************************************************************)
EXTENDS FramePool, Sockets

Mp3 == "mp3"   \* eAudioMp3 and eTerminalMp3
Aac == "aac"   \* eAudioAac and eTerminalAac

\* Select() chooses the type when it creates the terminal: clnt_sock % 2 == 0.
\* C's -1 % 2 is not 0 either, so a failed accept() makes an AAC terminal.
TerminalType(fd) == IF fd % 2 = 0 THEN Mp3 ELSE Aac

VARIABLES
  terminals,   \* the keys of terminalMap_
  madeFor,     \* history: the connection a registered terminal was made for
  obsPc,       \* where the observer's thread is in Loop() and NotifyAll()
  obsType,     \* the audio type that Loop() is busy with
  frameBuf,    \* frameBuf_
  todo,        \* the terminals that NotifyAll() still has to write to
  obsExiting   \* m_exiting

obsVars == <<terminals, madeFor, obsPc, obsType, frameBuf, todo, obsExiting>>

\* Mutant: no MutexLockGuard.
MutexIgnored == TRUE

\* NotifyAll() holds mutex_ from its first to its last write; Register and
\* Unregister hold it for one step.
MutexFree == obsPc # "send"

ObsInit ==
  /\ terminals = {}
  /\ madeFor = [fd \in Fds |-> NoPeer]
  /\ obsPc = "unstarted"
  /\ obsType = Mp3
  /\ frameBuf = NoFrame
  /\ todo = {}
  /\ obsExiting = FALSE

-----------------------------------------------------------------------------
(* Called by the server thread. *)

\* The guard on mutex_ is the lock, the rest is find() and insert().
RegisterTerminal(fd) ==
  /\ MutexFree
  /\ IF fd \in terminals
       THEN UNCHANGED <<terminals, madeFor>>                    \* returns 1
       ELSE /\ terminals' = terminals \cup {fd}                 \* returns 0
            /\ madeFor' = [madeFor EXCEPT ![fd] = conn[fd]]
  /\ UNCHANGED <<obsPc, obsType, frameBuf, todo, obsExiting>>

\* Mutant: erase() is not reached.
UnregisterNothing(fd) == MutexFree /\ UNCHANGED obsVars

UnregisterTerminal(fd) ==
  /\ MutexFree
  /\ terminals' = terminals \ {fd}
  /\ madeFor' = [madeFor EXCEPT ![fd] = NoPeer]
  /\ UNCHANGED <<obsPc, obsType, frameBuf, todo, obsExiting>>

-----------------------------------------------------------------------------
(* The observer's thread: Loop(). *)

StartObserver ==
  /\ obsPc = "unstarted"
  /\ obsPc' = "check"
  /\ UNCHANGED <<terminals, madeFor, obsType, frameBuf, todo, obsExiting>>

\* while(!m_exiting)
ObsCheck ==
  /\ obsPc = "check"
  /\ obsPc' = IF obsExiting THEN "done" ELSE "take"
  /\ UNCHANGED <<terminals, madeFor, obsType, frameBuf, todo, obsExiting>>
  /\ UNCHANGED <<poolVars, sockVars>>

\* After the MP3 half comes the AAC half, then usleep(22000) and the next turn.
NextHalf ==
  /\ obsPc' = IF obsType = Mp3 THEN "take" ELSE "check"
  /\ obsType' = IF obsType = Mp3 THEN Aac ELSE Mp3

ObsTake ==
  /\ obsPc = "take"
  /\ TakeFrame(obsType)
  /\ frameBuf' = TakenFrame(obsType, frameBuf)
  /\ IF CanTake(obsType)
       THEN obsPc' = "lock" /\ UNCHANGED obsType
       ELSE NextHalf
  /\ UNCHANGED <<terminals, madeFor, todo, obsExiting, sockVars>>

\* Mutant: the loop writes to every terminal, whatever its type.
ObsLockAllTypes ==
  /\ obsPc = "lock"
  /\ obsPc' = "send"
  /\ todo' = terminals
  /\ UNCHANGED <<terminals, madeFor, obsType, frameBuf, obsExiting, poolVars, sockVars>>

\* NotifyAll() takes mutex_: from here to the unlock the registry is frozen, so
\* the terminals that the loop will meet are known.
ObsLock ==
  /\ obsPc = "lock"
  /\ obsPc' = "send"
  /\ todo' = {fd \in terminals : TerminalType(fd) = obsType}
  /\ UNCHANGED <<terminals, madeFor, obsType, frameBuf, obsExiting, poolVars, sockVars>>

\* Terminal::Send(): one blocking write() of the frame to the terminal's own
\* descriptor, whose failure is printed and forgotten.  Its copy into buffer_ is
\* never read.
Send(fd) == Write(fd, << <<obsType, frameBuf>> >>)

\* Mutant: the loop stops after the first terminal of the type.
ObsSendOnce ==
  /\ obsPc = "send"
  /\ \E fd \in todo :
       /\ \A other \in todo : fd <= other
       /\ Send(fd)
  /\ todo' = {}
  /\ UNCHANGED <<terminals, madeFor, obsPc, obsType, frameBuf, obsExiting, poolVars>>

\* One turn of NotifyAll()'s loop over the std::map, in the order of the keys.
ObsSend ==
  /\ obsPc = "send"
  /\ \E fd \in todo :
       /\ \A other \in todo : fd <= other
       /\ Send(fd)
       /\ todo' = todo \ {fd}
  /\ UNCHANGED <<terminals, madeFor, obsPc, obsType, frameBuf, obsExiting, poolVars>>

\* End of NotifyAll(): mutex_ is released, and Loop() drops its frame.
ObsUnlock ==
  /\ obsPc = "send"
  /\ todo = {}
  /\ frameBuf' = NoFrame
  /\ NextHalf
  /\ UNCHANGED <<terminals, madeFor, todo, obsExiting, poolVars, sockVars>>

ObserverNext == ObsCheck \/ ObsTake \/ ObsLock \/ ObsSend \/ ObsUnlock

\* The destructor's m_exiting = true; it then joins the thread.
StopObserver ==
  /\ obsExiting' = TRUE
  /\ UNCHANGED <<terminals, madeFor, obsPc, obsType, frameBuf, todo>>

=============================================================================
