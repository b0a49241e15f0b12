------------------------------- MODULE Server -------------------------------
(***************************************************************************)
(* What a transcriber promises the other end of one connection.  It runs   *)
(* one session at a time, says its fragments 1, 2, 3, ... and then perhaps *)
(* that it has ended, and says nothing of a session that it has not been   *)
(* told to start, that has ended, or that it was told to stop.             *)
(*                                                                         *)
(* Scribe's server is this one; Transcriber, the PoC server task by task,  *)
(* implements it.                                                          *)
(***************************************************************************)
EXTENDS Naturals, Sequences

CONSTANTS SessionId, None

VARIABLES
  served,       \* the session that runs, or None
  sequenceNo,   \* the number of its next fragment
  unread        \* what it has said and the other end has not read

vars == <<served, sequenceNo, unread>>

Fragment(s, n) == [type |-> "CommitText", session |-> s, fragment |-> n]
Ended(s)       == [type |-> "Ended", session |-> s]

Init ==
  /\ served = None
  /\ sequenceNo = 1
  /\ unread = <<>>

\* A session ends, or the whole connection does.
Forgets == served' = None /\ sequenceNo' = 1

Starts(s) ==
  /\ served = None
  /\ served' = s
  /\ UNCHANGED sequenceNo

\* An interrupt of another session than the running one is late: ignored.
Interrupted(s) == IF served = s THEN Forgets ELSE UNCHANGED <<served, sequenceNo>>

Says(m) ==
  /\ served # None
  /\ \/ /\ m = Fragment(served, sequenceNo)
        /\ sequenceNo' = sequenceNo + 1
        /\ UNCHANGED served
     \/ m = Ended(served) /\ Forgets

Next ==
  \/ (\E s \in SessionId : Starts(s) \/ Interrupted(s)) /\ UNCHANGED unread
  \/ Forgets /\ UNCHANGED unread
  \/ \E m \in {Fragment(served, sequenceNo), Ended(served)} :
       Says(m) /\ unread' = Append(unread, m)
  \/ unread # <<>> /\ unread' = Tail(unread) /\ UNCHANGED <<served, sequenceNo>>

Spec == Init /\ [][Next]_vars
=============================================================================
