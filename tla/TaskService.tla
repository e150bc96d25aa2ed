---------------------------- MODULE TaskService ----------------------------
(***************************************************************************)
(* What a caller of the C API may rely on for the chains it appends,       *)
(* whatever the threads inside the instance do: chains are begun one at a  *)
(* time, in the order AsstAppendTask numbered them, each at most once, and *)
(* a chain that was discarded never begins.  Discarding is allowed at any  *)
(* time: AsstStop clears the queue.                                        *)
(***************************************************************************)
EXTENDS Naturals, Sequences

CONSTANT MaxTasks      \* bound on the ids handed out

VARIABLES
  pending,     \* ids appended and not yet begun, oldest first
  current,     \* the id being executed, 0 for none
  lastId       \* the last id handed out

vars == <<pending, current, lastId>>

Init ==
  /\ pending = <<>>
  /\ current = 0
  /\ lastId = 0

Submit ==
  /\ lastId < MaxTasks
  /\ lastId' = lastId + 1
  /\ pending' = Append(pending, lastId + 1)
  /\ UNCHANGED current

Begin ==
  /\ current = 0
  /\ pending # <<>>
  /\ current' = Head(pending)
  /\ pending' = Tail(pending)
  /\ UNCHANGED lastId

End ==
  /\ current # 0
  /\ current' = 0
  /\ UNCHANGED <<pending, lastId>>

\* The queue is cleared, or loses its oldest chain.
Discard ==
  /\ pending # <<>>
  /\ pending' \in {<<>>, Tail(pending)}
  /\ UNCHANGED <<current, lastId>>

Next == Submit \/ Begin \/ End \/ Discard

Spec == Init /\ [][Next]_vars
=============================================================================
