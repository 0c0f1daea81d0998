----------------------------- MODULE DurableStream -----------------------------
(***************************************************************************)
(* What the output of a Session promises its reader, without files, rows,  *)
(* crashes, connections or Snapshots: the chunks of the PTY become durable *)
(* in their order and are never taken back, and a view shows a beginning   *)
(* of what is durable and only grows.  SessionOutput implements it.        *)
(***************************************************************************)
EXTENDS Naturals, Sequences

VARIABLES
  stored,   \* the durable chunks, in order
  views,    \* views opened so far
  seen      \* what the current view shows

vars == <<stored, views, seen>>

Init == stored = <<>> /\ views = 0 /\ seen = <<>>

\* The next chunk becomes durable.
Store ==
  /\ stored' = Append(stored, Len(stored) + 1)
  /\ UNCHANGED <<views, seen>>

\* A new view begins with any part of it.
Open ==
  /\ \E n \in 0 .. Len(stored) : seen' = SubSeq(stored, 1, n)
  /\ views' = views + 1 /\ UNCHANGED stored

\* The view goes on.
Show ==
  /\ \E n \in Len(seen) .. Len(stored) : seen' = SubSeq(stored, 1, n)
  /\ UNCHANGED <<stored, views>>

Next == Store \/ Open \/ Show

Spec == Init /\ [][Next]_vars
================================================================================
