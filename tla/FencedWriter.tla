------------------------------ MODULE FencedWriter -----------------------------
(***************************************************************************)
(* What control of a Session promises, without Attachments, files, rows,   *)
(* handlers or crashes: there is one current writer at a time, each grant  *)
(* has a larger epoch, a write carries the epoch of the writer that may    *)
(* still write, an input is written at most once, and when the Session is  *)
(* over nobody is granted control again.  SessionControl implements it.    *)
(***************************************************************************)
EXTENDS Naturals, Sequences

CONSTANT Cmd

VARIABLES
  epoch,    \* the largest fencing token granted
  open,     \* the writer of that epoch may still write
  over,     \* the Session has ended
  written   \* what the PTY accepted: input and epoch, in order

vars == <<epoch, open, over, written>>

Init == epoch = 0 /\ open = FALSE /\ over = FALSE /\ written = <<>>

\* A first grant, or a takeover that fences the writer before.
Grant ==
  /\ ~over
  /\ epoch' = epoch + 1 /\ open' = TRUE
  /\ UNCHANGED <<over, written>>

\* The lease expires, is given up, or is lost with its Attachment.
Revoke ==
  /\ open
  /\ open' = FALSE
  /\ UNCHANGED <<epoch, over, written>>

Write(c) ==
  /\ open /\ ~over
  /\ \A i \in 1 .. Len(written) : written[i].cmd # c
  /\ written' = Append(written, [cmd |-> c, token |-> epoch])
  /\ UNCHANGED <<epoch, open, over>>

\* The Session ends, and control of it with it.
End ==
  /\ ~over
  /\ over' = TRUE /\ open' = FALSE
  /\ UNCHANGED <<epoch, written>>

Next == Grant \/ Revoke \/ End \/ \E c \in Cmd : Write(c)

Spec == Init /\ [][Next]_vars
================================================================================
