------------------------------ MODULE CommandOnce ------------------------------
(***************************************************************************)
(* What the command contract promises of a launch command: however often   *)
(* it is sent, by however many requests at a time, it makes one Attempt,   *)
(* and every answer the client gets names that Attempt.                    *)
(***************************************************************************)
CONSTANTS Command, Attempt, NoAttempt

VARIABLES
  effects,   \* the pairs of a command and an Attempt it has made
  told       \* the Attempt the last answer to a command named, or NoAttempt

Init ==
  /\ effects = {}
  /\ told = [c \in Command |-> NoAttempt]

Unexecuted(c) == \A e \in effects : e[1] # c
Unused(a) == \A e \in effects : e[2] # a

Execute(c, a) ==
  /\ Unexecuted(c) /\ Unused(a)
  /\ effects' = effects \union {<<c, a>>}
  /\ UNCHANGED told

Answer(c, a) ==
  /\ <<c, a>> \in effects
  /\ told' = [told EXCEPT ![c] = a]
  /\ UNCHANGED effects

Next == \E c \in Command, a \in Attempt : Execute(c, a) \/ Answer(c, a)

Spec == Init /\ [][Next]_<<effects, told>>
================================================================================
