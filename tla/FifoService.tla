----------------------------- MODULE FifoService -----------------------------
(***************************************************************************)
(* What a message task promises to the code that posts to it, with no      *)
(* thread, lock or condition variable in sight: messages accepted while    *)
(* the service is open are performed one at a time, in the order they were *)
(* accepted.  Closing it refuses later messages; at most one message may   *)
(* still be performed after the close, the rest are discarded.             *)
(***************************************************************************)
EXTENDS Naturals, Sequences

CONSTANT Message           \* the messages that clients may post

VARIABLES
  pending,                 \* accepted, not yet performed: a queue
  performed,               \* the messages performed, oldest first
  open,                    \* FALSE once the service was closed
  grace                    \* after the close, may one message still start?

vars == <<pending, performed, open, grace>>

Init ==
  /\ pending = <<>>
  /\ performed = <<>>
  /\ open = TRUE
  /\ grace = TRUE

Accept(m) ==
  /\ open
  /\ pending' = Append(pending, m)
  /\ UNCHANGED <<performed, open, grace>>

Perform ==
  /\ pending # <<>>
  /\ open \/ grace
  /\ performed' = Append(performed, Head(pending))
  /\ pending' = Tail(pending)
  /\ grace' = (grace /\ open)
  /\ UNCHANGED open

Close ==
  /\ open
  /\ open' = FALSE
  /\ UNCHANGED <<pending, performed, grace>>

Discard ==
  /\ ~open
  /\ pending' = <<>>
  /\ grace' = FALSE
  /\ UNCHANGED <<performed, open>>

Next == (\E m \in Message : Accept(m)) \/ Perform \/ Close \/ Discard

Spec == Init /\ [][Next]_vars /\ WF_vars(open /\ Perform) /\ WF_vars(Discard)
==============================================================================
