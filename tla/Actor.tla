------------------------------- MODULE Actor -------------------------------
(***************************************************************************)
(* What one actor promises to the program that spawned it, with nothing    *)
(* said of mailbox locks, of the five-valued state word or of the pool.    *)
(*                                                                         *)
(* An actor takes messages while it is open, hands them to Handle one at a *)
(* time in the order in which they were accepted, and takes and hands over *)
(* none once it is closed.  What is then left in its inbox is thrown away  *)
(* and the user's object is destroyed, once, with no handler running.      *)
(*                                                                         *)
(* ActorControlBlock implements this specification.                        *)
(***************************************************************************)
EXTENDS Sequences

CONSTANTS Threads,    \* the threads that may run a handler
          Messages    \* the message objects that can be sent

VARIABLES inbox,      \* accepted and not yet handed to Handle
          open,       \* Stop has not taken effect
          handlers,   \* the threads inside Handle
          alive       \* the user's object exists

vars == <<inbox, open, handlers, alive>>

Init ==
  /\ inbox = << >>
  /\ open = TRUE
  /\ handlers = {}
  /\ alive = TRUE

\* Send returns true.
Accept(m) ==
  /\ open
  /\ inbox' = Append(inbox, m)
  /\ UNCHANGED <<open, handlers, alive>>

\* The oldest message is handed to Handle; nobody else is in Handle.
Take(t) ==
  /\ open
  /\ handlers = {}
  /\ inbox # << >>
  /\ inbox' = Tail(inbox)
  /\ handlers' = {t}
  /\ UNCHANGED <<open, alive>>

\* Handle returns or throws.
Leave(t) ==
  /\ t \in handlers
  /\ handlers' = handlers \ {t}
  /\ UNCHANGED <<inbox, open, alive>>

\* Stop takes effect.
Close ==
  /\ open
  /\ open' = FALSE
  /\ UNCHANGED <<inbox, handlers, alive>>

\* What was not handed over is thrown away.
Discard ==
  /\ ~open
  /\ handlers = {}
  /\ alive
  /\ inbox' = << >>
  /\ UNCHANGED <<open, handlers, alive>>

\* The user's object is destroyed.
Destroy ==
  /\ ~open
  /\ handlers = {}
  /\ inbox = << >>
  /\ alive
  /\ alive' = FALSE
  /\ UNCHANGED <<inbox, open, handlers>>

Next ==
  \/ \E m \in Messages : Accept(m)
  \/ \E t \in Threads : Take(t) \/ Leave(t)
  \/ Close
  \/ Discard
  \/ Destroy

Spec == Init /\ [][Next]_vars
=============================================================================
