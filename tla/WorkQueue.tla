------------------------------ MODULE WorkQueue ------------------------------
(***************************************************************************)
(* The work queue controller-runtime v0.8.2 gives every controller, for    *)
(* one key: client-go's delaying, rate-limited queue.  It is not part of   *)
(* this repository; what is modelled is what the reconcilers rely on.      *)
(*                                                                         *)
(*   dirty  the key waits to be handed to a worker (adding it again while  *)
(*          it waits, or while a worker holds it, is merged);              *)
(*   due    time units until the delaying queue adds the key, NotWaiting   *)
(*          if it holds no entry for the key.                              *)
(*                                                                         *)
(* A key is never handed to two workers at once.                           *)
(***************************************************************************)
EXTENDS Integers

NotWaiting == -1

QueueType(maxDelay) == [dirty : BOOLEAN, due : NotWaiting .. maxDelay]

EmptyQueue == [dirty |-> FALSE, due |-> NotWaiting]

\* A watch event or an expired timer.
Add(queue) == [queue EXCEPT !.dirty = TRUE]

\* Result.RequeueAfter, and with a short delay the rate-limited retry of a
\* reconcile that returned an error.  An entry that already waits for the key
\* is only ever moved forward.
AddAfter(queue, delay) ==
    [queue EXCEPT !.due = IF @ = NotWaiting \/ delay < @ THEN delay ELSE @]

\* A worker takes the key.
Take(queue) == [queue EXCEPT !.dirty = FALSE]

\* The delaying queue hands over an entry that is due; this may happen any
\* time after the delay has passed.
Expire(queue) == [dirty |-> TRUE, due |-> NotWaiting]

\* One unit of time passes for a countdown that is still running.
Countdown(n) == IF n > 0 THEN n - 1 ELSE n

Elapse(queue) == [queue EXCEPT !.due = Countdown(@)]
==============================================================================
