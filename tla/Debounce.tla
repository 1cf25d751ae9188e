------------------------------ MODULE Debounce ------------------------------
(***************************************************************************)
(* What the meltdown of deployment_reconciler.go promises, without queues, *)
(* caches, copies and retries: a trigger stamps the deployment, the stamp  *)
(* ages, and only a stamp as old as the window may be taken off for one    *)
(* deploy.  A deploy publishes at most once, something no newer than the   *)
(* inputs, and what is published never goes back.                          *)
(***************************************************************************)
EXTENDS Integers

CONSTANT Window  \* ReconcileSkipDuration

VARIABLES
    inputs,    \* the versions of the spec and of what it refers to
    present,   \* the deployment has not been deleted
    stamp,     \* NoStamp, or the time until the window is over
    age,       \* time since the last deploy began, up to Window
    running,   \* a deploy has begun and not ended
    published  \* the inputs in the with-ops manifest, or Nothing

vars == <<inputs, present, stamp, age, running, published>>

NoStamp == -1
Nothing == <<>>

AtMost(a, b) == a[1] <= b[1] /\ a[2] <= b[2]

Init ==
    /\ inputs = <<0, 0>> /\ published = Nothing
    /\ present = TRUE /\ running = FALSE
    /\ stamp = NoStamp /\ age = 0

Change ==
    /\ inputs' \in {<<inputs[1] + 1, inputs[2]>>, <<inputs[1], inputs[2] + 1>>}
    /\ UNCHANGED <<present, stamp, age, running, published>>

Open ==
    /\ stamp = NoStamp /\ ~running
    /\ stamp' = Window
    /\ UNCHANGED <<inputs, present, age, running, published>>

\* The window is over and everything until now is merged into one deploy.
Begin ==
    /\ stamp = 0 /\ ~running
    /\ stamp' = NoStamp
    /\ running' = TRUE /\ age' = 0
    /\ UNCHANGED <<inputs, present, published>>

\* The stamp is off, but nobody knows.
BeginLost ==
    /\ stamp = 0 /\ ~running
    /\ stamp' = NoStamp
    /\ UNCHANGED <<inputs, present, age, running, published>>

Publish ==
    /\ running
    /\ running' = FALSE
    /\ published' \in (0 .. inputs[1]) \X (0 .. inputs[2])
    /\ published # Nothing => AtMost(published, published')
    /\ UNCHANGED <<inputs, present, stamp, age>>

Fail ==
    /\ running
    /\ running' = FALSE
    /\ UNCHANGED <<inputs, present, stamp, age, published>>

Remove ==
    /\ present
    /\ present' = FALSE
    /\ UNCHANGED <<inputs, stamp, age, running, published>>

Collect ==
    /\ ~present
    /\ published' = Nothing
    /\ UNCHANGED <<inputs, present, stamp, age, running>>

Tick ==
    /\ stamp' = IF stamp > 0 THEN stamp - 1 ELSE stamp
    /\ age' = IF age < Window THEN age + 1 ELSE age
    /\ UNCHANGED <<inputs, present, running, published>>

Next ==
    Change \/ Open \/ Begin \/ BeginLost \/ Publish \/ Fail \/ Remove \/ Collect
    \/ Tick

Spec == Init /\ [][Next]_vars
=============================================================================
