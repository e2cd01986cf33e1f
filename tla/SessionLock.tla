----------------------------- MODULE SessionLock -----------------------------
(***************************************************************************)
(* What the flow-controller session promises the flows that share it:     *)
(* one owner at a time; a flow that will not wait takes the session only   *)
(* when nobody owns it; flows that do wait are served in the order they    *)
(* came, and a leaving owner hands the session to the first of them        *)
(* directly, so nobody can slip in between.                                *)
(*                                                                         *)
(* This is the abstract specification that FcSession implements.           *)
(***************************************************************************)
EXTENDS Naturals, Sequences

CONSTANTS
    Flow,       \* the flows that compete for the session
    NoFlow      \* not a flow: nobody owns the session

VARIABLES
    owner,      \* the flow in the session, or NoFlow
    queue       \* the flows waiting for it, first come first

lockVars == <<owner, queue>>

Init ==
    /\ owner = NoFlow
    /\ queue = <<>>

Waits(f) == \E i \in 1..Len(queue) : queue[i] = f

\* A free session is taken; only a free one can be taken without waiting.
Take(f) ==
    /\ owner = NoFlow
    /\ owner' = f
    /\ UNCHANGED queue

\* An owned session is waited for, at the end of the queue.
Await(f) ==
    /\ owner \notin {NoFlow, f}
    /\ ~ Waits(f)
    /\ queue' = Append(queue, f)
    /\ UNCHANGED owner

\* The owner leaves: the first waiter owns the session in the same step.
Leave ==
    /\ owner # NoFlow
    /\ IF queue = <<>>
         THEN owner' = NoFlow /\ UNCHANGED queue
         ELSE owner' = Head(queue) /\ queue' = Tail(queue)

Next ==
    \/ \E f \in Flow : Take(f) \/ Await(f)
    \/ Leave

Safety == Init /\ [][Next]_lockVars

\* Every owner leaves in the end, so every waiter is served.
Spec == Safety /\ WF_lockVars(Leave)
==============================================================================
