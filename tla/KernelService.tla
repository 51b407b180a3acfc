--------------------------- MODULE KernelService ---------------------------
(***************************************************************************)
(* What the HSA component promises to the guest that submits dispatches,   *)
(* with no thread, lock or condition variable: dispatches are served one   *)
(* at a time in the order of submission; the work-groups of the one in     *)
(* service are done by Workers, each at most once; an answer is given only *)
(* when no group is left to do, or when every worker has failed in this    *)
(* dispatch; and no dispatch is forgotten once its service has begun.      *)
(***************************************************************************)
EXTENDS Integers, Sequences

CONSTANTS Worker, Task, NoTask, Grids

VARIABLES
    waiting,   \* dispatches submitted and not started, in order
    active,    \* the dispatch in service, or NoTask
    launched,  \* its work-groups have been released to the workers
    todo,      \* its work-groups that nobody has done or lost yet
    failed,    \* the workers that failed in it
    verdict,   \* the answer to each dispatch
    down       \* the service has stopped for good

vars == <<waiting, active, launched, todo, failed, verdict, down>>

Init ==
    /\ waiting = <<>> /\ active = NoTask /\ launched = FALSE
    /\ todo = {} /\ failed = {} /\ down = FALSE
    /\ verdict = [t \in Task |-> "none"]

Submit(t) ==
    /\ verdict[t] = "none" /\ t # active
    /\ \A i \in DOMAIN waiting : waiting[i] # t
    /\ waiting' = Append(waiting, t)
    /\ UNCHANGED <<active, launched, todo, failed, verdict, down>>

Start ==
    /\ active = NoTask /\ waiting # <<>>
    /\ active' = Head(waiting) /\ waiting' = Tail(waiting)
    /\ UNCHANGED <<launched, todo, failed, verdict, down>>

Launch ==
    /\ active # NoTask /\ ~launched /\ verdict[active] = "none"
    /\ launched' = TRUE
    /\ \E n \in Grids : todo' = 0 .. n - 1
    /\ failed' = {}
    /\ UNCHANGED <<waiting, active, verdict, down>>

Work(g) ==
    /\ launched /\ g \in todo
    /\ todo' = todo \ {g}
    /\ UNCHANGED <<waiting, active, launched, failed, verdict, down>>

Fail(w, g) ==
    /\ launched /\ g \in todo /\ w \notin failed
    /\ todo' = todo \ {g} /\ failed' = failed \cup {w}
    /\ UNCHANGED <<waiting, active, launched, verdict, down>>

Over == todo = {} \/ failed = Worker

Complete ==
    /\ launched /\ Over /\ verdict[active] = "none"
    /\ verdict' = [verdict EXCEPT ![active] = "completed"]
    /\ launched' = FALSE /\ todo' = {} /\ failed' = {}
    /\ UNCHANGED <<waiting, active, down>>

\* An answer may be refused before the launch or after all work is over.
Drop ==
    /\ active # NoTask /\ verdict[active] = "none"
    /\ ~launched \/ Over
    /\ verdict' = [verdict EXCEPT ![active] = "dropped"]
    /\ launched' = FALSE /\ todo' = {} /\ failed' = {}
    /\ UNCHANGED <<waiting, active, down>>

Retire ==
    /\ active # NoTask /\ verdict[active] # "none"
    /\ active' = NoTask
    /\ UNCHANGED <<waiting, launched, todo, failed, verdict, down>>

Stop == down' = TRUE
        /\ UNCHANGED <<waiting, active, launched, todo, failed, verdict>>

Serve ==
    \/ Launch \/ Complete \/ Drop \/ Retire
    \/ \E g \in todo : Work(g) \/ \E w \in Worker : Fail(w, g)

Next ==
    /\ ~down
    /\ Start \/ Serve \/ Stop \/ \E t \in Task : Submit(t)

Spec == Init /\ [][Next]_vars

FairSpec == Spec /\ WF_vars(~down /\ Serve)
=============================================================================
