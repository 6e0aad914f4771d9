------------------------------ MODULE OneFault ------------------------------
(***************************************************************************)
(* What the lease on fault injection promises, without its control file:   *)
(* one program at a time has a fault in force.  A program may end without  *)
(* tidying up; what it leaves stays in everybody's way, and only when a    *)
(* lease has expired may the program that left it take it away.            *)
(***************************************************************************)

CONSTANT Programs  \* the runs that inject faults

VARIABLES
    holder,  \* programs with a fault in force
    left,    \* programs that ended and left their lease behind
    late     \* some lease has expired

vars == <<holder, left, late>>

Init == holder = {} /\ left = {} /\ late = FALSE

-----------------------------------------------------------------------------
\* A program takes the lease that nobody has or has left.
Take(c) ==
    /\ holder = {} /\ left = {}
    /\ holder' = {c}
    /\ UNCHANGED <<left, late>>

\* It gives the lease back ...
End(c) ==
    /\ holder = {c}
    /\ holder' = {}
    /\ UNCHANGED <<left, late>>

\* ... or is killed, or fails, and leaves it.
Abandon(c) ==
    /\ holder = {c} /\ left = {}
    /\ holder' = {} /\ left' = {c}
    /\ UNCHANGED late

\* A program that comes back finds its own lease expired and removes it.
Reclaim(c) ==
    /\ late
    /\ holder = {} /\ left = {c}
    /\ left' = {}
    /\ UNCHANGED <<holder, late>>

Expire == late' = TRUE /\ UNCHANGED <<holder, left>>

Next ==
    \/ \E c \in Programs : Take(c) \/ End(c) \/ Abandon(c) \/ Reclaim(c)
    \/ Expire

Spec == Init /\ [][Next]_vars

-----------------------------------------------------------------------------
\* No two programs have a fault in force, and none has while another's lease
\* is in the way.
OneAtATime ==
    \A c, d \in Programs :
      /\ c \in holder /\ d \in holder => c = d
      /\ c \in holder => d \notin left

\* What makes it inductive: one program at most has a fault or has left one.
AloneInv ==
    \/ holder = {} /\ left = {}
    \/ \E c \in Programs : {holder, left} = {{c}, {}}
=============================================================================
