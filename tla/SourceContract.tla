--------------------------- MODULE SourceContract ---------------------------
(***************************************************************************)
(* What every capture source promises (package audiostream, interface      *)
(* Source): one session that ends once, for one cause.  The first cause    *)
(* recorded wins, Wait returns that cause and only after the session has   *)
(* ended, and no frame is delivered after that.  The concrete sources and  *)
(* the supervisor are checked to implement this specification.             *)
(***************************************************************************)
CONSTANTS
    Waiters,     \* goroutines that call Wait
    Causes,      \* terminal causes a Wait may return
    NoCause,     \* the nil error: no cause recorded yet
    Deliveries   \* the values the record of delivered frames may take

VARIABLES
    cause,       \* the recorded terminal cause, NoCause while running
    ended,       \* the session is over: every goroutine has been joined
    delivered,   \* the frames handed to OnFrame so far
    result       \* result[w]: what w's Wait returned, NoCause before it does

vars == <<cause, ended, delivered, result>>

Init ==
    /\ cause = NoCause
    /\ ended = FALSE
    /\ delivered \in Deliveries
    /\ result = [w \in Waiters |-> NoCause]

\* A terminal trigger: Close, a cancelled Wait context, a lost peer.
EndWith(c) ==
    /\ cause = NoCause
    /\ cause' = c
    /\ UNCHANGED <<ended, delivered, result>>

Finish ==
    /\ cause # NoCause
    /\ ~ended
    /\ ended' = TRUE
    /\ UNCHANGED <<cause, delivered, result>>

Deliver ==
    /\ ~ended
    /\ delivered' \in Deliveries
    /\ UNCHANGED <<cause, ended, result>>

Wait(w) ==
    /\ ended
    /\ result' = [result EXCEPT ![w] = cause]
    /\ UNCHANGED <<cause, ended, delivered>>

Next ==
    \/ \E c \in Causes : EndWith(c)
    \/ Finish
    \/ Deliver
    \/ \E w \in Waiters : Wait(w)

Spec == Init /\ [][Next]_vars
=============================================================================
