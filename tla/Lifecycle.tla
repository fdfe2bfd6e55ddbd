----------------------------- MODULE Lifecycle ------------------------------
(***************************************************************************)
(* What the HTTP and the HLS source have in common: initiateShutdown, the  *)
(* one place every terminal trigger goes through, and the callers of Close *)
(* and Wait around it.  The extending module says what the worker          *)
(* goroutines do and leaves its other variables alone in these actions.    *)
(***************************************************************************)
EXTENDS Naturals, Sequences, FiniteSets

CONSTANTS
    Closers, Waiters,   \* goroutines that call Close, and Wait
    Workers             \* the source's own goroutines, "reader" among them

Callers == Closers \cup Waiters
Actors == Callers \cup Workers

ASSUME LifecycleAssumption ==
    /\ Closers \cap Waiters = {} /\ Callers \cap Workers = {}
    /\ "reader" \in Workers
    /\ {"free", "fired"} \cap Actors = {}

NoErr == "nil"

VARIABLES
    pc,          \* control point of every goroutine
    ret, cause,  \* where initiateShutdown returns to, and its argument
    once,        \* closeOnce: "free", the goroutine in it, or "fired"
    termErr, closing,
    cancelled,   \* the request context
    result       \* what each Wait returned

funnelVars == <<once, termErr, closing>>
callVars == <<pc, ret, cause>>
lifecycleVars == <<callVars, funnelVars, cancelled, result>>

LifecycleInit(start) ==
    /\ pc = [a \in Actors |-> IF a \in Workers THEN start[a] ELSE "idle"]
    /\ ret = [a \in Actors |-> "none"] /\ cause = [a \in Actors |-> NoErr]
    /\ once = "free" /\ termErr = NoErr /\ closing = FALSE
    /\ cancelled = FALSE
    /\ result = [w \in Waiters |-> NoErr]

At(a, p) == pc[a] = p
Go(a, p) == pc' = [pc EXCEPT ![a] = p]
Goto(a, p) == Go(a, p) /\ UNCHANGED <<ret, cause>>
Done == pc["reader"] = "done"

\* a calls initiateShutdown(c) and continues at next.
Shutdown(a, c, next) ==
    /\ Go(a, "once")
    /\ ret' = [ret EXCEPT ![a] = next]
    /\ cause' = [cause EXCEPT ![a] = c]

\* closeOnce.Do: a second caller waits until the first is through.
OnceDo(a) ==
    /\ At(a, "once")
    /\ \/ once = "free" /\ once' = a /\ Go(a, "setTerm")
       \/ once = "fired" /\ Go(a, ret[a]) /\ UNCHANGED once
    /\ UNCHANGED <<ret, cause, termErr, closing, cancelled, result>>

SetTerm(a) ==
    /\ At(a, "setTerm") /\ Go(a, "closing")
    /\ termErr' = IF termErr = NoErr THEN cause[a] ELSE termErr
    /\ UNCHANGED <<ret, cause, once, closing, cancelled, result>>

CloseClosing(a) ==
    /\ At(a, "closing") /\ Go(a, "cancel")
    /\ closing' = TRUE
    /\ UNCHANGED <<ret, cause, once, termErr, cancelled, result>>

CancelRequest(a) ==
    /\ At(a, "cancel") /\ Go(a, ret[a])
    /\ cancelled' = TRUE /\ once' = "fired"
    /\ UNCHANGED <<ret, cause, termErr, closing, result>>

Funnel(a) == OnceDo(a) \/ SetTerm(a) \/ CloseClosing(a) \/ CancelRequest(a)

Close(c) ==
    /\ At(c, "idle")
    /\ Shutdown(c, "errClosed", "returned")
    /\ UNCHANGED <<funnelVars, cancelled, result>>

WaitCtx(w) ==
    /\ At(w, "idle")
    /\ Shutdown(w, "ctxErr", "waitDone")
    /\ UNCHANGED <<funnelVars, cancelled, result>>

\* Mutant of WaitDone: a Wait whose context ended does not wait for the reader.
WaitDoneEarly(w) ==
    /\ pc[w] = "waitDone" \/ (pc[w] = "idle" /\ Done)
    /\ Goto(w, "returned")
    /\ result' = [result EXCEPT ![w] = termErr]
    /\ UNCHANGED <<funnelVars, cancelled>>

WaitDone(w) ==
    /\ pc[w] \in {"idle", "waitDone"} /\ Done
    /\ Goto(w, "returned")
    /\ result' = [result EXCEPT ![w] = termErr]
    /\ UNCHANGED <<funnelVars, cancelled>>

Calls ==
    \/ \E c \in Closers : Close(c)
    \/ \E w \in Waiters : WaitCtx(w) \/ WaitDone(w)

\* classifyReadErr: the recorded cause once shutdown is under way.
ReadCause(c) == IF closing /\ termErr # NoErr THEN termErr ELSE c
=============================================================================
