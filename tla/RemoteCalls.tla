---------------------------- MODULE RemoteCalls ----------------------------
(***************************************************************************)
(* What InvokeServer and InvokeClient promise a script, whatever network   *)
(* lies between (NetworkEvent.hpp: "request/response with a return value"): *)
(* a call runs one handler, once, and the caller gets the answer of that   *)
(* handler or none.                                                        *)
(***************************************************************************)
EXTENDS Naturals

CONSTANT Call   \* the calls scripts make

VARIABLE st     \* what has become of each call

Stage == {"none", "called", "running", "returned", "answered", "failed"}

Init == st = [k \in Call |-> "none"]

Move(k, from, to) == st[k] \in from /\ st' = [st EXCEPT ![k] = to]

\* A script makes the call.
Invoke(k) == Move(k, {"none"}, "called")

\* The handler starts: only once, as no step leads back to "called".
Start(k) == Move(k, {"called"}, "running")

\* The handler returns.
Return(k) == Move(k, {"running"}, "returned")

\* The caller gets the handler's result.
Answer(k) == Move(k, {"returned"}, "answered")

\* The call comes to nothing: no handler, or the handler raised.
Fail(k) == Move(k, {"called", "running"}, "failed")

Next == \E k \in Call : Invoke(k) \/ Start(k) \/ Return(k) \/ Answer(k) \/ Fail(k)

Spec == Init /\ [][Next]_st
=============================================================================
