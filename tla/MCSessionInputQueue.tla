------------------------ MODULE MCSessionInputQueue ------------------------
(* A small menu of deliveries for the run of SessionInputQueue: messages of *)
(* a known and of an anonymous sender, the call of a delegated task that    *)
(* waits for the reply, and notifications of two tasks of the session.      *)
EXTENDS SessionInputQueue

CONSTANTS t1, t2, k1, a1, a2, c1, alice

Plain(auth, policy) ==
    [notice |-> NoNotice, caller |-> NoCaller, auth |-> auth, policy |-> policy]
Called(call, task, auth) ==
    [notice |-> NoNotice, caller |-> [call |-> call, task |-> task],
     auth |-> auth, policy |-> "steer"]
Notified(task, phase) ==
    [notice |-> [task |-> task, phase |-> phase],
     caller |-> NoCaller, auth |-> Anonymous, policy |-> "queue"]

Menu ==
    {Plain(alice, "steer"), Plain(Anonymous, "queue"),
     Called(c1, k1, alice)}
        \cup {Notified(t1, phase) : phase \in {"completed", "cancelled", "request"}}
        \cup {Notified(t2, "completed")}
=============================================================================
