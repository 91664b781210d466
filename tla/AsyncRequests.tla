--------------------------- MODULE AsyncRequests ---------------------------
(***************************************************************************)
(* What the asynchronous half of the Allocation API promises its callers   *)
(* (spec sections 4.2 and 5): an upload or download call that returns nil  *)
(* has handed its request over; the request is started once, by the        *)
(* dispatcher, as a task of its own, and that task ends.  Nothing about    *)
(* channels, goroutines or progress maps: those are how Allocation keeps   *)
(* the promise.                                                            *)
(***************************************************************************)
CONSTANT Reqs        \* the calls

VARIABLE status      \* status[r]: "idle", "queued", "running", "finished"

Init == status = [r \in Reqs |-> "idle"]

Step(r, from, to) == /\ status[r] = from
                     /\ status' = [status EXCEPT ![r] = to]

\* The call returns nil: the request is accepted.
Submit(r) == Step(r, "idle", "queued")

\* The dispatcher hands the request to a task of its own.
Start(r) == Step(r, "queued", "running")

\* The task completes, successfully or not, and reports it.
Finish(r) == Step(r, "running", "finished")

Next == \E r \in Reqs : Submit(r) \/ Start(r) \/ Finish(r)

\* Dispatch is never withheld from a queued request and a task always ends.
Spec == /\ Init
        /\ [][Next]_status
        /\ \A r \in Reqs : WF_status(Start(r)) /\ WF_status(Finish(r))

=============================================================================
