---------------------------- MODULE QueueAbstract ----------------------------
(***************************************************************************)
(* What the request queue of qcedev promises its callers (spec section 3,  *)
(* "Single-Server Request Queue"): it "dispatches at most one [request] to *)
(* the hardware engine at a time, queues the rest in arrival order, and   *)
(* drains the queue as completions arrive".                                *)
(*                                                                         *)
(* The server is the request dispatched last and not yet retired; a start  *)
(* the engine refuses leaves the request without service, and one refused  *)
(* when dispatched from the queue holds the server unstarted until it is   *)
(* retired.  A caller returns only once its request has left the queue and *)
(* is not being served, and then it does return.  QcedevQueue implements   *)
(* this specification (QcedevQueue!QueueRefinement).                       *)
(***************************************************************************)
EXTENDS Sequences, SequencesExt

CONSTANTS Reqs, NoReq

VARIABLES
  queue,   \* requests waiting for the server, oldest first
  server,  \* the request holding the server, or NoReq
  started, \* the engine accepted the server's request
  phase    \* "new", "waiting" or "returned", for each caller

avars == <<queue, server, started, phase>>

Init ==
  /\ queue = <<>> /\ server = NoReq /\ started = FALSE
  /\ phase = [r \in Reqs |-> "new"]

\* A caller submits r: it takes an idle server, or its start is refused,
\* or it joins the end of the queue behind a busy one.
Arrive(r) ==
  /\ phase[r] = "new"
  /\ phase' = [phase EXCEPT ![r] = "waiting"]
  /\ \/ server = NoReq /\ server' = r /\ started' = TRUE /\ UNCHANGED queue
     \/ server = NoReq /\ UNCHANGED <<queue, server, started>>
     \/ server # NoReq /\ queue' = Append(queue, r) /\ UNCHANGED <<server, started>>

\* The server's request is retired and the oldest waiting one dispatched;
\* the engine may refuse to start it.
Retire ==
  /\ server # NoReq
  /\ IF queue = <<>> THEN server' = NoReq /\ started' = FALSE /\ UNCHANGED queue
     ELSE server' = Head(queue) /\ queue' = Tail(queue) /\ started' \in BOOLEAN
  /\ UNCHANGED phase

\* r's caller returns: r is neither queued nor being served.
Return(r) ==
  /\ phase[r] = "waiting"
  /\ ~Contains(queue, r) /\ (r = server => ~started)
  /\ phase' = [phase EXCEPT ![r] = "returned"]
  /\ UNCHANGED <<queue, server, started>>

Next == (\E r \in Reqs : Arrive(r) \/ Return(r)) \/ Retire

\* A served request is eventually retired and a caller whose request has
\* left the queue eventually returns; nothing forces a caller to arrive.
Spec == Init /\ [][Next]_avars /\ WF_avars(Retire)
        /\ \A r \in Reqs : WF_avars(Return(r))

====
