----------------------------- MODULE DevComm -----------------------------
(***************************************************************************)
(* val_host_dev_communicate: the host's part of a device transaction.  The *)
(* RMM drives the device through the host: each RMI_PDEV_COMMUNICATE or    *)
(* RMI_VDEV_COMMUNICATE call returns flags that ask the host to keep parts *)
(* of the exchange (the device's certificate, its measurements, ...) and   *)
(* to carry a request to the device's mailbox (DOE); the host brings the   *)
(* answer with its next call, until the device is in the wanted state.     *)
(*                                                                         *)
(* The mailbox is a set of registers: the host looks at them once, without *)
(* waiting, so an answer that is late stays in the mailbox.                *)
(*                                                                         *)
(* One device is modelled: a PDEV or a VDEV, which differ only in the      *)
(* object kinds they keep.  Calls follow each other on the same device, as *)
(* da_init, the RHI handlers and the teardown functions make them.         *)
(***************************************************************************)
EXTENDS Naturals, Sequences

CONSTANTS Objects,     \* object kinds this device keeps (cache_obj_id)
          OtherObject, \* a kind it does not keep
          Capacity,    \* size of the buffer of each kind
          ChunkLens,   \* lengths the RMM asks to keep, 0 for none
          MaxRounds    \* bound: RMI calls the RMM needs for a transaction

ASSUME CapacityAssumption == Capacity \in Nat
ASSUME ChunkAssumption == ChunkLens \subseteq Nat /\ 0 \in ChunkLens
ASSUME ObjectsAssumption == OtherObject \notin Objects
ASSUME RoundsAssumption == MaxRounds \in Nat \ {0}

VARIABLES pc,       \* where val_host_dev_communicate is
          rc,       \* its return code
          status,   \* dev_comm_enter->status, what the host tells the RMM
          exit,     \* dev_comm_exit, what the RMM asked for
          cache,    \* cache[k]: bytes kept of object k, and the parts they are made of
          dev,      \* the RMM's side: device state, open request, calls made
          doe,      \* the mailbox: its status bits, the request and the answer in it
          ask, got, \* a bit that numbers the RMM's requests; that of the answer given
          late,     \* history: the host gave up on an answer
          asked,    \* history: the parts the RMM asked to keep, in order,
                    \*          forgotten when one cannot be kept
          failed    \* history: some part could not be kept

box == <<doe, got, late>>
commvars == <<pc, rc, status, exit, cache, dev, ask, box, asked, failed>>

\* The kind and the place of the data mean something only when there is data.
Exits ==
    {e \in [req : ChunkLens, rsp : ChunkLens, obj : Objects \cup {OtherObject},
           in_granule : BOOLEAN, cache : BOOLEAN, send : BOOLEAN, more : BOOLEAN] :
        IF e.req = 0 /\ e.rsp = 0 THEN e.obj = OtherObject /\ e.in_granule ELSE e.cache}
Quiet(e) == ~e.cache /\ ~e.send /\ ~e.more      \* flags == 0

CommInit ==
    /\ pc = "idle"
    /\ rc = "ok"
    /\ status = "none"
    /\ exit \in {e \in Exits : Quiet(e)}
    /\ cache = [k \in Objects |-> [len |-> 0, parts |-> <<>>]]
    /\ dev = [state |-> "before", waiting |-> FALSE, rounds |-> 0]
    /\ doe = [busy |-> FALSE, ready |-> FALSE, error |-> FALSE, req |-> 0, resp |-> 0]
    /\ ask = 0 /\ got = 0 /\ late = FALSE
    /\ asked = [k \in Objects |-> <<>>]
    /\ failed = FALSE

Leave(code) ==
    /\ pc' = "returned"
    /\ rc' = code

\* The function is entered for a new transaction; it asks for the state first.
Call(state_read) ==
    /\ pc \in {"idle", "returned"}
    /\ status' = "none"
    /\ IF state_read THEN pc' = "rmi" /\ UNCHANGED rc ELSE Leave("error")
    /\ dev' = [dev EXCEPT !.rounds = 0,
                          !.state = IF @ = "error" THEN "error" ELSE "before"]
    /\ UNCHANGED <<exit, cache, ask, box, asked, failed>>

-----------------------------------------------------------------------------
\* The RMM.  It refuses a call that brings nothing when it waits for an answer
\* or an answer it did not wait for, gives up when it is told of an error, and
\* otherwise goes on for at most MaxRounds calls.  It is silent exactly when
\* the transaction is over.
Refuses == dev.waiting # (status # "none")

RmmAnswer(e, state) ==
    /\ Quiet(e) => state # "before"
    /\ dev.rounds + 1 >= MaxRounds => Quiet(e)
    /\ status = "error" \/ dev.state = "error" => state = "error" /\ Quiet(e)
    /\ dev' = [state |-> state, waiting |-> e.send,
               rounds |-> IF dev.rounds < MaxRounds THEN dev.rounds + 1 ELSE dev.rounds]

\* The parts of an exit that hold data, in the order request, response.
Part(kind, n) == IF n = 0 THEN <<>> ELSE <<<<kind, n>>>>
Parts(e) == Part("req", e.req) \o Part("rsp", e.rsp)

RmiCommunicate(accepted) ==
    /\ pc = "rmi"
    /\ IF accepted /\ ~Refuses
       THEN \E e \in Exits, state \in {"before", "target", "error"} :
              /\ RmmAnswer(e, state)
              /\ exit' = e
              /\ ask' = IF e.send THEN 1 - ask ELSE ask
              /\ asked' = [k \in Objects |->
                             IF k = e.obj /\ ~failed THEN asked[k] \o Parts(e) ELSE asked[k]]
              /\ pc' = IF e.cache THEN "cache" ELSE "doe"
              /\ UNCHANGED rc
       ELSE Leave("error") /\ UNCHANGED <<exit, dev, ask, asked>>
    /\ UNCHANGED <<status, cache, box, failed>>

-----------------------------------------------------------------------------
\* val_host_dev_cache_dev_object: the kind must be one the device keeps, the
\* part must lie in the granule, and the buffer must have room for it.
Keeps(c, part) ==
    exit.obj \in Objects /\ (part[2] = 0 \/ exit.in_granule) /\ c.len + part[2] <= Capacity

Keep(c, part) ==
    [len |-> c.len + part[2],
     parts |-> IF part[2] = 0 THEN c.parts ELSE Append(c.parts, part)]

\* Mutant: the response is kept before the request.
CacheRespReq ==
    /\ pc = "cache"
    /\ LET old == IF exit.obj \in Objects THEN cache[exit.obj] ELSE [len |-> 0, parts |-> <<>>]
           rsp == <<"rsp", exit.rsp>>
           req == <<"req", exit.req>>
           mid == IF Keeps(old, rsp) THEN Keep(old, rsp) ELSE old
           all == exit.req + exit.rsp # 0 /\ Keeps(old, rsp) /\ Keeps(mid, req)
       IN /\ cache' = [k \in Objects |->
                         IF k # exit.obj THEN cache[k]
                         ELSE IF all THEN Keep(mid, req) ELSE mid]
          /\ IF all THEN pc' = "doe" /\ UNCHANGED <<rc, failed, asked>>
                    ELSE /\ Leave("error")
                         /\ failed' = TRUE
                         /\ asked' = [k \in Objects |-> <<>>]
    /\ UNCHANGED <<status, exit, dev, ask, box>>

\* val_host_dev_cache_dev_req_resp: there must be something to keep; the
\* request is kept, then the response, and a response that cannot be kept
\* leaves the request in the buffer.
CacheReqResp ==
    /\ pc = "cache"
    /\ LET old == IF exit.obj \in Objects THEN cache[exit.obj] ELSE [len |-> 0, parts |-> <<>>]
           req == <<"req", exit.req>>
           rsp == <<"rsp", exit.rsp>>
           mid == IF Keeps(old, req) THEN Keep(old, req) ELSE old
           all == exit.req + exit.rsp # 0 /\ Keeps(old, req) /\ Keeps(mid, rsp)
       IN /\ cache' = [k \in Objects |->
                         IF k # exit.obj THEN cache[k]
                         ELSE IF all THEN Keep(mid, rsp) ELSE mid]
          /\ IF all THEN pc' = "doe" /\ UNCHANGED <<rc, failed, asked>>
                    ELSE /\ Leave("error")
                         /\ failed' = TRUE
                         /\ asked' = [k \in Objects |-> <<>>]
    /\ UNCHANGED <<status, exit, dev, ask, box>>

\* The exchange failed: the transaction is over.
DoeFailed ==
    /\ status' = "error"
    /\ Leave("error")
    /\ UNCHANGED <<exit, cache, dev, ask, got, asked, failed>>

\* val_host_pcie_doe_send_req: a mailbox that is busy or in error takes no request; one
\* that still holds an answer does.
SendReq ==
    /\ pc = "doe" /\ exit.send
    /\ \/ (doe.busy \/ doe.error) /\ DoeFailed /\ UNCHANGED <<doe, late>>
       \/ /\ ~doe.busy /\ ~doe.error
          /\ doe' = [doe EXCEPT !.busy = TRUE, !.req = ask]
          /\ pc' = "recv"
          /\ UNCHANGED <<rc, status, exit, cache, dev, ask, got, late, asked, failed>>

\* External: the device answers the request in its mailbox when the last answer was read.
DeviceAnswers(well) ==
    /\ doe.busy /\ ~doe.ready
    /\ doe' = [doe EXCEPT !.busy = FALSE, !.ready = well, !.error = ~well, !.resp = doe.req]
    /\ UNCHANGED <<pc, rc, status, exit, cache, dev, ask, got, late, asked, failed>>

\* val_host_pcie_doe_recv_resp: the answer is there or it is an error.
RecvResp ==
    /\ pc = "recv"
    /\ \/ ~doe.ready /\ DoeFailed /\ late' = TRUE /\ UNCHANGED doe
       \/ doe.ready /\ doe.error /\ DoeFailed /\ UNCHANGED <<doe, late>>
       \/ /\ doe.ready /\ ~doe.error
          /\ doe' = [doe EXCEPT !.ready = FALSE]
          /\ got' = doe.resp
          /\ status' = "response"
          /\ pc' = "state"
          /\ UNCHANGED <<rc, exit, cache, dev, ask, late, asked, failed>>

\* Mutant: the status of the last exchange is left when nothing is sent.
NoReqKeepsStatus ==
    /\ pc = "doe" /\ ~exit.send
    /\ pc' = "state"
    /\ UNCHANGED <<rc, status, exit, cache, dev, ask, box, asked, failed>>

NoReq ==
    /\ pc = "doe" /\ ~exit.send
    /\ status' = "none"
    /\ pc' = "state"
    /\ UNCHANGED <<rc, exit, cache, dev, ask, box, asked, failed>>

\* Mutant: the loop stops at the target although the RMM asks for more.
CheckStateOnly(state_read) ==
    /\ pc = "state"
    /\ \/ ~state_read /\ Leave("error")
       \/ state_read /\ dev.state = "target" /\ Leave("ok")
       \/ state_read /\ dev.state = "error" /\ Leave("error")
       \/ state_read /\ dev.state = "before" /\ pc' = "rmi" /\ UNCHANGED rc
    /\ UNCHANGED <<status, exit, cache, dev, ask, box, asked, failed>>

\* Mutant: a device in error is asked again.
CheckStateNoError(state_read) ==
    /\ pc = "state"
    /\ \/ ~state_read /\ Leave("error")
       \/ state_read /\ dev.state = "target" /\ Quiet(exit) /\ Leave("ok")
       \/ state_read /\ ~(dev.state = "target" /\ Quiet(exit)) /\ pc' = "rmi" /\ UNCHANGED rc
    /\ UNCHANGED <<status, exit, cache, dev, ask, box, asked, failed>>

\* The end of the loop body: stop at the target once the RMM is silent.
CheckState(state_read) ==
    /\ pc = "state"
    /\ \/ ~state_read /\ Leave("error")
       \/ state_read /\ dev.state = "target" /\ Quiet(exit) /\ Leave("ok")
       \/ state_read /\ dev.state = "error" /\ Leave("error")
       \/ /\ state_read /\ dev.state # "error" /\ ~(dev.state = "target" /\ Quiet(exit))
          /\ pc' = "rmi" /\ UNCHANGED rc
    /\ UNCHANGED <<status, exit, cache, dev, ask, box, asked, failed>>

Step ==
    \/ \E b \in BOOLEAN : RmiCommunicate(b) \/ CheckState(b)
    \/ CacheReqResp \/ SendReq \/ RecvResp \/ NoReq

CommNext == Step \/ \E b \in BOOLEAN : Call(b) \/ DeviceAnswers(b)

CommSpec == CommInit /\ [][CommNext]_commvars

\* The host runs the loop to its end.
CommFairSpec == CommSpec /\ WF_commvars(Step)

-----------------------------------------------------------------------------
\* As long as nothing was refused, what the host has kept of an object when it
\* calls the RMM or returns is what the RMM asked it to keep, all of it, in
\* the order it was asked for: the Realm compares digests of these bytes.
CacheInOrder ==
    pc \in {"rmi", "returned"} /\ ~failed =>
        \A k \in Objects : cache[k].parts = asked[k]

\* A transaction is reported as finished only when the device is in the wanted
\* state and the RMM has nothing left to ask.
DoneMeansDone ==
    pc = "returned" /\ rc = "ok" =>
        dev.state = "target" /\ ~dev.waiting /\ Quiet(exit)

\* Within a transaction the host answers the RMM exactly when it has a
\* question: the RMM never refuses a call because the host brought nothing, or
\* something it did not ask for.  The answer is the device's to that question, as long
\* as the host never gave up on one: after that it may be an older one.
AnswersRequests ==
    pc = "rmi" /\ dev.rounds # 0 =>
        /\ dev.waiting <=> status = "response"
        /\ dev.waiting /\ ~late => got = ask

\* Every transaction comes to an end.
Returns == pc # "idle" ~> pc = "returned"

==========================================================================
