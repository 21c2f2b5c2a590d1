-------------------------- MODULE RhiConnection --------------------------
(***************************************************************************)
(* What a Realm may rely on when it talks to the host through an RHI host  *)
(* session: there is at most one connection, each connection has an        *)
(* identifier that was never given out before, and every transfer that is  *)
(* reported as finished is a transfer that was requested on the connection *)
(* that is still open, with the length it was requested with.              *)
(*                                                                         *)
(* RhiSession, the model of val_host_rhi.c, implements this module.        *)
(***************************************************************************)
EXTENDS Naturals

CONSTANTS Directions,   \* the two ways data can go: "send" and "recv"
          Lengths       \* the lengths a transfer can have

VARIABLES phase,        \* "closed", "opening", "open" or "closing"
          id,           \* the identifier of the connection, 0 when closed
          issued,       \* every identifier given out so far
          pending,      \* pending[d]: length of the unfinished transfer, 0 if none
          report        \* the transfer the last answer reported as finished

vars == <<phase, id, issued, pending, report>>

Nothing == [dir |-> "none", id |-> 0, len |-> 0]
Idle == [d \in Directions |-> 0]

Init ==
    /\ phase = "closed"
    /\ id = 0
    /\ issued = {}
    /\ pending = Idle
    /\ report = Nothing

\* A connection is opened at once or in two steps; its identifier is new.
Open ==
    /\ phase = "closed"
    /\ phase' \in {"opening", "open"}
    /\ id' \in Nat /\ id' \notin issued \cup {0}
    /\ issued' = issued \cup {id'}
    /\ pending' = Idle
    /\ report' = Nothing

Opened ==
    /\ phase = "opening"
    /\ phase' = "open"
    /\ report' = Nothing
    /\ UNCHANGED <<id, issued, pending>>

\* A transfer that needs a second call to finish.
Start(d) ==
    /\ phase = "open"
    /\ pending[d] = 0
    /\ \E n \in Lengths \ {0} : pending' = [pending EXCEPT ![d] = n]
    /\ report' = Nothing
    /\ UNCHANGED <<phase, id, issued>>

\* The second call: it reports the length of the transfer that was started.
Finish(d) ==
    /\ phase = "open"
    /\ pending[d] # 0
    /\ report' = [dir |-> d, id |-> id, len |-> pending[d]]
    /\ pending' = [pending EXCEPT ![d] = 0]
    /\ UNCHANGED <<phase, id, issued>>

\* A transfer that is finished by the call that requests it.
Transfer(d) ==
    /\ phase = "open"
    /\ pending = Idle
    /\ \E n \in Lengths \ {0} : report' = [dir |-> d, id |-> id, len |-> n]
    /\ UNCHANGED <<phase, id, issued, pending>>

\* Closing drops whatever was unfinished.
Close ==
    /\ \/ phase = "open" /\ phase' \in {"closing", "closed"}
       \/ phase = "closing" /\ phase' = "closed"
    /\ IF phase' = "closed" THEN id' = 0 /\ pending' = Idle
                            ELSE UNCHANGED <<id, pending>>
    /\ report' = Nothing
    /\ UNCHANGED issued

\* A refused call or a query reports nothing and changes nothing.
Refuse ==
    /\ report' = Nothing
    /\ UNCHANGED <<phase, id, issued, pending>>

Next ==
    \/ Open
    \/ Opened
    \/ Close
    \/ Refuse
    \/ \E d \in Directions : Start(d) \/ Finish(d) \/ Transfer(d)

Spec == Init /\ [][Next]_vars
==========================================================================
