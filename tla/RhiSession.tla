--------------------------- MODULE RhiSession ---------------------------
(***************************************************************************)
(* The host side of the Realm Host Interface: the session a Realm opens to *)
(* a peer through the host, and the firmware activity log (FAL) it reads   *)
(* from the host.  val_host_rhi_dispatch serves one call at a time         *)
(* from globals that no test resets, so the Realms of all the tests of a   *)
(* run talk to the same session.  The Realm is any caller: each action     *)
(* takes its arguments from small sets.                                    *)
(***************************************************************************)
EXTENDS Naturals

CONSTANTS Lengths,       \* lengths a Realm asks to send
          Sizes,         \* sizes of the buffers it receives into
          Offsets,       \* offsets into those buffers
          PayloadLen,    \* bytes the peer has for each receive
          LogSize,       \* RHI_FAL_LOG_SIZE
          MaxSessions    \* bound: sessions opened in a behaviour

ASSUME LengthsAssumption ==
    Lengths \subseteq Nat /\ Sizes \subseteq Nat /\ Offsets \subseteq Nat
ASSUME PayloadAssumption == PayloadLen \in Nat \ {0}
ASSUME LogAssumption == LogSize \in Nat
ASSUME SessionsAssumption == MaxSessions \in Nat

VARIABLES sess,          \* g_rhi_sess
          io,            \* g_rhi_send_state and g_rhi_recv_state
          next_id,       \* the counter of pal_rhi_alloc_session_id
          fal_offset,    \* g_fal_offset
          answer         \* the call answered last and rec_enter->gprs[0..3]

vars == <<sess, io, next_id, fal_offset, answer>>

Directions == {"send", "recv"}
ConnTypes == {"none", "blocking", "non_blocking", "both"}
Buffers == {"null", "unaligned", "aligned"}

NoSession == [session_id |-> 0, proto_state |-> "unconnected",
              id_in_use |-> FALSE, conn_type |-> "none"]
IoIs(state) == [d \in Directions |-> [proto_state |-> state, io_len |-> 0]]

\* The registers a handler writes.  A handler that returns early writes the
\* status only; what the other registers hold is then left over from some
\* earlier call and means nothing: 0 and "stale" here.
Answer(call, status, id, state, len) ==
    [call |-> call, status |-> status, id |-> id, state |-> state,
     len |-> len, left |-> 0]
Refusal(call, status) == Answer(call, status, 0, "stale", 0)

Init ==
    /\ sess = NoSession
    /\ io = IoIs("unconnected")
    /\ next_id = 1
    /\ fal_offset = 0
    /\ answer = Refusal("none", "success")

-----------------------------------------------------------------------------
Return(call, status) ==
    /\ answer' = Refusal(call, status)
    /\ UNCHANGED <<sess, io, next_id>>

\* Mutant: the identifier is not taken.
StartSessionSameId(conn, state) ==
    /\ next_id <= MaxSessions
    /\ UNCHANGED next_id
    /\ sess' = [session_id |-> next_id, proto_state |-> state,
                id_in_use |-> TRUE, conn_type |-> conn]
    /\ io' = IoIs("established")
    /\ answer' = Answer("open", "success", next_id, state, 0)

\* pal_rhi_alloc_session_id and the assignments of a first RHI_SESSION_OPEN.
StartSession(conn, state) ==
    /\ next_id <= MaxSessions
    /\ next_id' = next_id + 1
    /\ sess' = [session_id |-> next_id, proto_state |-> state,
                id_in_use |-> TRUE, conn_type |-> conn]
    /\ io' = IoIs("established")
    /\ answer' = Answer("open", "success", next_id, state, 0)

FirstOpen(id, conn, state) ==
    IF id # 0 \/ sess.id_in_use
    THEN Return("open", "invalid_id")
    ELSE StartSession(conn, state)

OpenBlocking(id) ==
    IF sess.proto_state # "unconnected"
    THEN Return("open", "invalid_state")
    ELSE FirstOpen(id, "blocking", "established")

KnownId(id) == sess.id_in_use /\ id # 0 /\ id = sess.session_id

OpenNonBlocking(id) ==
    \/ /\ sess.proto_state = "unconnected"
       /\ FirstOpen(id, "non_blocking", "in_progress")
    \/ /\ sess.proto_state = "in_progress"
       /\ ~KnownId(id)
       /\ Return("open", "invalid_id")
    \/ /\ sess.proto_state = "in_progress"
       /\ KnownId(id)
       /\ sess' = [sess EXCEPT !.proto_state = "established"]
       /\ answer' = Answer("open", "success", id, "established", 0)
       /\ UNCHANGED <<io, next_id>>
    \/ /\ sess.proto_state \in {"established", "closing"}
       /\ Return("open", "invalid_state")

SessionOpen(id, conn) ==
    /\ UNCHANGED fal_offset
    /\ \/ conn \in {"none", "both"} /\ Return("open", "type_not_supported")
       \/ conn = "blocking" /\ OpenBlocking(id)
       \/ conn = "non_blocking" /\ OpenNonBlocking(id)

-----------------------------------------------------------------------------
\* Mutant: the states of the transfers are not reset.
EndSessionKeepsIo ==
    /\ sess' = NoSession
    /\ answer' = Answer("close", "success", sess.session_id, "unconnected", 0)
    /\ UNCHANGED <<io, next_id>>

EndSession ==
    /\ sess' = NoSession
    /\ io' = IoIs("unconnected")
    /\ answer' = Answer("close", "success", sess.session_id, "unconnected", 0)
    /\ UNCHANGED next_id

SessionClose(id) ==
    /\ UNCHANGED fal_offset
    /\ \/ ~KnownId(id) /\ Return("close", "invalid_id")
       \/ /\ KnownId(id)
          /\ sess.conn_type = "blocking"
          /\ IF sess.proto_state # "established" THEN Return("close", "invalid_state")
                                                 ELSE EndSession
       \/ /\ KnownId(id)
          /\ sess.conn_type = "non_blocking"
          /\ \/ /\ sess.proto_state = "established"
                /\ sess' = [sess EXCEPT !.proto_state = "closing"]
                /\ answer' = Answer("close", "success", id, "closing", 0)
                /\ UNCHANGED <<io, next_id>>
             \/ sess.proto_state = "closing" /\ EndSession
             \/ sess.proto_state = "in_progress" /\ Return("close", "invalid_state")

-----------------------------------------------------------------------------
\* The checks that send and receive share.
Connected == sess.proto_state \notin {"unconnected", "in_progress", "closing"}
Ready(d) == io[d].proto_state \in {"established", "io_complete"}

IoIsNow(d, state, len) ==
    /\ io' = [io EXCEPT ![d] = [proto_state |-> state, io_len |-> len]]
    /\ UNCHANGED <<sess, next_id>>

\* The tail of both handlers once the data has been moved: a blocking session
\* is done, a non-blocking one reports the length on the next call.
Moved(d, len) ==
    \/ /\ sess.conn_type = "blocking"
       /\ IoIsNow(d, "io_complete", len)
       /\ answer' = Answer(d, "success", sess.session_id, "io_complete", len)
    \/ /\ sess.conn_type = "non_blocking"
       /\ IoIsNow(d, "io_in_progress", len)
       /\ answer' = Answer(d, "success", sess.session_id, "io_in_progress", 0)

\* The second call of a non-blocking transfer, whatever its arguments say.
Poll(d) ==
    /\ sess.conn_type = "non_blocking"
    /\ io[d].proto_state = "io_in_progress"
    /\ IoIsNow(d, "io_complete", io[d].io_len)
    /\ answer' = Answer(d, "success", sess.session_id, "io_complete", io[d].io_len)

Polls(d) == sess.conn_type = "non_blocking" /\ io[d].proto_state = "io_in_progress"

\* The host copies the payload into memory it allocates and compares it with
\* the pattern the peer expects.  Allocation fails for a zero length, and when
\* the heap of the test is used up: an input of the action.
SendPayload(length, heap_left, matches) ==
    \/ ~Ready("send") /\ Return("send", "invalid_state")
    \/ Ready("send") /\ (length = 0 \/ ~heap_left) /\ Return("send", "access_failed")
    \/ /\ Ready("send") /\ length # 0 /\ heap_left /\ ~matches
       /\ sess' = [sess EXCEPT !.proto_state = "established"]
       /\ answer' = Answer("send", "peer_not_available", sess.session_id, "established", 0)
       /\ UNCHANGED <<io, next_id>>
    \/ Ready("send") /\ length # 0 /\ heap_left /\ matches /\ Moved("send", length)

SessionSend(id, buffer, length, heap_left, matches) ==
    /\ UNCHANGED fal_offset
    /\ \/ ~KnownId(id) /\ Return("send", "invalid_id")
       \/ KnownId(id) /\ ~Connected /\ Return("send", "invalid_state")
       \/ KnownId(id) /\ Connected /\ buffer # "aligned" /\ Return("send", "access_failed")
       \/ KnownId(id) /\ Connected /\ buffer = "aligned" /\ Poll("send")
       \/ /\ KnownId(id) /\ Connected /\ buffer = "aligned" /\ ~Polls("send")
          /\ SendPayload(length, heap_left, matches)

\* A null buffer of size zero asks for the size; a buffer of size zero is filled.
ReceiveQuery(buffer, size) ==
    \/ /\ buffer = "null" /\ size = 0
       /\ answer' = Answer("recv", "success", sess.session_id, "buffer_size_determined", PayloadLen)
       /\ UNCHANGED <<sess, io, next_id>>
    \/ /\ buffer = "aligned" /\ size = 0
       /\ answer' = Answer("recv", "success", sess.session_id, "io_complete", 0)
       /\ UNCHANGED <<sess, io, next_id>>

Fits(size, offset) == offset < size /\ PayloadLen <= size - offset

SessionReceive(id, buffer, size, offset) ==
    /\ UNCHANGED fal_offset
    /\ \/ ~KnownId(id) /\ Return("recv", "invalid_id")
       \/ KnownId(id) /\ ~Connected /\ Return("recv", "invalid_state")
       \/ KnownId(id) /\ Connected /\ ReceiveQuery(buffer, size)
       \/ /\ KnownId(id) /\ Connected
          /\ ~(buffer = "null" /\ size = 0) /\ buffer # "aligned"
          /\ Return("recv", "access_failed")
       \/ /\ KnownId(id) /\ Connected /\ buffer = "aligned" /\ size # 0
          /\ \/ ~Fits(size, offset) /\ Return("recv", "access_failed")
             \/ Fits(size, offset) /\ Poll("recv")
             \/ /\ Fits(size, offset) /\ ~Polls("recv")
                /\ IF Ready("recv") THEN Moved("recv", PayloadLen)
                                    ELSE Return("recv", "invalid_state")

-----------------------------------------------------------------------------
\* RHI_FAL_READ hands out the log from where the last read stopped; len and
\* left are the bytes copied and the bytes that remain.
FalAnswer(status, len, left) == [Refusal("fal_read", status) EXCEPT !.len = len, !.left = left]

FalRead(buffer, size) ==
    /\ UNCHANGED <<sess, io, next_id>>
    /\ \/ /\ buffer # "aligned"
          /\ answer' = FalAnswer("access_failed", 0, 0)
          /\ UNCHANGED fal_offset
       \/ /\ buffer = "aligned" /\ (fal_offset >= LogSize \/ size = 0)
          /\ answer' = FalAnswer("success", 0, 0)
          /\ UNCHANGED fal_offset
       \/ /\ buffer = "aligned" /\ fal_offset < LogSize /\ size # 0
          /\ LET remaining == LogSize - fal_offset
                 copy_len == IF size < remaining THEN size ELSE remaining
             IN /\ fal_offset' = fal_offset + copy_len
                /\ answer' = FalAnswer("success", copy_len, remaining - copy_len)

\* The calls that only ask for a version, a feature mask or a constant.
Query ==
    /\ answer' = Refusal("query", "success")
    /\ UNCHANGED <<sess, io, next_id, fal_offset>>

\* The identifiers a Realm can pass: 0, one it was given, or one it was not.
Ids == 0 .. MaxSessions + 1

\* val_host_rhi_dispatch
Next ==
    \/ \E id \in Ids, conn \in ConnTypes : SessionOpen(id, conn)
    \/ \E id \in Ids : SessionClose(id)
    \/ \E id \in Ids, buffer \in Buffers, length \in Lengths, heap_left, matches \in BOOLEAN :
          SessionSend(id, buffer, length, heap_left, matches)
    \/ \E id \in Ids, buffer \in Buffers, size \in Sizes, offset \in Offsets :
          SessionReceive(id, buffer, size, offset)
    \/ \E buffer \in Buffers, size \in Sizes : FalRead(buffer, size)
    \/ Query

Spec == Init /\ [][Next]_vars

-----------------------------------------------------------------------------
\* The fields of the session that say the same thing agree after every call,
\* however calls of several Realms follow each other: a session is in use
\* exactly when it is not unconnected, its identifier is one that was given
\* out, its transfers belong to it, and a transfer is left unfinished only by
\* a non-blocking session.  It follows that the checks of the transfer states
\* in the send and receive handlers never refuse a call.
SessionConsistent ==
    /\ sess.id_in_use <=> sess.proto_state # "unconnected"
    /\ sess.id_in_use <=> sess.session_id # 0
    /\ sess.id_in_use <=> sess.conn_type # "none"
    /\ sess.session_id < next_id
    /\ sess.conn_type = "blocking" => sess.proto_state = "established"
    /\ sess.proto_state = "in_progress" => io = IoIs("established")
    /\ \A d \in Directions :
          /\ io[d].proto_state = "unconnected" <=> ~sess.id_in_use
          /\ io[d].proto_state = "io_in_progress" =>
                sess.conn_type = "non_blocking" /\ io[d].io_len # 0

\* The abstract connection: a transfer is pending while its state says so, and
\* the last answer reports a transfer when a send or a receive moved data.
Reported ==
    IF answer.status = "success" /\ answer.state = "io_complete" /\ answer.len # 0
    THEN [dir |-> answer.call, id |-> answer.id, len |-> answer.len]
    ELSE [dir |-> "none", id |-> 0, len |-> 0]

Phase ==
    [unconnected |-> "closed", in_progress |-> "opening",
     established |-> "open", closing |-> "closing"][sess.proto_state]

Pending == [d \in Directions |->
              IF io[d].proto_state = "io_in_progress" THEN io[d].io_len ELSE 0]

Connection == INSTANCE RhiConnection WITH
    phase <- Phase, id <- sess.session_id, issued <- 1 .. (next_id - 1),
    pending <- Pending, report <- Reported,
    Lengths <- Lengths \cup {PayloadLen}

\* Every call of val_host_rhi.c is a step of the abstract connection: an
\* identifier is never given out twice, a transfer ends with the session it was
\* started on, and it is reported as finished once, with the length it was
\* started with.
ImplementsConnection == Connection!Spec
==========================================================================
