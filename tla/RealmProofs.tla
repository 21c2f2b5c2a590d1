---------------------------- MODULE RealmProofs ----------------------------
(***************************************************************************)
(* Proofs about a running realm and the host that serves it, for any       *)
(* lengths, buffer sizes, log size, and number of sessions, messages and   *)
(* runs of plane 1: the session's fields agree and the session implements  *)
(* the abstract connection; every line a plane logs is shown once, in      *)
(* order and under its heading; a plane knows which plane it is.           *)
(*                                                                         *)
(* And about the device transactions the host carries out for the RMM, for *)
(* any object kinds, buffer size, lengths and number of calls: what is     *)
(* kept is what was asked for (CacheInOrder), success means done           *)
(* (DoneMeansDone), and the RMM is answered exactly when it asked, with    *)
(* the answer to its question (AnswersRequests).  Their inductive          *)
(* invariant follows an exchange through the loop: KeptInv has the parts   *)
(* still to be kept, BoxInv what is in the mailbox as long as no answer    *)
(* was late, AnswerInv what the host brings back.                          *)
(***************************************************************************)
EXTENDS RealmRun, DevComm, TLAPS

(* ------------------------------------------------ device transactions: state *)

Pieces == {"req", "rsp"} \X Nat

TypeInv ==
    /\ pc \in {"idle", "rmi", "cache", "doe", "recv", "state", "returned"}
    /\ status \in {"none", "error", "response"}
    /\ exit \in Exits
    /\ cache \in [Objects -> [len : Nat, parts : Seq(Pieces)]]
    /\ asked \in [Objects -> Seq(Pieces)]
    /\ dev \in [state : {"before", "target", "error"}, waiting : BOOLEAN, rounds : Nat]
    /\ doe \in [busy : BOOLEAN, ready : BOOLEAN, error : BOOLEAN, req : {0, 1}, resp : {0, 1}]
    /\ ask \in {0, 1} /\ got \in {0, 1}
    /\ late \in BOOLEAN /\ failed \in BOOLEAN

\* While the parts of an exit are being kept they are asked for and not there yet.
KeptInv ==
    ~failed => \A k \in Objects :
       asked[k] = IF pc = "cache" /\ k = exit.obj THEN cache[k].parts \o Parts(exit)
                                                  ELSE cache[k].parts

DoneInv ==
    /\ dev.waiting = exit.send
    /\ pc = "returned" /\ rc = "ok" => dev.state = "target" /\ Quiet(exit)

\* As long as no answer was late, the mailbox is empty between exchanges and
\* otherwise holds the question asked and at most its answer.
BoxInv ==
    /\ pc = "recv" => exit.send
    /\ doe.ready => ~doe.error
    /\ ~late => /\ pc # "recv" => ~doe.busy /\ ~doe.ready
                /\ pc = "recv" => doe.req = ask
                /\ doe.ready => ~doe.busy /\ doe.resp = ask

AnswerInv ==
    pc = "state" \/ (pc = "rmi" /\ dev.rounds # 0) =>
       /\ exit.send <=> status = "response"
       /\ exit.send /\ ~late => got = ask

IInv == TypeInv /\ KeptInv /\ DoneInv /\ BoxInv /\ AnswerInv

(* ---------------------------------------------------------------- operators *)

\* An exit names a length for the request and for the response and has its flags; one
\* that asks to keep nothing has no parts.
LEMMA ExitFacts ==
  ASSUME NEW e \in Exits
  PROVE  /\ e.req \in Nat /\ e.rsp \in Nat
         /\ e.cache \in BOOLEAN /\ e.send \in BOOLEAN /\ e.more \in BOOLEAN
         /\ Parts(e) \in Seq(Pieces)
         /\ ~e.cache => Parts(e) = <<>>
<1>1. /\ e.req \in Nat /\ e.rsp \in Nat
      /\ e.cache \in BOOLEAN /\ e.send \in BOOLEAN /\ e.more \in BOOLEAN
      /\ ~e.cache => e.req = 0 /\ e.rsp = 0
  BY ChunkAssumption, Zenon DEF Exits
<1>2. Part("req", e.req) \in Seq(Pieces) /\ Part("rsp", e.rsp) \in Seq(Pieces)
  <2>1. \A x \in Pieces : <<x>> \in Seq(Pieces)
    OBVIOUS
  <2>2. <<"req", e.req>> \in Pieces /\ <<"rsp", e.rsp>> \in Pieces
    BY <1>1 DEF Pieces
  <2> QED
    BY <2>1, <2>2 DEF Part
<1>3. Parts(e) \in Seq(Pieces)
  BY <1>2 DEF Parts
<1>4. ~e.cache => Parts(e) = <<>>
  BY <1>1 DEF Parts, Part
<1> QED
  BY <1>1, <1>3, <1>4

\* Parts are kept one after the other.
LEMMA PartsInTurn ==
  ASSUME NEW S, NEW s \in Seq(S), NEW t \in Seq(S), NEW u \in Seq(S)
  PROVE  (s \o t) \o u = s \o (t \o u)
OBVIOUS

\* Keeping a part puts it behind the parts that are there.
LEMMA KeepAppends ==
  ASSUME NEW c \in [len : Nat, parts : Seq(Pieces)], NEW n \in Nat,
         NEW kind \in {"req", "rsp"}
  PROVE  /\ Keep(c, <<kind, n>>) \in [len : Nat, parts : Seq(Pieces)]
         /\ Keep(c, <<kind, n>>).parts = c.parts \o Part(kind, n)
<1>1. <<kind, n>> \in Pieces /\ <<kind, n>>[2] = n
  BY DEF Pieces
<1>2. CASE n = 0
  BY <1>1, <1>2 DEF Keep, Part
<1>3. CASE n # 0
  <2>1. c.len \in Nat /\ c.parts \in Seq(Pieces)
    BY Zenon
  <2>2. Keep(c, <<kind, n>>) = [len |-> c.len + n, parts |-> Append(c.parts, <<kind, n>>)]
    BY <1>1, <1>3 DEF Keep
  <2>3. c.len + n \in Nat
    BY <2>1
  <2>4. Append(c.parts, <<kind, n>>) \in Seq(Pieces)
    BY <1>1, <2>1
  <2>5. Append(c.parts, <<kind, n>>) = c.parts \o <<<<kind, n>>>>
    BY <1>1, <2>1
  <2>6. /\ Keep(c, <<kind, n>>) \in [len : Nat, parts : Seq(Pieces)]
        /\ Keep(c, <<kind, n>>).parts = c.parts \o <<<<kind, n>>>>
    <3> DEFINE l == c.len + n
               p == Append(c.parts, <<kind, n>>)
    <3>1. l \in Nat /\ p \in Seq(Pieces) /\ p = c.parts \o <<<<kind, n>>>>
      BY <2>3, <2>4, <2>5, Zenon
    <3>2. Keep(c, <<kind, n>>) = [len |-> l, parts |-> p]
      BY <2>2, Zenon
    <3> HIDE DEF l, p
    <3>3. [len |-> l, parts |-> p] \in [len : Nat, parts : Seq(Pieces)]
      BY <3>1, Zenon
    <3>4. [len |-> l, parts |-> p].parts = p
      BY Zenon
    <3> QED
      BY <3>1, <3>2, <3>3, <3>4, Zenon
  <2>7. Part(kind, n) = <<<<kind, n>>>>
    BY <1>3, Zenon DEF Part
  <2> QED
    BY <2>6, <2>7, Zenon
<1> QED
  BY <1>2, <1>3, Zenon

(* --------------------------------------------------------------- first state *)

\* The invariant holds before the first call.
LEMMA InitInv == CommInit => IInv
<1> SUFFICES ASSUME CommInit PROVE IInv
  OBVIOUS
<1>1. TypeInv
  <2>1. /\ cache \in [Objects -> [len : Nat, parts : Seq(Pieces)]]
        /\ asked \in [Objects -> Seq(Pieces)]
    BY DEF CommInit
  <2>2. dev \in [state : {"before", "target", "error"}, waiting : BOOLEAN, rounds : Nat]
    BY DEF CommInit
  <2>3. doe \in [busy : BOOLEAN, ready : BOOLEAN, error : BOOLEAN, req : {0, 1}, resp : {0, 1}]
    BY DEF CommInit
  <2>4. exit \in Exits
    BY DEF CommInit
  <2> QED
    BY <2>1, <2>2, <2>3, <2>4, Zenon DEF CommInit, TypeInv
<1>2. KeptInv
  BY DEF CommInit, KeptInv
<1>3. ~exit.send
  BY DEF CommInit, Quiet
<1>4. exit.send \in BOOLEAN
  BY <1>1, ExitFacts DEF TypeInv
<1>5. DoneInv /\ BoxInv /\ AnswerInv
  BY <1>3, <1>4, Zenon DEF CommInit, DoneInv, BoxInv, AnswerInv
<1> QED
  BY <1>1, <1>2, <1>5 DEF IInv

(* -------------------------------------------------------------------- steps *)

\* A new transaction starts with no answer and no call made.
LEMMA CallInv ==
  ASSUME IInv, NEW b \in BOOLEAN, Call(b)
  PROVE  IInv'
<1>1. /\ pc \in {"idle", "returned"} /\ status' = "none"
      /\ pc' = "rmi" \/ (pc' = "returned" /\ rc' = "error")
      /\ UNCHANGED <<exit, cache, ask, doe, got, late, asked, failed>>
  BY DEF Call, Leave, box
<1>2. /\ dev' \in [state : {"before", "target", "error"}, waiting : BOOLEAN, rounds : Nat]
      /\ dev'.rounds = 0 /\ dev'.waiting = dev.waiting
  BY Zenon DEF Call, IInv, TypeInv
<1>3. TypeInv'
  BY <1>1, <1>2 DEF IInv, TypeInv
<1>4. KeptInv'
  BY <1>1 DEF IInv, KeptInv, Parts, Part
<1>5. DoneInv' /\ AnswerInv'
  BY <1>1, <1>2 DEF IInv, DoneInv, AnswerInv
<1>6. BoxInv'
  BY <1>1 DEF IInv, BoxInv
<1> QED
  BY <1>3, <1>4, <1>5, <1>6 DEF IInv

\* What the RMM asks to keep is added to what is asked, and its request is numbered.
LEMMA RmiInv ==
  ASSUME IInv, NEW b \in BOOLEAN, RmiCommunicate(b)
  PROVE  IInv'
<1>1. pc = "rmi" /\ UNCHANGED <<status, cache, doe, got, late, failed>>
  BY DEF RmiCommunicate, box
<1>2. CASE Leave("error") /\ UNCHANGED <<exit, dev, ask, asked>>
  <2>1. pc' = "returned" /\ rc' = "error"
    BY <1>2 DEF Leave
  <2>2. TypeInv' /\ BoxInv'
    BY <1>1, <1>2, <2>1 DEF IInv, TypeInv, BoxInv
  <2>3. KeptInv'
    BY <1>1, <1>2, <2>1 DEF IInv, KeptInv, Parts, Part
  <2>4. DoneInv' /\ AnswerInv'
    BY <1>1, <1>2, <2>1 DEF IInv, DoneInv, AnswerInv
  <2> QED
    BY <2>2, <2>3, <2>4 DEF IInv
<1>3. ASSUME NEW e \in Exits, NEW state \in {"before", "target", "error"},
             RmmAnswer(e, state), exit' = e,
             ask' = IF e.send THEN 1 - ask ELSE ask,
             asked' = [k \in Objects |->
                         IF k = e.obj /\ ~failed THEN asked[k] \o Parts(e) ELSE asked[k]],
             pc' = IF e.cache THEN "cache" ELSE "doe"
      PROVE  IInv'
  <2>1. /\ dev' \in [state : {"before", "target", "error"}, waiting : BOOLEAN, rounds : Nat]
        /\ dev'.waiting = e.send
    BY <1>3, ExitFacts, RoundsAssumption DEF RmmAnswer, IInv, TypeInv
  <2>2. ask' \in {0, 1} /\ pc' \in {"cache", "doe"}
    BY <1>3 DEF IInv, TypeInv
  <2>3. asked' \in [Objects -> Seq(Pieces)]
    BY <1>3, ExitFacts DEF IInv, TypeInv
  <2>4. TypeInv'
    BY <1>1, <1>3, <2>1, <2>2, <2>3 DEF IInv, TypeInv
  <2>5. KeptInv'
    <3>1. SUFFICES ASSUME ~failed, NEW k \in Objects
                   PROVE  asked'[k] = IF pc' = "cache" /\ k = e.obj
                                      THEN cache[k].parts \o Parts(e) ELSE cache[k].parts
      BY <1>1, <1>3, Zenon DEF KeptInv, Parts, Part
    <3>2. asked[k] = cache[k].parts
      BY <1>1, <3>1 DEF IInv, KeptInv
    <3>3. cache[k].parts \in Seq(Pieces)
      BY DEF IInv, TypeInv
    <3>4. asked'[k] = IF k = e.obj THEN cache[k].parts \o Parts(e) ELSE cache[k].parts
      BY <1>3, <3>1, <3>2
    <3>5. pc' # "cache" => Parts(e) = <<>>
      BY <1>3, ExitFacts
    <3>6. cache[k].parts \o <<>> = cache[k].parts
      BY <3>3
    <3> QED
      BY <3>4, <3>5, <3>6, Zenon
  <2>6. DoneInv' /\ AnswerInv'
    BY <1>3, <2>1, <2>2 DEF DoneInv, AnswerInv
  <2>7. BoxInv'
    BY <1>1, <2>2 DEF IInv, BoxInv
  <2> QED
    BY <2>4, <2>5, <2>6, <2>7 DEF IInv
<1> QED
  BY <1>2, <1>3 DEF RmiCommunicate

\* Both parts are kept, in order, or the host gives up.
LEMMA CacheInv ==
  ASSUME IInv, CacheReqResp
  PROVE  IInv'
<1> DEFINE old == IF exit.obj \in Objects THEN cache[exit.obj] ELSE [len |-> 0, parts |-> <<>>]
           req == <<"req", exit.req>>
           rsp == <<"rsp", exit.rsp>>
           mid == IF Keeps(old, req) THEN Keep(old, req) ELSE old
           all == exit.req + exit.rsp # 0 /\ Keeps(old, req) /\ Keeps(mid, rsp)
<1>1. /\ pc = "cache" /\ UNCHANGED <<status, exit, dev, ask, doe, got, late>>
      /\ cache' = [k \in Objects |-> IF k # exit.obj THEN cache[k]
                                     ELSE IF all THEN Keep(mid, rsp) ELSE mid]
      /\ IF all THEN pc' = "doe" /\ UNCHANGED <<rc, failed, asked>>
                ELSE /\ Leave("error") /\ failed' = TRUE
                     /\ asked' = [k \in Objects |-> <<>>]
  BY DEF CacheReqResp, box
<1>0. pc = "cache" /\ UNCHANGED <<status, exit, dev, ask, doe, got, late>>
  BY <1>1
<1>2. exit.req \in Nat /\ exit.rsp \in Nat
  BY ExitFacts DEF IInv, TypeInv
<1>3. old \in [len : Nat, parts : Seq(Pieces)]
  BY SMTT(30) DEF IInv, TypeInv
<1>4. /\ Keep(old, req) \in [len : Nat, parts : Seq(Pieces)]
      /\ Keep(old, req).parts = old.parts \o Part("req", exit.req)
  BY <1>2, <1>3, KeepAppends, Zenon
<1>5. mid \in [len : Nat, parts : Seq(Pieces)]
  BY <1>3, <1>4, Zenon
<1>6. /\ Keep(mid, rsp) \in [len : Nat, parts : Seq(Pieces)]
      /\ Keep(mid, rsp).parts = mid.parts \o Part("rsp", exit.rsp)
  BY <1>2, <1>5, KeepAppends, Zenon
<1>7. all => Keep(mid, rsp).parts = old.parts \o Parts(exit)
  <2>1. SUFFICES ASSUME all
                 PROVE  Keep(mid, rsp).parts = old.parts \o Parts(exit)
    BY Zenon
  <2>2. mid.parts = old.parts \o Part("req", exit.req)
    BY <1>4, <2>1, Zenon
  <2>3. /\ old.parts \in Seq(Pieces) /\ Part("req", exit.req) \in Seq(Pieces)
        /\ Part("rsp", exit.rsp) \in Seq(Pieces)
    <3>1. \A x \in Pieces : <<x>> \in Seq(Pieces)
      OBVIOUS
    <3>2. req \in Pieces /\ rsp \in Pieces
      BY <1>2 DEF Pieces
    <3> QED
      BY <1>3, <3>1, <3>2 DEF Part
  <2>4. old.parts \o (Part("req", exit.req) \o Part("rsp", exit.rsp))
        = (old.parts \o Part("req", exit.req)) \o Part("rsp", exit.rsp)
    <3> DEFINE a == old.parts
               b == Part("req", exit.req)
               c == Part("rsp", exit.rsp)
    <3>1. a \in Seq(Pieces) /\ b \in Seq(Pieces) /\ c \in Seq(Pieces)
      BY <2>3
    <3> HIDE DEF a, b, c
    <3>2. (a \o b) \o c = a \o (b \o c)
      BY <3>1, PartsInTurn
    <3> QED
      BY <3>2, Zenon DEF a, b, c
  <2> HIDE DEF old, mid
  <2> QED
    BY <1>6, <2>2, <2>4, Zenon DEF Parts
<1>8. exit.obj \in Objects => old = cache[exit.obj]
  OBVIOUS
<1>9. all \in BOOLEAN /\ (all => exit.obj \in Objects)
  BY DEF Keeps
<1> HIDE DEF old, mid, all
<1>10. cache' \in [Objects -> [len : Nat, parts : Seq(Pieces)]]
  BY <1>1, <1>5, <1>6, Zenon DEF IInv, TypeInv
<1>11. CASE all
  <2>1. pc' = "doe" /\ UNCHANGED <<rc, failed, asked>>
    BY <1>1, <1>11
  <2>2. TypeInv'
    BY <1>0, <1>10, <2>1 DEF IInv, TypeInv
  <2>3. KeptInv'
    <3>1. SUFFICES ASSUME ~failed, NEW k \in Objects PROVE asked[k] = cache'[k].parts
      BY <2>1 DEF KeptInv
    <3>2. asked[k] = IF k = exit.obj THEN cache[k].parts \o Parts(exit) ELSE cache[k].parts
      BY <1>1, <3>1 DEF IInv, KeptInv
    <3> QED
      BY <1>1, <1>7, <1>8, <1>11, <3>2, Zenon
  <2>4. DoneInv' /\ BoxInv' /\ AnswerInv'
    BY <1>1, <2>1 DEF IInv, DoneInv, BoxInv, AnswerInv
  <2> QED
    BY <2>2, <2>3, <2>4 DEF IInv
<1>12. CASE ~all
  <2>1. pc' = "returned" /\ rc' = "error" /\ failed' = TRUE /\ asked' = [k \in Objects |-> <<>>]
    BY <1>1, <1>12 DEF Leave
  <2>2. TypeInv'
    BY <1>0, <1>10, <2>1 DEF IInv, TypeInv
  <2>3. KeptInv'
    BY <2>1 DEF KeptInv
  <2>4. DoneInv' /\ BoxInv' /\ AnswerInv'
    BY <1>1, <2>1 DEF IInv, DoneInv, BoxInv, AnswerInv
  <2> QED
    BY <2>2, <2>3, <2>4 DEF IInv
<1> QED
  BY <1>11, <1>12

\* A failed exchange ends the transaction and keeps what the invariant says of the
\* mailbox, unless the answer was late.
LEMMA DoeFailedInv ==
  ASSUME IInv, DoeFailed, pc \in {"doe", "recv"}, UNCHANGED doe,
         late' = TRUE \/ (late' = late /\ pc = "doe")
  PROVE  IInv'
<1>1. /\ pc' = "returned" /\ rc' = "error" /\ status' = "error"
      /\ UNCHANGED <<exit, cache, dev, ask, got, asked, failed, doe>>
  BY DEF DoeFailed, Leave
<1>2. TypeInv' /\ BoxInv'
  BY <1>1, Zenon DEF IInv, TypeInv, BoxInv
<1>3. KeptInv'
  BY <1>1 DEF IInv, KeptInv, Parts, Part
<1>4. DoneInv' /\ AnswerInv'
  BY <1>1 DEF IInv, DoneInv, AnswerInv
<1> QED
  BY <1>2, <1>3, <1>4 DEF IInv

\* The request goes into a mailbox that is empty, unless an answer was late.
LEMMA SendInv ==
  ASSUME IInv, SendReq
  PROVE  IInv'
<1>1. pc = "doe" /\ exit.send
  BY DEF SendReq
<1>2. CASE DoeFailed /\ UNCHANGED <<doe, late>>
  BY <1>1, <1>2, DoeFailedInv
<1>3. CASE /\ ~doe.error
           /\ doe' = [doe EXCEPT !.busy = TRUE, !.req = ask] /\ pc' = "recv"
           /\ UNCHANGED <<rc, status, exit, cache, dev, ask, got, late, asked, failed>>
  <2>1. /\ doe' \in [busy : BOOLEAN, ready : BOOLEAN, error : BOOLEAN, req : {0, 1},
                     resp : {0, 1}]
        /\ doe'.req = ask /\ doe'.ready = doe.ready /\ doe'.error = doe.error
        /\ doe'.resp = doe.resp
    BY <1>3, Zenon DEF IInv, TypeInv
  <2>2. TypeInv'
    BY <1>3, <2>1 DEF IInv, TypeInv
  <2>3. BoxInv'
    BY <1>1, <1>3, <2>1 DEF IInv, BoxInv
  <2>4. KeptInv'
    BY <1>1, <1>3 DEF IInv, KeptInv, Parts, Part
  <2>5. DoneInv' /\ AnswerInv'
    BY <1>3 DEF IInv, DoneInv, AnswerInv
  <2> QED
    BY <2>2, <2>3, <2>4, <2>5 DEF IInv
<1> QED
  BY <1>2, <1>3 DEF SendReq

\* The device answers the request that is in the mailbox.
LEMMA DeviceInv ==
  ASSUME IInv, NEW b \in BOOLEAN, DeviceAnswers(b)
  PROVE  IInv'
<1>1. /\ doe.busy /\ ~doe.ready
      /\ UNCHANGED <<pc, rc, status, exit, cache, dev, ask, got, late, asked, failed>>
  BY DEF DeviceAnswers
<1>2. /\ doe' \in [busy : BOOLEAN, ready : BOOLEAN, error : BOOLEAN, req : {0, 1},
                   resp : {0, 1}]
      /\ ~doe'.busy /\ doe'.req = doe.req /\ doe'.resp = doe.req
      /\ doe'.ready => ~doe'.error
  BY Zenon DEF DeviceAnswers, IInv, TypeInv
<1>3. TypeInv'
  BY <1>1, <1>2 DEF IInv, TypeInv
<1>4. BoxInv'
  BY <1>1, <1>2 DEF IInv, BoxInv
<1>5. KeptInv'
  BY <1>1 DEF IInv, KeptInv, Parts, Part
<1>6. DoneInv' /\ AnswerInv'
  BY <1>1 DEF IInv, DoneInv, AnswerInv
<1> QED
  BY <1>3, <1>4, <1>5, <1>6 DEF IInv

\* The answer that is read is the one to the request just sent, unless one was late.
LEMMA RecvInv ==
  ASSUME IInv, RecvResp
  PROVE  IInv'
<1>1. pc = "recv"
  BY DEF RecvResp
<1>2. CASE DoeFailed /\ late' = TRUE /\ UNCHANGED doe
  BY <1>1, <1>2, DoeFailedInv
<1>3. CASE doe.ready /\ doe.error
  BY <1>3 DEF IInv, BoxInv
<1>4. CASE /\ doe.ready /\ doe' = [doe EXCEPT !.ready = FALSE]
           /\ got' = doe.resp /\ status' = "response" /\ pc' = "state"
           /\ UNCHANGED <<rc, exit, cache, dev, ask, late, asked, failed>>
  <2>1. /\ doe' \in [busy : BOOLEAN, ready : BOOLEAN, error : BOOLEAN, req : {0, 1},
                     resp : {0, 1}]
        /\ ~doe'.ready /\ doe'.busy = doe.busy /\ doe.resp \in {0, 1}
    BY <1>4, Zenon DEF IInv, TypeInv
  <2>2. TypeInv'
    BY <1>4, <2>1 DEF IInv, TypeInv
  <2>3. BoxInv'
    BY <1>1, <1>4, <2>1 DEF IInv, BoxInv
  <2>4. KeptInv'
    BY <1>1, <1>4 DEF IInv, KeptInv, Parts, Part
  <2>5. DoneInv'
    BY <1>4 DEF IInv, DoneInv
  <2>6. AnswerInv'
    BY <1>1, <1>4 DEF IInv, BoxInv, AnswerInv
  <2> QED
    BY <2>2, <2>3, <2>4, <2>5, <2>6 DEF IInv
<1> QED
  BY <1>2, <1>3, <1>4, Zenon DEF RecvResp

\* With nothing to send the host brings nothing.
LEMMA NoReqInv ==
  ASSUME IInv, NoReq
  PROVE  IInv'
<1>1. /\ pc = "doe" /\ ~exit.send /\ status' = "none" /\ pc' = "state"
      /\ UNCHANGED <<rc, exit, cache, dev, ask, doe, got, late, asked, failed>>
  BY DEF NoReq, box
<1>2. TypeInv' /\ BoxInv'
  BY <1>1 DEF IInv, TypeInv, BoxInv
<1>3. KeptInv'
  BY <1>1 DEF IInv, KeptInv, Parts, Part
<1>4. DoneInv' /\ AnswerInv'
  BY <1>1 DEF IInv, DoneInv, AnswerInv
<1> QED
  BY <1>2, <1>3, <1>4 DEF IInv

\* The loop ends well only at the target with a silent RMM, and otherwise carries the
\* answer to the next call.
LEMMA StateInv ==
  ASSUME IInv, NEW b \in BOOLEAN, CheckState(b)
  PROVE  IInv'
<1>1. /\ pc = "state"
      /\ UNCHANGED <<status, exit, cache, dev, ask, doe, got, late, asked, failed>>
      /\ \/ pc' = "returned" /\ rc' = "error"
         \/ pc' = "returned" /\ dev.state = "target" /\ Quiet(exit)
         \/ pc' = "rmi"
  BY DEF CheckState, Leave, box
<1>2. TypeInv' /\ BoxInv'
  BY <1>1 DEF IInv, TypeInv, BoxInv
<1>3. KeptInv'
  BY <1>1 DEF IInv, KeptInv, Parts, Part
<1>4. DoneInv' /\ AnswerInv'
  BY <1>1 DEF IInv, DoneInv, AnswerInv, Quiet
<1> QED
  BY <1>2, <1>3, <1>4 DEF IInv

(* ----------------------------------------------------------------- theorems *)

\* Every step of the host, the RMM and the device keeps the invariant.
LEMMA NextInv == IInv /\ [CommNext]_commvars => IInv'
<1> SUFFICES ASSUME IInv, [CommNext]_commvars PROVE IInv'
  OBVIOUS
<1>1. CASE UNCHANGED commvars
  <2>1. TypeInv' /\ BoxInv'
    BY <1>1 DEF commvars, box, IInv, TypeInv, BoxInv
  <2>2. KeptInv'
    BY <1>1 DEF commvars, IInv, KeptInv, Parts, Part
  <2>3. DoneInv' /\ AnswerInv'
    BY <1>1 DEF commvars, box, IInv, DoneInv, AnswerInv, Quiet
  <2> QED
    BY <2>1, <2>2, <2>3 DEF IInv
<1>2. CASE Step
  BY <1>2, RmiInv, StateInv, CacheInv, SendInv, RecvInv, NoReqInv DEF Step
<1>3. ASSUME NEW b \in BOOLEAN, Call(b) \/ DeviceAnswers(b) PROVE IInv'
  BY <1>3, CallInv, DeviceInv
<1> QED
  BY <1>1, <1>2, <1>3 DEF CommNext

\* The invariant of val_host_dev_communicate and the mailbox under it.
THEOREM CommInvariant == CommSpec => []IInv
BY InitInv, NextInv, PTL DEF CommSpec

\* As long as nothing was refused, the buffers of val_host_dev_cache_dev_req_resp hold
\* all the parts the RMM asked for, in order.
THEOREM KeptAsAsked == CommSpec => []CacheInOrder
<1>1. IInv => CacheInOrder
  BY DEF IInv, KeptInv, CacheInOrder
<1> QED
  BY <1>1, CommInvariant, PTL

\* val_host_dev_communicate returns success only at the target, with nothing asked.
THEOREM SuccessIsDone == CommSpec => []DoneMeansDone
<1>1. IInv => DoneMeansDone
  BY DEF IInv, DoneInv, DoneMeansDone, Quiet
<1> QED
  BY <1>1, CommInvariant, PTL

\* Within a transaction the host brings an answer exactly when there is a question,
\* and it is the device's answer to that question as long as none was late.
THEOREM AnswersTheQuestion == CommSpec => []AnswersRequests
<1>1. IInv => AnswersRequests
  BY DEF IInv, TypeInv, DoneInv, AnswerInv, AnswersRequests
<1> QED
  BY <1>1, CommInvariant, PTL

-----------------------------------------------------------------------------
(* Zenon unless a step names another prover.                               *)
USE ZenonT(60)

(* -------------------------------------------------------------- the session *)

Sessions == [session_id : Nat,
             proto_state : {"unconnected", "in_progress", "established", "closing"},
             id_in_use : BOOLEAN, conn_type : {"none", "blocking", "non_blocking"}]
Transfers == [proto_state : {"unconnected", "established", "io_complete", "io_in_progress"},
              io_len : Nat]

\* SessionConsistent is inductive once the fields have their types.
SessionInv ==
    /\ sess \in Sessions
    /\ io \in [Directions -> Transfers]
    /\ next_id \in Nat \ {0}
    /\ SessionConsistent

\* A session that starts or ends has its transfers in the state that goes with it.
LEMMA IoIsType ==
  ASSUME NEW s \in {"unconnected", "established"}
  PROVE  /\ IoIs(s) \in [Directions -> Transfers]
         /\ \A d \in Directions : IoIs(s)[d] = [proto_state |-> s, io_len |-> 0]
  BY DEF IoIs, Transfers

\* No session is open when the image starts.
LEMMA SessionInit == Init => SessionInv
<1> SUFFICES ASSUME Init PROVE SessionInv
  OBVIOUS
<1>1. sess \in Sessions /\ next_id \in Nat \ {0}
  BY SMTT(60) DEF Init, NoSession, Sessions
<1>2. io \in [Directions -> Transfers]
  BY IoIsType DEF Init
<1>3. SessionConsistent
  BY IoIsType, SMTT(60) DEF Init, NoSession, SessionConsistent
<1> QED BY <1>1, <1>2, <1>3 DEF SessionInv

\* A refused call changes nothing.
LEMMA ReturnKeeps ==
  ASSUME SessionInv, UNCHANGED <<sess, io, next_id>>
  PROVE  SessionInv'
  BY DEF SessionInv, SessionConsistent

\* The first call to open a session, when no session is in use.
LEMMA StartKeeps ==
  ASSUME SessionInv, NEW conn, NEW state,
         \/ conn = "blocking" /\ state = "established"
         \/ conn = "non_blocking" /\ state = "in_progress",
         StartSession(conn, state)
  PROVE  SessionInv'
<1>1. /\ sess' = [session_id |-> next_id, proto_state |-> state,
                  id_in_use |-> TRUE, conn_type |-> conn]
      /\ io' = IoIs("established") /\ next_id' = next_id + 1
  BY DEF StartSession
<1>2. next_id \in Nat \ {0}
  BY DEF SessionInv
<1>3. sess' \in Sessions /\ next_id' \in Nat \ {0}
  BY <1>1, <1>2, SMTT(60) DEF Sessions
<1>4. io' \in [Directions -> Transfers]
  BY <1>1, IoIsType
<1>5. SessionConsistent'
  BY <1>1, <1>2, IoIsType, SMTT(60) DEF SessionConsistent
<1> QED BY <1>3, <1>4, <1>5 DEF SessionInv

\* RHI_SESSION_OPEN
LEMMA OpenKeeps ==
  ASSUME SessionInv, NEW id, NEW conn, SessionOpen(id, conn)
  PROVE  SessionInv'
<1>1. CASE UNCHANGED <<sess, io, next_id>>
  BY <1>1, ReturnKeeps
<1>2. CASE StartSession("blocking", "established")
  BY <1>2, StartKeeps
<1>3. CASE StartSession("non_blocking", "in_progress")
  BY <1>3, StartKeeps
<1>4. CASE /\ sess.proto_state = "in_progress"
           /\ sess' = [sess EXCEPT !.proto_state = "established"]
           /\ UNCHANGED <<io, next_id>>
  <2>1. sess' \in Sessions
    BY <1>4 DEF SessionInv, Sessions
  <2>2. SessionConsistent'
    BY <1>4 DEF SessionInv, SessionConsistent, Sessions
  <2> QED BY <1>4, <2>1, <2>2 DEF SessionInv
<1> QED BY <1>1, <1>2, <1>3, <1>4
        DEF SessionOpen, OpenBlocking, OpenNonBlocking, FirstOpen, Return

\* RHI_SESSION_CLOSE
LEMMA CloseKeeps ==
  ASSUME SessionInv, NEW id, SessionClose(id)
  PROVE  SessionInv'
<1>1. CASE UNCHANGED <<sess, io, next_id>>
  BY <1>1, ReturnKeeps
<1>2. CASE EndSession
  <2>1. sess' = NoSession /\ io' = IoIs("unconnected") /\ next_id' = next_id
    BY <1>2 DEF EndSession
  <2>2. sess' \in Sessions
    BY <2>1 DEF NoSession, Sessions
  <2>3. io' \in [Directions -> Transfers]
    BY <2>1, IoIsType
  <2>4. SessionConsistent'
    BY <2>1, IoIsType, SMTT(60) DEF SessionConsistent, NoSession, SessionInv
  <2> QED BY <2>1, <2>2, <2>3, <2>4 DEF SessionInv
<1>3. CASE /\ sess.proto_state = "established" /\ sess.conn_type = "non_blocking"
           /\ sess' = [sess EXCEPT !.proto_state = "closing"]
           /\ UNCHANGED <<io, next_id>>
  <2>1. sess' \in Sessions
    BY <1>3 DEF SessionInv, Sessions
  <2>2. SessionConsistent'
    BY <1>3 DEF SessionInv, SessionConsistent, Sessions
  <2> QED BY <1>3, <2>1, <2>2 DEF SessionInv
<1> QED BY <1>1, <1>2, <1>3 DEF SessionClose, Return

\* A transfer gets a new state, while the session is established and in use.
LEMMA IoKeeps ==
  ASSUME SessionInv, NEW d \in Directions, NEW state \in {"io_complete", "io_in_progress"},
         NEW len \in Nat, sess.id_in_use, sess.proto_state = "established",
         state = "io_in_progress" => sess.conn_type = "non_blocking" /\ len # 0,
         IoIsNow(d, state, len)
  PROVE  SessionInv'
<1>1. /\ io' = [io EXCEPT ![d] = [proto_state |-> state, io_len |-> len]]
      /\ UNCHANGED <<sess, next_id>>
  BY DEF IoIsNow
<1>2. io' \in [Directions -> Transfers]
  BY <1>1 DEF SessionInv, Transfers
<1>3. SessionConsistent'
  BY <1>1 DEF SessionInv, SessionConsistent
<1> QED BY <1>1, <1>2, <1>3 DEF SessionInv

\* RHI_SESSION_SEND and RHI_SESSION_RECEIVE go past their checks only in a session that is
\* established: a session in use is not unconnected.
LEMMA ConnectedIs ==
  ASSUME SessionInv, Connected
  PROVE  sess.proto_state = "established" /\ sess.id_in_use /\ sess.session_id \in Nat \ {0}
  BY DEF SessionInv, SessionConsistent, Connected, Sessions

\* The data of a transfer was moved, or its second call reports it.
LEMMA MovedKeeps ==
  ASSUME SessionInv, Connected, NEW d \in Directions, NEW len \in Nat \ {0},
         Moved(d, len) \/ Poll(d)
  PROVE  SessionInv'
<1>1. sess.proto_state = "established" /\ sess.id_in_use
  BY ConnectedIs
<1>2. CASE Moved(d, len)
  <2>1. CASE sess.conn_type = "blocking"
    BY <1>1, <1>2, <2>1, IoKeeps DEF Moved
  <2>2. CASE sess.conn_type = "non_blocking"
    BY <1>1, <1>2, <2>2, IoKeeps DEF Moved
  <2> QED BY <1>2, <2>1, <2>2 DEF Moved
<1>3. CASE Poll(d)
  <2>1. io[d].io_len \in Nat
    BY DEF SessionInv, Transfers
  <2> QED BY <1>1, <1>3, <2>1, IoKeeps DEF Poll
<1> QED BY <1>2, <1>3

\* RHI_SESSION_SEND
LEMMA SendKeeps ==
  ASSUME SessionInv, NEW id, NEW buffer, NEW length \in Lengths, NEW heap_left, NEW matches,
         SessionSend(id, buffer, length, heap_left, matches)
  PROVE  SessionInv'
<1>1. CASE UNCHANGED <<sess, io, next_id>>
  BY <1>1, ReturnKeeps
<1>2. CASE /\ Connected /\ sess' = [sess EXCEPT !.proto_state = "established"]
           /\ UNCHANGED <<io, next_id>>
  <2>1. sess' = sess
    BY <1>2, ConnectedIs DEF SessionInv, Sessions
  <2> QED BY <1>2, <2>1, ReturnKeeps
<1>3. CASE Connected /\ Poll("send")
  BY <1>3, MovedKeeps, SMTT(60) DEF Directions
<1>4. CASE Connected /\ length # 0 /\ Moved("send", length)
  <2>1. length \in Nat \ {0}
    BY <1>4, LengthsAssumption
  <2> QED BY <1>4, <2>1, MovedKeeps DEF Directions
<1> QED BY <1>1, <1>2, <1>3, <1>4 DEF SessionSend, SendPayload, Return

\* RHI_SESSION_RECEIVE
LEMMA ReceiveKeeps ==
  ASSUME SessionInv, NEW id, NEW buffer, NEW size, NEW offset,
         SessionReceive(id, buffer, size, offset)
  PROVE  SessionInv'
<1>1. CASE UNCHANGED <<sess, io, next_id>>
  BY <1>1, ReturnKeeps
<1>2. CASE Connected /\ Poll("recv")
  BY <1>2, MovedKeeps, SMTT(60) DEF Directions
<1>3. CASE Connected /\ Moved("recv", PayloadLen)
  BY <1>3, MovedKeeps, PayloadAssumption DEF Directions
<1> QED BY <1>1, <1>2, <1>3 DEF SessionReceive, ReceiveQuery, Return

\* Every call that val_host_rhi_dispatch serves keeps the session's fields in agreement.
LEMMA SessionStep == SessionInv /\ [Next]_vars => SessionInv'
<1> SUFFICES ASSUME SessionInv, [Next]_vars PROVE SessionInv'
  OBVIOUS
<1>1. ASSUME NEW id \in Ids, NEW conn \in ConnTypes, SessionOpen(id, conn) PROVE SessionInv'
  BY <1>1, OpenKeeps
<1>2. ASSUME NEW id \in Ids, SessionClose(id) PROVE SessionInv'
  BY <1>2, CloseKeeps
<1>3. ASSUME NEW id \in Ids, NEW buffer \in Buffers, NEW length \in Lengths,
             NEW heap_left \in BOOLEAN, NEW matches \in BOOLEAN,
             SessionSend(id, buffer, length, heap_left, matches)
      PROVE  SessionInv'
  BY <1>3, SendKeeps
<1>4. ASSUME NEW id \in Ids, NEW buffer \in Buffers, NEW size \in Sizes,
             NEW offset \in Offsets, SessionReceive(id, buffer, size, offset)
      PROVE  SessionInv'
  BY <1>4, ReceiveKeeps
<1>5. ASSUME NEW buffer \in Buffers, NEW size \in Sizes, FalRead(buffer, size) PROVE SessionInv'
  BY <1>5, ReturnKeeps DEF FalRead
<1>6. CASE Query
  BY <1>6, ReturnKeeps DEF Query
<1>7. CASE UNCHANGED vars
  BY <1>7, ReturnKeeps DEF vars
<1> QED BY <1>1, <1>2, <1>3, <1>4, <1>5, <1>6, <1>7 DEF Next

(* ----------------------------------------- the session is the connection *)

\* What the connection sees is a function of what a call leaves alone.
LEMMA SameConnection ==
  ASSUME UNCHANGED <<sess, io, next_id>>
  PROVE  /\ Phase' = Phase /\ Pending' = Pending
         /\ (sess.session_id)' = sess.session_id
         /\ (1 .. (next_id - 1))' = 1 .. (next_id - 1)
  BY DEF Phase, Pending

\* A call that answers without a length reports no transfer.
LEMMA NothingReported ==
  ASSUME answer'.len = 0 \/ answer'.state # "io_complete"
  PROVE  Reported' = Connection!Nothing
  BY DEF Reported, Connection!Nothing

\* A refused call, a query, or one that only reports a size.
LEMMA RefuseRefines ==
  ASSUME UNCHANGED <<sess, io, next_id>>, answer'.len = 0 \/ answer'.state # "io_complete"
  PROVE  Connection!Refuse
<1>1. Reported' = Connection!Nothing
  BY NothingReported
<1> QED BY <1>1, SameConnection DEF Connection!Refuse

\* A handler that returns early.
LEMMA ReturnRefines ==
  ASSUME NEW call, NEW said, Return(call, said)
  PROVE  Connection!Refuse
  BY RefuseRefines DEF Return, Refusal, Answer

\* The phase for each state of the session.
LEMMA PhaseIs ==
  /\ sess.proto_state = "unconnected" => Phase = "closed"
  /\ sess.proto_state = "in_progress" => Phase = "opening"
  /\ sess.proto_state = "established" => Phase = "open"
  /\ sess.proto_state = "closing" => Phase = "closing"
  BY SMTT(60) DEF Phase

\* Transfers in the state of a session that starts or ends are not pending.
LEMMA PendingIdle ==
  ASSUME \A d \in Directions : io[d].proto_state # "io_in_progress"
  PROVE  Pending = Connection!Idle
  BY DEF Pending, Connection!Idle

\* A first call to open gives out an identifier that is new.
LEMMA StartRefines ==
  ASSUME SessionInv, NEW conn, NEW state \in {"established", "in_progress"},
         ~sess.id_in_use, StartSession(conn, state)
  PROVE  Connection!Open
<1>1. /\ sess'.session_id = next_id /\ sess'.proto_state = state
      /\ io' = IoIs("established") /\ next_id' = next_id + 1
      /\ answer' = Answer("open", "success", next_id, state, 0)
  BY DEF StartSession
<1>2. next_id \in Nat \ {0} /\ sess.proto_state = "unconnected"
  BY DEF SessionInv, SessionConsistent
<1>3. Phase = "closed"
  BY <1>2, PhaseIs
<1>4. Phase' \in {"opening", "open"}
  BY <1>1, SMTT(60) DEF Phase
<1>5. Pending' = Connection!Idle
  BY <1>1, IoIsType, SMTT(60) DEF Pending, Connection!Idle
<1>6. Reported' = Connection!Nothing
  BY <1>1, NothingReported DEF Answer
<1>7. /\ next_id \in Nat /\ next_id \notin (1 .. (next_id - 1)) \cup {0}
      /\ 1 .. (next_id' - 1) = (1 .. (next_id - 1)) \cup {next_id}
  BY <1>1, <1>2, SMTT(60)
<1> QED BY <1>1, <1>3, <1>4, <1>5, <1>6, <1>7 DEF Connection!Open

\* RHI_SESSION_OPEN
LEMMA OpenRefines ==
  ASSUME SessionInv, NEW id, NEW conn, SessionOpen(id, conn)
  PROVE  Connection!Open \/ Connection!Opened \/ Connection!Refuse
<1>1. ASSUME NEW said, Return("open", said) PROVE Connection!Refuse
  BY <1>1, ReturnRefines
<1>2. CASE ~sess.id_in_use /\ StartSession("blocking", "established")
  BY <1>2, StartRefines
<1>3. CASE ~sess.id_in_use /\ StartSession("non_blocking", "in_progress")
  BY <1>3, StartRefines
<1>4. CASE /\ sess.proto_state = "in_progress"
           /\ sess' = [sess EXCEPT !.proto_state = "established"]
           /\ answer' = Answer("open", "success", id, "established", 0)
           /\ UNCHANGED <<io, next_id>>
  <2>1. sess'.proto_state = "established" /\ sess'.session_id = sess.session_id
    BY <1>4 DEF SessionInv, Sessions
  <2>2. Phase = "opening" /\ Phase' = "open" /\ Pending' = Pending
    BY <1>4, <2>1, PhaseIs, SMTT(60) DEF Phase, Pending
  <2>3. Reported' = Connection!Nothing
    BY <1>4, NothingReported DEF Answer
  <2> QED BY <1>4, <2>1, <2>2, <2>3 DEF Connection!Opened
<1> QED BY <1>1, <1>2, <1>3, <1>4
        DEF SessionOpen, OpenBlocking, OpenNonBlocking, FirstOpen

\* RHI_SESSION_CLOSE
LEMMA CloseRefines ==
  ASSUME SessionInv, NEW id, SessionClose(id)
  PROVE  Connection!Close \/ Connection!Refuse
<1>1. ASSUME NEW said, Return("close", said) PROVE Connection!Refuse
  BY <1>1, ReturnRefines
<1>2. CASE EndSession /\ sess.proto_state \in {"established", "closing"}
  <2>1. /\ sess' = NoSession /\ io' = IoIs("unconnected") /\ next_id' = next_id
        /\ Reported' = Connection!Nothing
    BY <1>2, NothingReported DEF EndSession, Answer
  <2>2. Phase \in {"open", "closing"}
    BY <1>2, PhaseIs
  <2>3. Phase' = "closed" /\ sess'.session_id = 0
    BY <2>1 DEF Phase, NoSession
  <2>4. Pending' = Connection!Idle
    BY <2>1, IoIsType, SMTT(60) DEF Pending, Connection!Idle
  <2> QED BY <2>1, <2>2, <2>3, <2>4 DEF Connection!Close
<1>3. CASE /\ sess.proto_state = "established"
           /\ sess' = [sess EXCEPT !.proto_state = "closing"]
           /\ answer' = Answer("close", "success", id, "closing", 0)
           /\ UNCHANGED <<io, next_id>>
  <2>1. sess'.proto_state = "closing" /\ sess'.session_id = sess.session_id
    BY <1>3 DEF SessionInv, Sessions
  <2>2. Phase = "open" /\ Phase' = "closing" /\ Pending' = Pending
    BY <1>3, <2>1, PhaseIs, SMTT(60) DEF Phase, Pending
  <2>3. Reported' = Connection!Nothing
    BY <1>3, NothingReported DEF Answer
  <2> QED BY <1>3, <2>1, <2>2, <2>3 DEF Connection!Close
<1> QED BY <1>1, <1>2, <1>3 DEF SessionClose

\* The data of a transfer was moved: it is done in a blocking session, else started.
LEMMA MovedRefines ==
  ASSUME SessionInv, Connected, NEW d \in Directions,
         NEW len \in (Lengths \cup {PayloadLen}) \ {0}, Moved(d, len), ~Polls(d)
  PROVE  Connection!Start(d) \/ Connection!Transfer(d)
<1>0. len \in Nat \ {0}
  BY LengthsAssumption, PayloadAssumption
<1>1. Phase = "open"
  BY ConnectedIs, PhaseIs
<1>2. io \in [Directions -> Transfers] /\ d # "none"
  BY DEF SessionInv, Directions
<1>3. CASE sess.conn_type = "blocking"
  <2>1. /\ io' = [io EXCEPT ![d] = [proto_state |-> "io_complete", io_len |-> len]]
        /\ UNCHANGED <<sess, next_id>>
        /\ answer' = Answer(d, "success", sess.session_id, "io_complete", len)
    BY <1>3 DEF Moved, IoIsNow
  <2>2. \A e \in Directions : io[e].proto_state # "io_in_progress"
    BY <1>3 DEF SessionInv, SessionConsistent
  <2>3. \A e \in Directions : io'[e].proto_state # "io_in_progress"
    BY <1>2, <2>1, <2>2
  <2>4. Pending = Connection!Idle /\ Pending' = Connection!Idle
    BY <2>2, <2>3 DEF Pending, Connection!Idle
  <2>5. Reported' = [dir |-> d, id |-> sess.session_id, len |-> len]
    BY <1>0, <2>1 DEF Reported, Answer
  <2>6. Phase' = Phase
    BY <2>1 DEF Phase
  <2> QED BY <1>1, <2>1, <2>4, <2>5, <2>6 DEF Connection!Transfer
<1>4. CASE sess.conn_type = "non_blocking"
  <2>1. /\ io' = [io EXCEPT ![d] = [proto_state |-> "io_in_progress", io_len |-> len]]
        /\ UNCHANGED <<sess, next_id>>
        /\ answer' = Answer(d, "success", sess.session_id, "io_in_progress", 0)
    BY <1>4 DEF Moved, IoIsNow
  <2>2. Pending[d] = 0
    BY <1>4 DEF Pending, Polls
  <2>3. Pending' = [Pending EXCEPT ![d] = len]
    BY <1>2, <2>1 DEF Pending
  <2>4. Reported' = Connection!Nothing
    BY <2>1, NothingReported DEF Answer
  <2>5. Phase' = Phase
    BY <2>1 DEF Phase
  <2> QED BY <1>1, <2>1, <2>2, <2>3, <2>4, <2>5 DEF Connection!Start
<1> QED BY <1>3, <1>4 DEF Moved

\* The second call of a non-blocking transfer reports the length the first one stored.
LEMMA PollRefines ==
  ASSUME SessionInv, Connected, NEW d \in Directions, Poll(d)
  PROVE  Connection!Finish(d)
<1>1. Phase = "open"
  BY ConnectedIs, PhaseIs
<1>2. /\ io \in [Directions -> Transfers]
      /\ io[d].proto_state = "io_in_progress" /\ io[d].io_len # 0
  BY DEF SessionInv, SessionConsistent, Poll
<1>3. /\ io' = [io EXCEPT ![d] = [proto_state |-> "io_complete", io_len |-> io[d].io_len]]
      /\ UNCHANGED <<sess, next_id>>
      /\ answer' = Answer(d, "success", sess.session_id, "io_complete", io[d].io_len)
  BY DEF Poll, IoIsNow
<1>4. Pending[d] = io[d].io_len
  BY <1>2 DEF Pending
<1>5. Pending' = [Pending EXCEPT ![d] = 0]
  BY <1>2, <1>3 DEF Pending
<1>6. Reported' = [dir |-> d, id |-> sess.session_id, len |-> io[d].io_len]
  BY <1>2, <1>3 DEF Reported, Answer
<1>7. Phase' = Phase
  BY <1>3 DEF Phase
<1> QED BY <1>1, <1>2, <1>3, <1>4, <1>5, <1>6, <1>7 DEF Connection!Finish

\* RHI_SESSION_SEND
LEMMA SendRefines ==
  ASSUME SessionInv, NEW id, NEW buffer, NEW length \in Lengths, NEW heap_left, NEW matches,
         SessionSend(id, buffer, length, heap_left, matches)
  PROVE  Connection!Next
<1>0. "send" \in Directions
  BY DEF Directions
<1>1. ASSUME NEW said, Return("send", said) PROVE Connection!Refuse
  BY <1>1, ReturnRefines
<1>2. CASE /\ Connected /\ sess' = [sess EXCEPT !.proto_state = "established"]
           /\ answer' = Answer("send", "peer_not_available", sess.session_id, "established", 0)
           /\ UNCHANGED <<io, next_id>>
  <2>1. sess' = sess
    BY <1>2, ConnectedIs DEF SessionInv, Sessions
  <2> QED BY <1>2, <2>1, RefuseRefines DEF Answer, Connection!Next
<1>3. CASE Connected /\ Poll("send")
  BY <1>0, <1>3, PollRefines DEF Connection!Next
<1>4. CASE Connected /\ ~Polls("send") /\ length # 0 /\ Moved("send", length)
  BY <1>0, <1>4, MovedRefines DEF Connection!Next
<1>5. \/ Connected /\ Poll("send")
      \/ Connected /\ ~Polls("send") /\ length # 0 /\ Moved("send", length)
      \/ /\ Connected /\ sess' = [sess EXCEPT !.proto_state = "established"]
         /\ answer' = Answer("send", "peer_not_available", sess.session_id, "established", 0)
         /\ UNCHANGED <<io, next_id>>
      \/ \E said \in {"invalid_id", "invalid_state", "access_failed"} : Return("send", said)
  BY DEF SessionSend, SendPayload
<1> QED BY <1>1, <1>2, <1>3, <1>4, <1>5 DEF Connection!Next

\* RHI_SESSION_RECEIVE
LEMMA ReceiveRefines ==
  ASSUME SessionInv, NEW id, NEW buffer, NEW size, NEW offset,
         SessionReceive(id, buffer, size, offset)
  PROVE  Connection!Next
<1>0. "recv" \in Directions
  BY DEF Directions
<1>1. ASSUME NEW said, Return("recv", said) PROVE Connection!Refuse
  BY <1>1, ReturnRefines
<1>2. CASE ReceiveQuery(buffer, size)
  BY <1>2, RefuseRefines, SMTT(60) DEF ReceiveQuery, Answer, Connection!Next
<1>3. CASE Connected /\ Poll("recv")
  BY <1>0, <1>3, PollRefines DEF Connection!Next
<1>4. CASE Connected /\ ~Polls("recv") /\ Moved("recv", PayloadLen)
  BY <1>0, <1>4, MovedRefines, PayloadAssumption DEF Connection!Next
<1>5. \/ ReceiveQuery(buffer, size)
      \/ Connected /\ Poll("recv")
      \/ Connected /\ ~Polls("recv") /\ Moved("recv", PayloadLen)
      \/ \E said \in {"invalid_id", "invalid_state", "access_failed"} : Return("recv", said)
  BY DEF SessionReceive
<1> QED BY <1>1, <1>2, <1>3, <1>4, <1>5 DEF Connection!Next

\* Every call of val_host_rhi_dispatch is a step of the connection, or changes nothing it sees.
LEMMA StepRefines == SessionInv /\ [Next]_vars => [Connection!Next]_(Connection!vars)
<1> SUFFICES ASSUME SessionInv, [Next]_vars
             PROVE  Connection!Next \/ UNCHANGED Connection!vars
  OBVIOUS
<1>1. ASSUME NEW id \in Ids, NEW conn \in ConnTypes, SessionOpen(id, conn)
      PROVE  Connection!Next
  BY <1>1, OpenRefines DEF Connection!Next
<1>2. ASSUME NEW id \in Ids, SessionClose(id) PROVE Connection!Next
  BY <1>2, CloseRefines DEF Connection!Next
<1>3. ASSUME NEW id \in Ids, NEW buffer \in Buffers, NEW length \in Lengths,
             NEW heap_left \in BOOLEAN, NEW matches \in BOOLEAN,
             SessionSend(id, buffer, length, heap_left, matches)
      PROVE  Connection!Next
  BY <1>3, SendRefines
<1>4. ASSUME NEW id \in Ids, NEW buffer \in Buffers, NEW size \in Sizes,
             NEW offset \in Offsets, SessionReceive(id, buffer, size, offset)
      PROVE  Connection!Next
  BY <1>4, ReceiveRefines
<1>5. ASSUME NEW buffer \in Buffers, NEW size \in Sizes, FalRead(buffer, size)
      PROVE  Connection!Next
  <2>1. UNCHANGED <<sess, io, next_id>> /\ answer'.state = "stale"
    BY <1>5 DEF FalRead, FalAnswer, Refusal, Answer
  <2> QED BY <2>1, RefuseRefines DEF Connection!Next
<1>6. CASE Query
  BY <1>6, RefuseRefines DEF Query, Refusal, Answer, Connection!Next
<1>7. CASE UNCHANGED vars
  BY <1>7 DEF vars, Connection!vars, Phase, Pending, Reported
<1> QED BY <1>1, <1>2, <1>3, <1>4, <1>5, <1>6, <1>7 DEF Next

\* Every step of the realm and its host serves a call of the session or leaves it alone.
LEMMA SessionSteps == [RRNext]_allvars => [Next]_vars
  BY DEF RRNext, allvars, rvars, HostStep, RealmStep, AfterExit, val_host_rhi_dispatch,
         HostLog, RecEnter, WriteLine, PrintLine, CheckVersion, AskWidth, Main, TestLogs,
         AskVersion, TestCallsHost, val_realm_return_to_p0, RunPlane, PlaneEnter,
         val_realm_plane_handle_exception

\* SessionConsistent: the fields of g_rhi_sess and of the transfer states agree after every
\* call, however the calls of the realms follow each other.
THEOREM SessionAgrees == RRSpec => []SessionConsistent
<1>1. RRInit => SessionInv
  BY SessionInit DEF RRInit
<1>2. SessionInv => SessionConsistent
  BY DEF SessionInv
<1> QED BY <1>1, <1>2, SessionStep, SessionSteps, PTL DEF RRSpec

\* val_host_rhi.c implements the abstract connection: an identifier is never given out twice,
\* a transfer ends with its session and is reported once, with the length it started with.
THEOREM SessionIsConnection == RRSpec => ImplementsConnection
<1>1. RRInit => SessionInv
  BY SessionInit DEF RRInit
<1>2. RRInit => Connection!Init
  <2> SUFFICES ASSUME RRInit PROVE Connection!Init
    OBVIOUS
  <2>1. Init
    BY DEF RRInit
  <2>2. Phase = "closed" /\ sess.session_id = 0
    BY <2>1, PhaseIs DEF Init, NoSession
  <2>3. Pending = Connection!Idle
    BY <2>1, IoIsType, SMTT(60) DEF Init, Pending, Connection!Idle
  <2>4. Reported = Connection!Nothing /\ 1 .. (next_id - 1) = {}
    BY <2>1, SMTT(60) DEF Init, Reported, Refusal, Answer, Connection!Nothing
  <2> QED BY <2>2, <2>3, <2>4 DEF Connection!Init
<1> QED BY <1>1, <1>2, SessionStep, StepRefines, SessionSteps, PTL
        DEF RRSpec, ImplementsConnection, Connection!Spec

(* -------------------------------------------------------- the running realm *)

\* The lines a plane can log: only the heading of the realm's world is shown always.
RealmLines ==
    {l \in [verbosity : {"none", "always", "error", "test", "debug"},
            text : {"none", "Realm", "test", "check failed", "plane entry failed",
                    "realm_config"},
            n : Nat] : l.verbosity = "always" => l = Heading("Realm")}

BootPlaces == {"boot", "version", "width", "main", "stopped"}
Places == BootPlaces \cup {"test", "write", "print", "run", "enter", "exited"}
Answers == {"none", "success", "not_supported", "error", "width", "version", "config",
            "print", "p0_call"}

PlaneStates == [pc : Places, x0 : Answers, todo : Seq(RealmLines),
                k : {"boot", "test", "enter"}, flag : {"none", "p0", "p1"}]
RunObjects == [enter : [pc : Places, x0 : Answers],
               exit : [ec : {"none", "smc", "hvc"}, x0 : Answers, pc : Places]]

RunType ==
    /\ cur \in {"host", "p0", "p1"} /\ host \in {"test", "entered", "exit"}
    /\ plane \in [Planes -> PlaneStates]
    /\ run \in RunObjects
    /\ shm \in RealmLines
    /\ due \in Seq(RealmLines)
    /\ logs \in Nat

\* Who executes, and where plane 0 is when it does not: it leaves to the host from its test
\* or to have a line printed, its own or plane 1's.
ControlInv ==
    /\ cur = "host" <=> host # "entered"
    /\ host = "test" => plane["p0"].pc \in {"boot", "test"}
    /\ host = "exit" => IF imm = "print" THEN plane["p0"].pc \in {"write", "enter"}
                                         ELSE plane["p0"].pc = "test"
    /\ cur = "p1" => plane["p0"].pc \in {"run", "enter"}
    /\ plane["p1"].pc \in BootPlaces \cup {"test", "write", "print"}

\* The place of plane 1 when plane 0 runs it the next time: the run object keeps it.
Resumes == IF plane["p0"].pc = "exited" THEN run.exit.pc ELSE run.enter.pc

\* A place plane 1 can be left at and entered at, with what it finds in x0.
Enterable(spot, x0) ==
    \/ spot = "boot"
    \/ spot = "version" /\ x0 = "not_supported"
    \/ spot = "main" /\ x0 = "width" /\ plane["p1"].flag = "p1"
    \/ spot = "test" /\ plane["p1"].flag = "p1"
    \/ spot = "write" /\ plane["p1"].flag = "p1" /\ plane["p1"].k = "test"

\* Plane 1's exits, and what plane 0 has put into the registers for the next entry.  In its
\* own code plane 0 finds plane 1 not started yet or in its test, between two messages.
ExitInv ==
    /\ plane["p0"].pc = "exited" =>
          /\ <<run.exit.ec, run.exit.x0, run.exit.pc>> \in
                {<<"smc", "version", "version">>, <<"hvc", "config", "main">>,
                 <<"hvc", "print", "write">>, <<"hvc", "p0_call", "test">>}
          /\ run.exit.pc # "version" => plane["p1"].flag = "p1"
          /\ run.exit.pc = "write" => plane["p1"].k = "test"
    /\ Enterable(run.enter.pc, run.enter.x0)
    /\ plane["p0"].pc \in BootPlaces \cup {"test", "run"} => run.enter.pc \in {"boot", "test"}
    /\ plane["p0"].pc \in {"write", "print"} /\ plane["p0"].k = "test" =>
          run.enter.pc \in {"boot", "test"}
    /\ plane["p0"].pc \in {"write", "print"} => plane["p0"].k \in {"test", "enter"}
    /\ plane["p0"].pc \in {"write", "print"} /\ plane["p0"].k = "enter" => run.enter.pc = "main"

\* What each plane knows at each place of its code.
Knows(q) ==
    /\ plane[q].flag \in {"none", q}
    /\ plane[q].pc \notin {"boot", "version", "stopped"} => plane[q].flag = q
    /\ plane[q].pc = "main" => plane[q].x0 = "width"

BootInv ==
    /\ Knows("p0") /\ Knows("p1")
    /\ plane["p0"].pc = "version" => plane["p0"].x0 \in {"success", "error"}
    /\ plane["p0"].pc = "stopped" => plane["p0"].x0 = "error"
    /\ plane["p1"].pc = "version" => plane["p1"].x0 = "not_supported"
    /\ plane["p1"].pc # "stopped"
    /\ plane["p1"].pc \in {"write", "print"} => plane["p1"].k = "test"

\* Lines still to be written belong to a plane that is in LOG, or was taken out of it.
TodoInv ==
    /\ plane["p0"].todo # <<>> => plane["p0"].pc \in {"write", "print"}
    /\ plane["p1"].todo # <<>> =>
          IF cur = "p1" THEN plane["p1"].pc \in {"write", "print"} ELSE Resumes = "write"

\* There is a line that was written and not printed: the plane is about to call the host, or
\* plane 0 to call it for plane 1, or the host is about to print.
Unprinted ==
    \/ cur = "p0" /\ plane["p0"].pc = "print"
    \/ cur = "p1" /\ plane["p1"].pc = "print"
    \/ cur = "p0" /\ plane["p0"].pc = "exited" /\ run.exit.x0 = "print"
    \/ host = "exit" /\ imm = "print"

DueInv == due = IF Unprinted THEN <<shm>> ELSE <<>>

\* The heading is the next line of the plane that executes.
HeadingNext ==
    \E q \in Planes : /\ cur = q /\ plane[q].pc = "write" /\ plane[q].todo # <<>>
                      /\ Head(plane[q].todo) = Heading("Realm")

\* When the realm's world logged last its heading is shown, on its way, or next; when it did
\* not, no line of the realm is on its way and the next message starts with the heading.
HeadingInv ==
    /\ prev = "Realm" => heading = "Realm" \/ due = <<Heading("Realm")>> \/ HeadingNext
    /\ prev # "Realm" => plane["p0"].todo = <<>> /\ plane["p1"].todo = <<>> /\ due = <<>>

RunInv == RunType /\ ControlInv /\ ExitInv /\ BootInv /\ TodoInv /\ DueInv /\ HeadingInv

\* What the invariant says of the registers of both planes is about these two variables.
LEMMA SameRegisters ==
  ASSUME ExitInv, BootInv, plane' = plane, run' = run
  PROVE  ExitInv' /\ BootInv'
<1>1. ExitInv'
  BY DEF ExitInv, Enterable
<1>2. BootInv'
  BY DEF BootInv, Knows
<1> QED BY <1>1, <1>2

\* The realm has not run yet.
LEMMA RunInit == RRInit => RunInv
<1> SUFFICES ASSUME RRInit PROVE RunInv
  OBVIOUS
<1> USE ZenonT(30) DEF RRInit, Planes
<1>1. NoLine \in RealmLines /\ <<>> \in Seq(RealmLines)
  BY SMTT(60) DEF NoLine, Line, RealmLines, Heading
<1>2. RunType
  BY <1>1 DEF RunType, PlaneStates, RunObjects, Places, BootPlaces, Answers
<1>3. ControlInv /\ ExitInv /\ BootInv
  BY DEF ControlInv, ExitInv, BootInv, Knows, BootPlaces, Enterable
<1>4. TodoInv /\ DueInv /\ HeadingInv
  BY DEF TodoInv, DueInv, Unprinted, HeadingInv
<1> QED BY <1>2, <1>3, <1>4 DEF RunInv

\* LOG in the host, in a test: no line of the realm is on its way.
LEMMA HostLogKeeps ==
  ASSUME RunInv, HostLog
  PROVE  RunInv'
<1> USE ZenonT(30) DEF HostLog, RunInv
<1>1. RunType'
  <2>1. logs' \in Nat
    BY SMTT(60) DEF RunType
  <2> QED BY <2>1 DEF RunType
<1>2. ControlInv' /\ ExitInv' /\ BootInv'
  BY SameRegisters DEF ControlInv
<1>3. TodoInv' /\ DueInv'
  BY DEF TodoInv, Resumes, DueInv, Unprinted
<1>4. plane["p0"].todo = <<>> /\ plane["p1"].todo = <<>> /\ due = <<>>
  BY DEF ControlInv, ExitInv, TodoInv, DueInv, Resumes, Unprinted, BootPlaces
<1>5. HeadingInv'
  BY <1>4 DEF HeadingInv
<1> QED BY <1>1, <1>2, <1>3, <1>5

\* RMI_REC_ENTER
LEMMA RecEnterKeeps ==
  ASSUME RunInv, NEW refused \in BOOLEAN, RecEnter(refused)
  PROVE  RunInv'
<1> USE ZenonT(30) DEF RecEnter, Resume, RunInv
<1>1. RunType'
  BY DEF RunType
<1>2. ControlInv' /\ ExitInv' /\ BootInv'
  BY SameRegisters DEF ControlInv
<1>3. TodoInv' /\ DueInv'
  BY DEF TodoInv, Resumes, DueInv, Unprinted, ControlInv
<1>4. plane["p0"].todo = <<>> /\ plane["p1"].todo = <<>> /\ due = <<>>
  BY DEF ControlInv, ExitInv, TodoInv, DueInv, Resumes, Unprinted, BootPlaces
<1>5. HeadingInv'
  BY <1>4 DEF HeadingInv, HeadingNext, ControlInv, Planes
<1> QED BY <1>1, <1>2, <1>3, <1>5

\* The line that is printed is the one that was due.
LEMMA ServedLine ==
  ASSUME RunInv, Unprinted
  PROVE  /\ due = <<shm>> /\ due # <<>> /\ Tail(due) = <<>> /\ prev = "Realm"
         /\ shm.verbosity = "always" => shm.text = "Realm"
<1>1. due = <<shm>> /\ shm \in RealmLines
  BY DEF RunInv, DueInv, RunType
<1>2. shm.verbosity = "always" => shm = Heading("Realm")
  BY <1>1 DEF RealmLines
<1>3. Heading("Realm").text = "Realm"
  BY DEF Heading, Line
<1>4. prev = "Realm"
  BY <1>1 DEF RunInv, HeadingInv
<1> QED BY <1>1, <1>2, <1>3, <1>4, SMTT(60)

\* val_host_rmi_rec_enter after an exit
LEMMA AfterExitKeeps ==
  ASSUME RunInv, AfterExit
  PROVE  RunInv'
<1> USE ZenonT(30) DEF AfterExit, Resume, RunInv
<1>1. CASE imm = "print"
  <2> USE <1>1 DEF val_host_realm_printf_msg_service
  <2>1. /\ due = <<shm>> /\ due' = <<>> /\ prev = "Realm"
        /\ shm.verbosity = "always" => shm.text = "Realm"
    BY ServedLine DEF Unprinted
  <2>2. RunType'
    <3>1. due' \in Seq(RealmLines)
      BY <2>1, SMTT(60)
    <3> QED BY <3>1 DEF RunType
  <2>3. ControlInv' /\ ExitInv' /\ BootInv'
    BY SameRegisters DEF ControlInv
  <2>4. TodoInv' /\ DueInv'
    BY <2>1 DEF TodoInv, Resumes, DueInv, Unprinted, ControlInv
  <2>5. heading' = "Realm"
    <3>1. CASE shm.verbosity = "always"
      BY <2>1, <3>1
    <3>2. CASE shm.verbosity # "always"
      <4>1. due # <<Heading("Realm")>>
        BY <2>1, <3>2, SMTT(60) DEF Heading, Line
      <4>2. ~HeadingNext
        BY DEF HeadingNext, Planes
      <4> QED BY <2>1, <3>2, <4>1, <4>2 DEF HeadingInv
    <3> QED BY <3>1, <3>2
  <2>6. HeadingInv'
    BY <2>1, <2>5 DEF HeadingInv
  <2> QED BY <2>2, <2>3, <2>4, <2>6
<1>2. CASE imm # "print"
  <2> USE <1>2
  <2>1. RunType'
    BY DEF RunType
  <2>2. ControlInv' /\ ExitInv' /\ BootInv'
    BY SameRegisters DEF ControlInv
  <2>3. TodoInv' /\ DueInv'
    BY DEF TodoInv, Resumes, DueInv, Unprinted, ControlInv
  <2>4. HeadingInv'
    BY DEF HeadingInv, HeadingNext, Planes
  <2> QED BY <2>1, <2>2, <2>3, <2>4
<1> QED BY <1>1, <1>2

\* The test serves an RHI call.
LEMMA RhiKeeps ==
  ASSUME RunInv, val_host_rhi_dispatch
  PROVE  RunInv'
<1> USE ZenonT(30) DEF val_host_rhi_dispatch, RunInv
<1>1. RunType'
  BY DEF RunType
<1>2. ControlInv' /\ ExitInv' /\ BootInv'
  BY SameRegisters DEF ControlInv
<1>3. TodoInv' /\ DueInv'
  BY DEF TodoInv, Resumes, DueInv, Unprinted, ControlInv
<1>4. HeadingInv'
  BY DEF HeadingInv, HeadingNext
<1> QED BY <1>1, <1>2, <1>3, <1>4

\* Only plane q changes, and of it only the place.
MovesTo(q, spot) == plane' = [plane EXCEPT ![q].pc = spot]

\* What plane q's new place leaves alone.
LEMMA PlaneMoved ==
  ASSUME RunType, NEW q \in Planes, NEW spot \in Places, MovesTo(q, spot)
  PROVE  /\ plane' \in [Planes -> PlaneStates]
         /\ \A r \in Planes : r # q => plane'[r] = plane[r]
         /\ plane'[q].pc = spot /\ plane'[q].x0 = plane[q].x0
         /\ plane'[q].todo = plane[q].todo /\ plane'[q].k = plane[q].k
         /\ plane'[q].flag = plane[q].flag
<1>1. [plane[q] EXCEPT !.pc = spot] \in PlaneStates
  BY DEF RunType, PlaneStates
<1>2. plane' \in [Planes -> PlaneStates]
  BY <1>1 DEF RunType, MovesTo
<1>3. \A r \in Planes : r # q => plane'[r] = plane[r]
  BY DEF RunType, MovesTo
<1>4. plane'[q] = [plane[q] EXCEPT !.pc = spot]
  BY DEF RunType, MovesTo
<1>5. plane[q] \in PlaneStates
  BY DEF RunType
<1> QED BY <1>2, <1>3, <1>4, <1>5 DEF PlaneStates

\* The same of plane 0.
LEMMA P0Moved ==
  ASSUME RunType, NEW spot \in Places, MovesTo("p0", spot)
  PROVE  /\ plane' \in [Planes -> PlaneStates]
         /\ plane'["p1"] = plane["p1"]
         /\ plane'["p0"].pc = spot /\ plane'["p0"].x0 = plane["p0"].x0
         /\ plane'["p0"].todo = plane["p0"].todo /\ plane'["p0"].k = plane["p0"].k
         /\ plane'["p0"].flag = plane["p0"].flag
<1>1. "p0" \in Planes /\ "p1" \in Planes /\ "p0" # "p1"
  BY DEF Planes
<1> QED BY <1>1, PlaneMoved

\* val_realm_printf writes the next line of the message, or LOG returns.
LEMMA WriteKeeps ==
  ASSUME RunInv, NEW q \in Planes, WriteLine(q)
  PROVE  RunInv'
<1> USE ZenonT(30) DEF RunInv
<1>0. /\ cur = q /\ plane[q].pc = "write" /\ q \in {"p0", "p1"} /\ host = "entered"
      /\ UNCHANGED <<cur, host, imm, run, prev, heading, logs>>
      /\ plane[q].todo \in Seq(RealmLines)
      /\ plane[q].k \in {"boot", "test", "enter"}
  BY DEF WriteLine, At, Planes, ControlInv, RunType, PlaneStates
<1>1. due = <<>> /\ ~Unprinted
  BY <1>0 DEF DueInv, Unprinted
<1>2. CASE /\ plane[q].todo # <<>> /\ shm' = Head(plane[q].todo) /\ due' = Append(due, shm')
           /\ plane' = [plane EXCEPT ![q].pc = "print", ![q].todo = Tail(@)]
  <2>1. Head(plane[q].todo) \in RealmLines /\ Tail(plane[q].todo) \in Seq(RealmLines)
    BY <1>0, <1>2, SMTT(60)
  <2>2. due' = <<shm'>> /\ due' \in Seq(RealmLines)
    BY <1>1, <1>2, <2>1, SMTT(60)
  <2>3. RunType'
    <3>1. [plane[q] EXCEPT !.pc = "print", !.todo = Tail(@)] \in PlaneStates
      BY <1>0, <2>1 DEF RunType, PlaneStates, Places
    <3>2. plane' \in [Planes -> PlaneStates]
      BY <1>2, <3>1 DEF RunType
    <3>3. shm' \in RealmLines
      BY <1>2, <2>1
    <3> QED BY <1>0, <2>2, <3>2, <3>3 DEF RunType
  <2>f. /\ plane'[q].pc = "print" /\ plane'[q].k = plane[q].k /\ plane'[q].flag = plane[q].flag
        /\ \A r \in Planes : r # q => plane'[r] = plane[r]
    BY <1>0, <1>2 DEF RunType, PlaneStates
  <2>4. ControlInv' /\ ExitInv' /\ BootInv' /\ TodoInv'
    <3>1. CASE q = "p0"
      <4>0. /\ plane'["p0"].pc = "print" /\ plane'["p0"].k = plane["p0"].k
            /\ plane'["p0"].flag = plane["p0"].flag /\ plane'["p1"] = plane["p1"]
        BY <2>f, <3>1 DEF Planes
      <4>1. ControlInv'
        BY <1>0, <3>1, <4>0 DEF ControlInv
      <4>2. ExitInv'
        BY <1>0, <3>1, <4>0 DEF ExitInv, Enterable, BootPlaces
      <4>3. BootInv'
        BY <1>0, <3>1, <4>0 DEF BootInv, Knows
      <4>4. TodoInv'
        BY <1>0, <3>1, <4>0 DEF TodoInv, Resumes
      <4> QED BY <4>1, <4>2, <4>3, <4>4
    <3>2. CASE q = "p1"
      <4>0. /\ plane'["p1"].pc = "print" /\ plane'["p1"].k = plane["p1"].k
            /\ plane'["p1"].flag = plane["p1"].flag /\ plane'["p0"] = plane["p0"]
        BY <2>f, <3>2 DEF Planes
      <4>1. ControlInv'
        BY <1>0, <3>2, <4>0 DEF ControlInv
      <4>2. ExitInv'
        BY <1>0, <3>2, <4>0 DEF ExitInv, Enterable
      <4>3. BootInv'
        BY <1>0, <3>2, <4>0 DEF BootInv, Knows
      <4>4. TodoInv'
        BY <1>0, <3>2, <4>0 DEF TodoInv
      <4> QED BY <4>1, <4>2, <4>3, <4>4
    <3> QED BY <1>0, <3>1, <3>2
  <2>5. DueInv'
    BY <1>0, <1>2, <2>2 DEF DueInv, Unprinted, RunType, PlaneStates, Planes
  <2>6. HeadingInv'
    BY <1>0, <1>1, <1>2, <2>2 DEF HeadingInv, HeadingNext
  <2> QED BY <2>3, <2>4, <2>5, <2>6
<1>3. CASE /\ plane[q].todo = <<>> /\ UNCHANGED <<shm, due>>
           /\ plane' = [plane EXCEPT ![q].pc = plane[q].k]
  <2> DEFINE k == plane[q].k
  <2>0. k \in Places /\ MovesTo(q, k)
    BY <1>0, <1>3 DEF Places, BootPlaces, MovesTo
  <2>1. IF q = "p1" THEN k = "test"
        ELSE /\ k \in {"test", "enter"}
             /\ IF k = "test" THEN run.enter.pc \in {"boot", "test"} ELSE run.enter.pc = "main"
    BY <1>0 DEF BootInv, ExitInv
  <2> HIDE DEF k
  <2>2. /\ plane' \in [Planes -> PlaneStates]
        /\ \A r \in Planes : r # q => plane'[r] = plane[r]
        /\ plane'[q].pc = k /\ plane'[q].x0 = plane[q].x0
        /\ plane'[q].todo = plane[q].todo /\ plane'[q].k = plane[q].k
        /\ plane'[q].flag = plane[q].flag
    BY <2>0, PlaneMoved
  <2>3. RunType'
    BY <1>0, <1>3, <2>2 DEF RunType
  <2>4. ControlInv' /\ ExitInv' /\ BootInv' /\ TodoInv'
    <3>1. CASE q = "p0"
      <4>0. /\ plane'["p1"] = plane["p1"] /\ plane'["p0"].pc = k /\ plane'["p0"].flag = "p0"
            /\ plane'["p0"].todo = <<>>
        BY <1>0, <1>3, <2>2, <3>1 DEF Planes, BootInv, Knows
      <4>1. ControlInv'
        BY <1>0, <2>1, <3>1, <4>0 DEF ControlInv
      <4>2. ExitInv'
        BY <1>0, <2>1, <3>1, <4>0 DEF ExitInv, Enterable, BootPlaces
      <4>3. BootInv'
        BY <1>0, <2>1, <3>1, <4>0 DEF BootInv, Knows
      <4>4. TodoInv'
        BY <1>0, <2>1, <3>1, <4>0 DEF TodoInv, Resumes
      <4> QED BY <4>1, <4>2, <4>3, <4>4
    <3>2. CASE q = "p1"
      <4>0. /\ plane'["p0"] = plane["p0"] /\ plane'["p1"].pc = "test"
            /\ plane'["p1"].flag = "p1" /\ plane["p1"].flag = "p1"
            /\ plane'["p1"].k = plane["p1"].k /\ plane'["p1"].todo = <<>>
        BY <1>0, <1>3, <2>1, <2>2, <3>2 DEF Planes, BootInv, Knows
      <4>1. ControlInv'
        BY <1>0, <3>2, <4>0 DEF ControlInv
      <4>2. ExitInv'
        BY <1>0, <3>2, <4>0 DEF ExitInv, Enterable, ControlInv
      <4>3. BootInv'
        BY <1>0, <3>2, <4>0 DEF BootInv, Knows
      <4>4. TodoInv'
        BY <1>0, <3>2, <4>0 DEF TodoInv
      <4> QED BY <4>1, <4>2, <4>3, <4>4
    <3> QED BY <1>0, <3>1, <3>2
  <2>5. k \notin {"print", "exited", "write"}
    BY <1>0 DEF k
  <2>6. ~Unprinted' /\ ~HeadingNext
    BY <1>0, <1>3, <2>2, <2>5 DEF Unprinted, HeadingNext
  <2>7. DueInv' /\ HeadingInv'
    <3>1. \A r \in Planes : plane'[r].todo = plane[r].todo
      BY <2>2
    <3> QED BY <1>0, <1>1, <1>3, <2>6, <3>1 DEF DueInv, HeadingInv, Planes
  <2> QED BY <2>3, <2>4, <2>7
<1> QED BY <1>2, <1>3 DEF WriteLine

\* The plane calls the host, plane 1 through plane 0.
LEMMA PrintKeeps ==
  ASSUME RunInv, NEW q \in Planes, PrintLine(q)
  PROVE  RunInv'
<1> USE ZenonT(30) DEF RunInv
<1>0. /\ cur = q /\ plane[q].pc = "print" /\ q \in {"p0", "p1"} /\ host = "entered"
      /\ plane[q].flag = q
      /\ UNCHANGED <<shm, prev, heading, due, logs>>
  BY DEF PrintLine, At, Planes, ControlInv, BootInv, Knows
<1>1. due = <<shm>> /\ ~HeadingNext
  BY <1>0 DEF DueInv, Unprinted, HeadingNext
<1>2. CASE q = "p0"
  <2>0. imm' = "print" /\ host' = "exit" /\ cur' = "host" /\ run' = run /\ MovesTo("p0", "write")
    BY <1>0, <1>2 DEF PrintLine, HostCall, MovesTo
  <2>1. /\ plane' \in [Planes -> PlaneStates]
        /\ plane'["p1"] = plane["p1"]
        /\ plane'["p0"].pc = "write" /\ plane'["p0"].x0 = plane["p0"].x0
        /\ plane'["p0"].todo = plane["p0"].todo /\ plane'["p0"].k = plane["p0"].k
        /\ plane'["p0"].flag = plane["p0"].flag
    <3>1. "write" \in Places
      BY DEF Places
    <3> QED BY <2>0, <3>1, P0Moved
  <2>2. RunType'
    BY <1>0, <2>0, <2>1 DEF RunType
  <2>3. ControlInv'
    BY <1>0, <1>2, <2>0, <2>1 DEF ControlInv
  <2>4. ExitInv'
    BY <1>0, <1>2, <2>0, <2>1 DEF ExitInv, Enterable, BootPlaces
  <2>5. BootInv'
    BY <1>0, <1>2, <2>1 DEF BootInv, Knows
  <2>6. TodoInv'
    BY <1>0, <1>2, <2>0, <2>1 DEF TodoInv, Resumes
  <2>7. DueInv' /\ HeadingInv'
    BY <1>0, <1>1, <1>2, <2>0, <2>1 DEF DueInv, Unprinted, HeadingInv
  <2> QED BY <2>2, <2>3, <2>4, <2>5, <2>6, <2>7
<1>3. CASE q = "p1"
  <2>0. /\ cur' = "p0" /\ UNCHANGED <<imm, host>> /\ MovesTo("p0", "exited")
        /\ run' = [run EXCEPT !.exit = [ec |-> "hvc", x0 |-> "print", pc |-> "write"]]
    BY <1>0, <1>3 DEF PrintLine, PlaneExit, MovesTo
  <2>1. /\ plane' \in [Planes -> PlaneStates]
        /\ plane'["p1"] = plane["p1"]
        /\ plane'["p0"].pc = "exited" /\ plane'["p0"].x0 = plane["p0"].x0
        /\ plane'["p0"].todo = plane["p0"].todo /\ plane'["p0"].k = plane["p0"].k
        /\ plane'["p0"].flag = plane["p0"].flag
    <3>1. "exited" \in Places
      BY DEF Places
    <3> QED BY <2>0, <3>1, P0Moved
  <2>2. /\ run' \in RunObjects /\ run'.enter = run.enter
        /\ run'.exit.ec = "hvc" /\ run'.exit.x0 = "print" /\ run'.exit.pc = "write"
    BY <2>0 DEF RunType, RunObjects, Places, Answers
  <2>3. /\ plane["p0"].pc \in {"run", "enter"} /\ plane["p0"].flag = "p0"
        /\ plane["p0"].todo = <<>> /\ plane["p1"].k = "test"
    BY <1>0, <1>3 DEF ControlInv, BootInv, Knows, TodoInv
  <2>4. RunType'
    BY <1>0, <2>0, <2>1, <2>2 DEF RunType
  <2>5. ControlInv'
    BY <1>0, <2>0, <2>1 DEF ControlInv
  <2>6. ExitInv'
    <3>1. Enterable(run.enter.pc, run.enter.x0)
      BY DEF ExitInv
    <3>2. Enterable(run.enter.pc, run.enter.x0)'
      BY <2>1, <2>2, <3>1 DEF Enterable
    <3> QED BY <1>0, <1>3, <2>1, <2>2, <2>3, <3>2 DEF ExitInv, BootPlaces
  <2>7. BootInv'
    BY <2>1, <2>3 DEF BootInv, Knows
  <2>8. TodoInv'
    BY <2>0, <2>1, <2>2, <2>3 DEF TodoInv, Resumes
  <2>9. DueInv' /\ HeadingInv'
    BY <1>0, <1>1, <2>0, <2>1, <2>2 DEF DueInv, Unprinted, HeadingInv
  <2> QED BY <2>4, <2>5, <2>6, <2>7, <2>8, <2>9
<1> QED BY <1>0, <1>2, <1>3

\* Plane q goes on at pc with a new x0 and flag.
MovesOn(q, spot, x0, flag) ==
    plane' = [plane EXCEPT ![q].pc = spot, ![q].x0 = x0, ![q].flag = flag]

\* A boot step of plane q moves q on and leaves everything else alone.
LEMMA BootKeeps ==
  ASSUME RunInv, NEW q \in Planes, cur = q,
         NEW spot \in Places, NEW x0 \in Answers, NEW flag \in {"none", "p0", "p1"},
         plane[q].pc \in BootPlaces,
         spot \in {"version", "width", "main", "test", "stopped"},
         MovesOn(q, spot, x0, flag),
         UNCHANGED <<cur, host, imm, run, shm, prev, heading, due, logs>>,
         flag \in {"none", q}, plane[q].flag = q => flag = q,
         spot \notin {"version", "stopped"} => flag = q,
         spot = "main" => x0 = "width",
         spot = "version" => q = "p0" /\ x0 \in {"success", "error"},
         spot = "stopped" => q = "p0" /\ x0 = "error"
  PROVE  RunInv'
<1> USE ZenonT(30) DEF RunInv
<1>0. q \in {"p0", "p1"} /\ host = "entered"
  BY DEF Planes, ControlInv
<1>1. RunType'
  <2>1. [plane[q] EXCEPT !.pc = spot, !.x0 = x0, !.flag = flag] \in PlaneStates
    BY DEF RunType, PlaneStates
  <2>2. plane' \in [Planes -> PlaneStates]
    BY <2>1 DEF RunType, MovesOn
  <2> QED BY <2>2 DEF RunType
<1>f. /\ plane'[q].pc = spot /\ plane'[q].x0 = x0 /\ plane'[q].flag = flag
      /\ plane'[q].todo = plane[q].todo /\ plane'[q].k = plane[q].k
      /\ \A r \in Planes : r # q => plane'[r] = plane[r]
  BY DEF MovesOn, RunType, PlaneStates
<1>2. ControlInv' /\ ExitInv' /\ BootInv'
  <2>1. CASE q = "p0"
    <3>0. plane'["p1"] = plane["p1"] /\ plane'["p0"].pc = spot /\ plane'["p0"].x0 = x0
          /\ plane'["p0"].flag = flag /\ plane'["p0"].k = plane["p0"].k
      BY <1>f, <2>1 DEF Planes
    <3>1. ControlInv'
      BY <1>0, <2>1, <3>0 DEF ControlInv
    <3>2. ExitInv'
      BY <1>0, <2>1, <3>0 DEF ExitInv, Enterable, BootPlaces
    <3>3. BootInv'
      BY <1>0, <2>1, <3>0 DEF BootInv, Knows, Planes
    <3> QED BY <3>1, <3>2, <3>3
  <2>2. CASE q = "p1"
    <3>0. plane'["p0"] = plane["p0"] /\ plane'["p1"].pc = spot /\ plane'["p1"].x0 = x0
          /\ plane'["p1"].flag = flag /\ plane'["p1"].k = plane["p1"].k
      BY <1>f, <2>2 DEF Planes
    <3>1. ControlInv'
      BY <1>0, <2>2, <3>0 DEF ControlInv, BootPlaces
    <3>2. ExitInv'
      <4>1. Enterable(run.enter.pc, run.enter.x0)
        BY DEF ExitInv
      <4>2. Enterable(run.enter.pc, run.enter.x0)'
        BY <2>2, <3>0, <4>1 DEF Enterable
      <4> QED BY <1>0, <2>2, <3>0, <4>2 DEF ExitInv, BootPlaces
    <3>3. BootInv'
      BY <1>0, <2>2, <3>0 DEF BootInv, Knows, Planes
    <3> QED BY <3>1, <3>2, <3>3
  <2> QED BY <1>0, <2>1, <2>2
<1>3. TodoInv'
  <2>1. plane[q].todo = <<>>
    BY <1>0 DEF TodoInv, BootPlaces
  <2>2. CASE q = "p0"
    <3>1. plane["p1"].todo = <<>> /\ plane'["p1"] = plane["p1"] /\ plane'["p0"].todo = <<>>
      BY <1>0, <1>f, <2>1, <2>2 DEF TodoInv, Resumes, ExitInv, Planes, BootPlaces
    <3> QED BY <3>1 DEF TodoInv
  <2>3. CASE q = "p1"
    <3>1. plane'["p0"] = plane["p0"] /\ plane'["p1"].todo = <<>>
      BY <1>f, <2>1, <2>3 DEF Planes
    <3> QED BY <3>1 DEF TodoInv
  <2> QED BY <1>0, <2>2, <2>3
<1>4. DueInv'
  BY <1>0, <1>f DEF DueInv, Unprinted, Planes, BootPlaces
<1>5. HeadingInv'
  BY <1>0, <1>f DEF HeadingInv, HeadingNext, Planes, BootPlaces
<1> QED BY <1>1, <1>2, <1>3, <1>4, <1>5

\* A trapped call of plane 1 other than a print gives plane 0 the processor.
LEMMA ExitKeeps ==
  ASSUME RunInv, cur = "p1", NEW ec, NEW x0, NEW spot, PlaneExit(ec, x0, spot),
         plane["p1"].pc \in BootPlaces \cup {"test"},
         UNCHANGED <<host, imm, shm, prev, heading, due, logs>>,
         <<ec, x0, spot>> \in {<<"smc", "version", "version">>, <<"hvc", "config", "main">>,
                             <<"hvc", "p0_call", "test">>},
         spot # "version" => plane["p1"].flag = "p1"
  PROVE  RunInv'
<1> USE ZenonT(30) DEF RunInv
<1>0. /\ plane["p0"].pc \in {"run", "enter"} /\ plane["p0"].flag = "p0" /\ host = "entered"
      /\ plane["p1"].todo = <<>> /\ plane["p0"].todo = <<>>
  BY DEF ControlInv, BootInv, Knows, Planes, TodoInv, BootPlaces
<1>1. cur' = "p0" /\ MovesTo("p0", "exited")
  BY DEF PlaneExit, MovesTo
<1>2. /\ plane' \in [Planes -> PlaneStates]
      /\ plane'["p1"] = plane["p1"]
      /\ plane'["p0"].pc = "exited" /\ plane'["p0"].x0 = plane["p0"].x0
      /\ plane'["p0"].todo = plane["p0"].todo /\ plane'["p0"].k = plane["p0"].k
      /\ plane'["p0"].flag = plane["p0"].flag
  <2>1. "exited" \in Places
    BY DEF Places
  <2> QED BY <1>1, <2>1, P0Moved
<1>3. /\ run' \in RunObjects /\ run'.enter = run.enter
      /\ run'.exit.ec = ec /\ run'.exit.x0 = x0 /\ run'.exit.pc = spot
  BY DEF PlaneExit, RunType, RunObjects, Places, BootPlaces, Answers
<1>4. RunType'
  BY <1>1, <1>2, <1>3 DEF RunType
<1>5. ControlInv'
  BY <1>0, <1>1, <1>2 DEF ControlInv
<1>6. ExitInv'
  <2>1. Enterable(run.enter.pc, run.enter.x0)
    BY DEF ExitInv
  <2>2. Enterable(run.enter.pc, run.enter.x0)'
    BY <1>2, <1>3, <2>1 DEF Enterable
  <2>3. spot # "write" /\ <<ec, x0, spot>> \in
              {<<"smc", "version", "version">>, <<"hvc", "config", "main">>,
               <<"hvc", "print", "write">>, <<"hvc", "p0_call", "test">>}
    BY SMTT(60)
  <2> QED BY <1>2, <1>3, <2>2, <2>3 DEF ExitInv, BootPlaces
<1>7. BootInv'
  BY <1>0, <1>2 DEF BootInv, Knows, Planes
<1>8. TodoInv'
  BY <1>0, <1>2 DEF TodoInv
<1>9. DueInv'
  BY <1>0, <1>1, <1>2, <1>3 DEF DueInv, Unprinted, BootPlaces
<1>10. HeadingInv'
  BY <1>0, <1>2 DEF HeadingInv, HeadingNext, Planes, BootPlaces
<1> QED BY <1>4, <1>5, <1>6, <1>7, <1>8, <1>9, <1>10

\* Sequences of one element and of none.
LEMMA OneElement ==
  ASSUME NEW S, NEW x \in S
  PROVE  <<x>> \in Seq(S) /\ <<>> \in Seq(S) /\ <<x>> # <<>> /\ <<x>>[1] = x
<1>1. <<x>> \in Seq(S) /\ <<x>>[1] = x
  BY SMTT(60)
<1>2. <<>> \in Seq(S)
  BY SMTT(60)
<1>3. <<x>> # <<>>
  OBVIOUS
<1> QED BY <1>1, <1>2, <1>3

\* A sequence with an element in the middle starts with that element or with the first part.
LEMMA MiddleElement ==
  ASSUME NEW S, NEW h \in Seq(S), NEW a \in S, NEW e \in Seq(S)
  PROVE  /\ h \o <<a>> \o e \in Seq(S)
         /\ h \o <<a>> \o e # <<>>
         /\ h # <<>> => Head(h \o <<a>> \o e) = h[1]
<1>1. h \o <<a>> \in Seq(S) /\ Len(h \o <<a>>) = Len(h) + 1
  BY SMTT(60)
<1>2. h # <<>> => (h \o <<a>>)[1] = h[1]
  BY SMTT(60)
<1> DEFINE g == h \o <<a>>
<1>3. g \in Seq(S) /\ Len(g) >= 1 /\ (h # <<>> => g[1] = h[1])
  BY <1>1, <1>2, SMTT(60)
<1> HIDE DEF g
<1>4. g \o e \in Seq(S) /\ Len(g \o e) >= 1 /\ (g \o e)[1] = g[1]
  BY <1>3, SMTT(60)
<1>5. g \o e # <<>> /\ Head(g \o e) = (g \o e)[1]
  BY <1>4, SMTT(60)
<1> QED BY <1>3, <1>4, <1>5 DEF g

\* A message of the realm is one to three lines, the first its heading when another world
\* logged last.
LEMMA LinesAre ==
  ASSUME NEW verbosity \in {"error", "test", "debug"},
         NEW text \in {"test", "plane entry failed", "realm_config"}, NEW n \in Nat
  PROVE  /\ Lines("Realm", verbosity, text, n) \in Seq(RealmLines)
         /\ Lines("Realm", verbosity, text, n) # <<>>
         /\ prev # "Realm" => Head(Lines("Realm", verbosity, text, n)) = Heading("Realm")
<1>1. /\ Line(verbosity, text, n) \in RealmLines
      /\ Line("error", "check failed", n) \in RealmLines
      /\ Heading("Realm") \in RealmLines
  BY DEF RealmLines, Line, Heading
<1> DEFINE h == IF prev # "Realm" THEN <<Heading("Realm")>> ELSE <<>>
           a == Line(verbosity, text, n)
           f == Line("error", "check failed", n)
           e == IF verbosity = "error" THEN <<f>> ELSE <<>>
<1>2. Lines("Realm", verbosity, text, n) = h \o <<a>> \o e
  BY DEF Lines
<1> HIDE DEF a, f
<1>3. \A x \in RealmLines : /\ <<x>> \in Seq(RealmLines) /\ <<>> \in Seq(RealmLines)
                            /\ <<x>> # <<>> /\ <<x>>[1] = x
  BY OneElement
<1>4. h \in Seq(RealmLines) /\ (prev # "Realm" => h # <<>> /\ h[1] = Heading("Realm"))
  BY <1>1, <1>3
<1>5. e \in Seq(RealmLines)
  BY <1>1, <1>3 DEF f
<1>6. a \in RealmLines
  BY <1>1 DEF a
<1> HIDE DEF h, e
<1>7. /\ h \o <<a>> \o e \in Seq(RealmLines)
      /\ h \o <<a>> \o e # <<>>
      /\ h # <<>> => Head(h \o <<a>> \o e) = h[1]
  BY <1>4, <1>5, <1>6, MiddleElement
<1> QED BY <1>2, <1>4, <1>7

\* LOG in the plane that executes, which was not in LOG: no line of either plane is left
\* over, and the heading comes first when it is due.  What becomes of the run object is
\* left to the caller.
LEMMA LogKeeps ==
  ASSUME RunInv, NEW q \in Planes, cur = q,
         NEW verbosity \in {"error", "test", "debug"},
         NEW text \in {"test", "plane entry failed", "realm_config"}, NEW n \in Nat,
         NEW k \in {"test", "enter"}, Log(q, verbosity, text, n, k),
         plane[q].pc = "test" \/ (q = "p0" /\ plane[q].pc = "run")
            \/ (q = "p0" /\ plane[q].pc = "exited" /\ run.exit.x0 = "config"),
         q = "p1" => k = "test",
         UNCHANGED <<cur, host, imm, shm, heading, due>>, logs' \in Nat,
         run' \in RunObjects,
         q = "p1" => run' = run,
         q = "p0" => Enterable(run'.enter.pc, run'.enter.x0),
         q = "p0" /\ k = "test" => run'.enter.pc \in {"boot", "test"},
         q = "p0" /\ k = "enter" => run'.enter.pc = "main"
  PROVE  RunInv'
<1> USE ZenonT(30) DEF RunInv
<1> DEFINE ls == Lines("Realm", verbosity, text, n)
<1>0. /\ q \in {"p0", "p1"} /\ host = "entered" /\ plane[q].flag = q
      /\ cur' = q /\ prev' = "Realm"
  BY DEF Planes, ControlInv, BootInv, Knows, Log
<1>1. ls \in Seq(RealmLines) /\ ls # <<>> /\ (prev # "Realm" => Head(ls) = Heading("Realm"))
  BY LinesAre
<1>2. /\ plane' = [plane EXCEPT ![q].todo = ls, ![q].pc = "write", ![q].k = k]
  BY DEF Log
<1> HIDE DEF ls
<1>3. /\ plane'[q].pc = "write" /\ plane'[q].todo = ls /\ plane'[q].k = k
      /\ plane'[q].flag = plane[q].flag /\ plane'[q].x0 = plane[q].x0
      /\ \A r \in Planes : r # q => plane'[r] = plane[r]
  BY <1>2 DEF RunType, PlaneStates
<1>4. plane' \in [Planes -> PlaneStates]
  <2>1. [plane[q] EXCEPT !.todo = ls, !.pc = "write", !.k = k] \in PlaneStates
    BY <1>1 DEF RunType, PlaneStates, Places
  <2> QED BY <1>2, <2>1 DEF RunType
<1>5. plane["p0"].todo = <<>> /\ plane["p1"].todo = <<>> /\ ~Unprinted
  <2>1. CASE q = "p0"
    BY <1>0, <2>1 DEF TodoInv, Resumes, ExitInv, Unprinted
  <2>2. CASE q = "p1"
    BY <1>0, <2>2 DEF TodoInv, ControlInv, Unprinted
  <2> QED BY <1>0, <2>1, <2>2
<1>6. RunType'
  BY <1>0, <1>4 DEF RunType
<1>7. TodoInv' /\ DueInv'
  BY <1>0, <1>3, <1>5 DEF TodoInv, DueInv, Unprinted, Planes, ControlInv
<1>8. HeadingInv'
  <2>1. CASE prev = "Realm"
    <3>1. ~HeadingNext /\ due = <<>>
      BY <1>0, <1>5 DEF HeadingNext, DueInv, Planes
    <3>2. heading = "Realm"
      BY <2>1, <3>1, OneElement DEF HeadingInv
    <3> QED BY <1>0, <3>2 DEF HeadingInv
  <2>2. CASE prev # "Realm"
    BY <1>0, <1>1, <1>3, <2>2 DEF HeadingInv, HeadingNext
  <2> QED BY <2>1, <2>2
<1>9. ControlInv'
  BY <1>0, <1>3 DEF ControlInv, Planes
<1>10. BootInv'
  <2>1. CASE q = "p0"
    <3>1. /\ plane'["p1"] = plane["p1"] /\ plane'["p0"].pc = "write"
          /\ plane'["p0"].flag = "p0"
      BY <1>0, <1>3, <2>1 DEF Planes
    <3> QED BY <3>1 DEF BootInv, Knows
  <2>2. CASE q = "p1"
    <3>1. /\ plane'["p0"] = plane["p0"] /\ plane'["p1"].pc = "write"
          /\ plane'["p1"].flag = "p1" /\ plane'["p1"].k = "test"
      BY <1>0, <1>3, <2>2 DEF Planes
    <3> QED BY <3>1 DEF BootInv, Knows, Planes
  <2> QED BY <1>0, <2>1, <2>2
<1>11. ExitInv'
  <2>1. CASE q = "p0"
    <3>1. plane'["p1"] = plane["p1"] /\ plane'["p0"].pc = "write" /\ plane'["p0"].k = k
      BY <1>3, <2>1 DEF Planes
    <3> QED BY <2>1, <3>1 DEF ExitInv, Enterable, BootPlaces
  <2>2. CASE q = "p1"
    <3>1. /\ plane'["p0"] = plane["p0"] /\ plane["p0"].pc \in {"run", "enter"} /\ run' = run
          /\ plane'["p1"].flag = "p1" /\ plane'["p1"].k = "test"
      BY <1>0, <1>3, <2>2 DEF Planes, ControlInv
    <3> QED BY <3>1 DEF ExitInv, Enterable, BootPlaces
  <2> QED BY <1>0, <2>1, <2>2
<1> QED BY <1>6, <1>7, <1>8, <1>9, <1>10, <1>11

\* Plane 0 goes on at pc in its own code or calls the host from its test; nothing of plane
\* 1 and no line is touched.
LEMMA PlaneZeroKeeps ==
  ASSUME RunInv, cur = "p0", plane["p0"].pc = "test",
         NEW spot \in {"test", "run"}, MovesTo("p0", spot),
         UNCHANGED <<run, shm, prev, heading, due, logs>>,
         \/ UNCHANGED <<cur, host, imm>>
         \/ spot = "test" /\ cur' = "host" /\ host' = "exit" /\ imm' # "print"
  PROVE  RunInv'
<1> USE ZenonT(30) DEF RunInv
<1>1. /\ plane' \in [Planes -> PlaneStates]
      /\ plane'["p1"] = plane["p1"]
      /\ plane'["p0"].pc = spot /\ plane'["p0"].x0 = plane["p0"].x0
      /\ plane'["p0"].todo = plane["p0"].todo /\ plane'["p0"].k = plane["p0"].k
      /\ plane'["p0"].flag = plane["p0"].flag
  <2>1. spot \in Places
    BY DEF Places
  <2> QED BY <2>1, P0Moved
<1>2. /\ host = "entered" /\ ~Unprinted /\ ~HeadingNext
      /\ plane["p0"].todo = <<>> /\ plane["p1"].todo = <<>>
  BY DEF ControlInv, Unprinted, TodoInv, Resumes, ExitInv, HeadingNext, Planes
<1>3. RunType'
  BY <1>1 DEF RunType
<1>4. ControlInv'
  BY <1>1, <1>2 DEF ControlInv
<1>5. ExitInv'
  BY <1>1, <1>2 DEF ExitInv, Enterable, BootPlaces
<1>6. BootInv'
  BY <1>1, <1>2 DEF BootInv, Knows, Planes
<1>7. TodoInv' /\ DueInv'
  BY <1>1, <1>2 DEF TodoInv, DueInv, Unprinted
<1>8. HeadingInv'
  BY <1>1, <1>2 DEF HeadingInv
<1> QED BY <1>3, <1>4, <1>5, <1>6, <1>7, <1>8

\* Plane 1 starts or goes on where the run object says.
LEMMA EnterKeeps ==
  ASSUME RunInv, PlaneEnter(FALSE)
  PROVE  RunInv'
<1> USE ZenonT(30) DEF RunInv
<1>0. /\ cur = "p0" /\ plane["p0"].pc \in {"run", "enter"} /\ host = "entered" /\ cur' = "p1"
      /\ plane' = [plane EXCEPT !["p1"].pc = run.enter.pc, !["p1"].x0 = run.enter.x0]
      /\ UNCHANGED <<host, imm, run, shm, prev, heading, due, logs>>
  BY DEF PlaneEnter, At, ControlInv
<1>1. /\ run.enter.pc \in Places /\ run.enter.x0 \in Answers
      /\ Enterable(run.enter.pc, run.enter.x0)
  BY DEF RunType, RunObjects, ExitInv
<1>2. /\ plane'["p0"] = plane["p0"] /\ plane'["p1"].pc = run.enter.pc
      /\ plane'["p1"].x0 = run.enter.x0 /\ plane'["p1"].todo = plane["p1"].todo
      /\ plane'["p1"].k = plane["p1"].k /\ plane'["p1"].flag = plane["p1"].flag
  BY <1>0 DEF RunType, PlaneStates, Planes
<1>3. plane' \in [Planes -> PlaneStates]
  <2>1. [plane["p1"] EXCEPT !.pc = run.enter.pc, !.x0 = run.enter.x0] \in PlaneStates
    BY <1>1 DEF RunType, PlaneStates, Planes
  <2> QED BY <1>0, <2>1 DEF RunType
<1>4. ~Unprinted /\ ~HeadingNext /\ plane["p0"].todo = <<>>
  BY <1>0 DEF Unprinted, HeadingNext, Planes, TodoInv
<1>5. RunType'
  <2>1. cur' \in {"host", "p0", "p1"}
    BY <1>0
  <2> QED BY <1>0, <1>3, <2>1 DEF RunType
<1>6. ControlInv'
  BY <1>0, <1>1, <1>2 DEF ControlInv, Enterable, BootPlaces
<1>7. ExitInv'
  BY <1>0, <1>1, <1>2 DEF ExitInv, Enterable, BootPlaces
<1>8. BootInv'
  <2>1. plane["p1"].flag \in {"none", "p1"}
    BY DEF BootInv, Knows, Planes
  <2>2. /\ run.enter.pc \notin {"boot", "version", "stopped"} => plane["p1"].flag = "p1"
        /\ run.enter.pc = "main" => run.enter.x0 = "width"
        /\ run.enter.pc = "version" => run.enter.x0 = "not_supported"
        /\ run.enter.pc \notin {"stopped", "print"}
        /\ run.enter.pc = "write" => plane["p1"].k = "test"
    BY <1>1 DEF Enterable
  <2> QED BY <1>2, <2>1, <2>2 DEF BootInv, Knows, Planes
<1>9. TodoInv'
  BY <1>0, <1>2, <1>4 DEF TodoInv, Resumes
<1>10. DueInv'
  BY <1>0, <1>1, <1>2, <1>4 DEF DueInv, Unprinted, Enterable
<1>11. HeadingInv'
  BY <1>0, <1>2, <1>4 DEF HeadingInv
<1> QED BY <1>5, <1>6, <1>7, <1>8, <1>9, <1>10, <1>11

\* What val_realm_preserve_plane_context leaves in the run object.
LEMMA Preserved ==
  ASSUME RunType
  PROVE  LET r == val_realm_preserve_plane_context(run)
         IN r \in RunObjects /\ r.exit = run.exit /\ r.enter.pc = run.exit.pc
  BY DEF RunType, RunObjects, val_realm_preserve_plane_context

\* What it leaves when plane 0 puts its answer there.
LEMMA AnswerPreserved ==
  ASSUME RunType, NEW x0 \in Answers
  PROVE  /\ Answered(run, x0) \in RunObjects /\ Answered(run, x0).exit = run.exit
         /\ Answered(run, x0).enter.pc = run.exit.pc /\ Answered(run, x0).enter.x0 = x0
  BY DEF RunType, RunObjects, Answered, val_realm_preserve_plane_context

\* The loop of val_realm_run_plane sends plane 1 on with its registers and the answer, has
\* its line printed, or returns to plane 0's test.
LEMMA HandleKeeps ==
  ASSUME RunInv, val_realm_plane_handle_exception
  PROVE  RunInv'
<1> USE ZenonT(30) DEF RunInv
<1>0. /\ cur = "p0" /\ plane["p0"].pc = "exited" /\ host = "entered" /\ plane["p0"].flag = "p0"
      /\ plane["p0"].todo = <<>> /\ ~HeadingNext
      /\ UNCHANGED <<shm, heading, due, logs>>
  BY DEF val_realm_plane_handle_exception, At, ControlInv, BootInv, Knows, TodoInv, HeadingNext, Planes
<1>1. /\ <<run.exit.ec, run.exit.x0, run.exit.pc>> \in
            {<<"smc", "version", "version">>, <<"hvc", "config", "main">>,
             <<"hvc", "print", "write">>, <<"hvc", "p0_call", "test">>}
      /\ run.exit.pc # "version" => plane["p1"].flag = "p1"
      /\ run.exit.pc = "write" => plane["p1"].k = "test"
  BY <1>0 DEF ExitInv
<1>2. "not_supported" \in Answers /\ "width" \in Answers
  BY DEF Answers
<1>3. CASE run.exit.ec = "hvc" /\ run.exit.x0 = "config" /\ hvc_handle_realm_config
  <2>1. /\ run' = Answered(run, "width") /\ Log("p0", "debug", "realm_config", 0, "enter")
        /\ UNCHANGED <<cur, host, imm>>
    BY <1>3 DEF hvc_handle_realm_config
  <2>2. run.exit.pc = "main" /\ plane["p1"].flag = "p1"
    BY <1>1, <1>3
  <2>3. run' \in RunObjects /\ run'.enter.pc = "main" /\ run'.enter.x0 = "width"
    BY <1>2, <2>1, <2>2, AnswerPreserved
  <2>4. Enterable(run'.enter.pc, run'.enter.x0)
    BY <2>2, <2>3 DEF Enterable
  <2>5. "p0" \in Planes /\ logs' \in Nat
    BY <1>0 DEF Planes, RunType
  <2> QED BY <1>0, <1>3, <2>1, <2>3, <2>4, <2>5, LogKeeps
<1>4. ASSUME NEW spot \in {"enter", "test"}, MovesTo("p0", spot), prev' = prev, run' \in RunObjects,
             run'.exit = run.exit, run'.enter.pc = run.exit.pc,
             Enterable(run'.enter.pc, run'.enter.x0), spot = "test" => run.exit.pc = "test",
             \/ UNCHANGED <<cur, host, imm>> /\ run.exit.x0 # "print"
             \/ /\ cur' = "host" /\ host' = "exit" /\ imm' = "print"
                /\ run.exit.x0 = "print" /\ spot = "enter"
      PROVE  RunInv'
  <2>1. /\ plane' \in [Planes -> PlaneStates]
        /\ plane'["p1"] = plane["p1"]
        /\ plane'["p0"].pc = spot /\ plane'["p0"].x0 = plane["p0"].x0
        /\ plane'["p0"].todo = plane["p0"].todo /\ plane'["p0"].k = plane["p0"].k
        /\ plane'["p0"].flag = plane["p0"].flag
    <3>1. spot \in Places
      BY <1>4 DEF Places
    <3> QED BY <1>4, <3>1, P0Moved
  <2>2. RunType'
    <3>1. cur' \in {"host", "p0", "p1"} /\ host' \in {"test", "entered", "exit"}
      BY <1>0, <1>4
    <3> QED BY <1>0, <1>4, <2>1, <3>1 DEF RunType
  <2>3. ControlInv'
    BY <1>0, <1>4, <2>1 DEF ControlInv
  <2>4. ExitInv'
    BY <1>0, <1>4, <2>1 DEF ExitInv, Enterable, BootPlaces
  <2>5. BootInv'
    BY <1>0, <1>4, <2>1 DEF BootInv, Knows, Planes
  <2>6. TodoInv'
    BY <1>0, <1>4, <2>1 DEF TodoInv, Resumes
  <2>7. DueInv'
    BY <1>0, <1>1, <1>4, <2>1 DEF DueInv, Unprinted
  <2>8. HeadingInv'
    BY <1>0, <1>4, <2>1 DEF HeadingInv
  <2> QED BY <2>2, <2>3, <2>4, <2>5, <2>6, <2>7, <2>8
<1>5. CASE run.exit.ec = "smc" /\ run' = Answered(run, "not_supported") /\ To("enter")
  <2>1. run.exit.pc = "version" /\ run.exit.x0 = "version"
    BY <1>1, <1>5
  <2>2. /\ run' \in RunObjects /\ run'.exit = run.exit /\ run'.enter.pc = run.exit.pc
        /\ run'.enter.x0 = "not_supported"
    BY <1>2, <1>5, AnswerPreserved
  <2>3. MovesTo("p0", "enter") /\ UNCHANGED <<cur, host, imm, prev>>
    BY <1>5 DEF To, MovesTo
  <2>4. Enterable(run'.enter.pc, run'.enter.x0)
    BY <2>1, <2>2 DEF Enterable
  <2> QED BY <1>4, <2>1, <2>2, <2>3, <2>4
<1>6. CASE run.exit.ec = "hvc" /\ run.exit.x0 = "print" /\ hvc_handle_realm_print
  <2>1. run.exit.pc = "write"
    BY <1>1, <1>6
  <2>2. run' \in RunObjects /\ run'.exit = run.exit /\ run'.enter.pc = run.exit.pc
    BY <1>6, Preserved DEF hvc_handle_realm_print
  <2>3. MovesTo("p0", "enter") /\ cur' = "host" /\ host' = "exit" /\ imm' = "print" /\ prev' = prev
    BY <1>6 DEF hvc_handle_realm_print, HostCall, MovesTo
  <2>4. Enterable(run'.enter.pc, run'.enter.x0)
    BY <1>1, <2>1, <2>2 DEF Enterable
  <2> QED BY <1>4, <1>6, <2>1, <2>2, <2>3, <2>4
<1>7. CASE /\ run.exit.ec = "hvc" /\ run.exit.x0 = "p0_call"
           /\ run' = val_realm_preserve_plane_context(run) /\ To("test")
  <2>1. run.exit.pc = "test"
    BY <1>1, <1>7
  <2>2. run' \in RunObjects /\ run'.exit = run.exit /\ run'.enter.pc = run.exit.pc
    BY <1>7, Preserved
  <2>3. MovesTo("p0", "test") /\ UNCHANGED <<cur, host, imm, prev>>
    BY <1>7 DEF To, MovesTo
  <2>4. Enterable(run'.enter.pc, run'.enter.x0)
    BY <1>1, <2>1, <2>2 DEF Enterable
  <2> QED BY <1>4, <1>7, <2>1, <2>2, <2>3, <2>4
<1> QED BY <1>3, <1>5, <1>6, <1>7 DEF val_realm_plane_handle_exception

\* The boot steps of the realm image, in plane 0 and in plane 1.
LEMMA ImageKeeps ==
  ASSUME RunInv, NEW q \in Planes,
         CheckVersion(q) \/ AskWidth(q) \/ Main(q) \/ \E b \in BOOLEAN : AskVersion(q, b)
  PROVE  RunInv'
<1> USE ZenonT(30) DEF RunInv
<1>0. q \in {"p0", "p1"} /\ plane[q] \in PlaneStates
  BY DEF Planes, RunType
<1>1. ASSUME NEW b \in BOOLEAN, AskVersion(q, b) PROVE RunInv'
  <2>1. cur = q /\ plane[q].pc = "boot" /\ UNCHANGED <<host, imm, shm, prev, heading, due, logs>>
    BY <1>1 DEF AskVersion, At
  <2>2. CASE q = "p0"
    <3> DEFINE x0 == IF b THEN "success" ELSE "error"
    <3>1. /\ plane' = [plane EXCEPT ![q].pc = "version", ![q].x0 = x0]
          /\ UNCHANGED <<cur, run>>
      BY <1>1, <2>2 DEF AskVersion
    <3>2. x0 \in {"success", "error"} /\ x0 \in Answers /\ "version" \in Places
      BY DEF Answers, Places, BootPlaces
    <3> HIDE DEF x0
    <3>3. MovesOn(q, "version", x0, plane[q].flag)
      BY <1>0, <3>1 DEF MovesOn, RunType, PlaneStates
    <3>4. plane[q].flag \in {"none", q} /\ plane[q].flag \in {"none", "p0", "p1"}
      BY <1>0 DEF BootInv, Knows, PlaneStates
    <3>5. plane[q].pc \in BootPlaces
      BY <2>1 DEF BootPlaces
    <3> QED BY <2>1, <2>2, <3>1, <3>2, <3>3, <3>4, <3>5, BootKeeps
  <2>3. CASE q = "p1"
    <3>1. PlaneExit("smc", "version", "version")
      BY <1>1, <2>3 DEF AskVersion
    <3>2. plane["p1"].pc \in BootPlaces \cup {"test"}
      BY <2>1, <2>3 DEF BootPlaces
    <3> QED BY <2>1, <2>3, <3>1, <3>2, ExitKeeps
  <2> QED BY <1>0, <2>2, <2>3
<1>2. CASE CheckVersion(q)
  <2> DEFINE x0 == plane[q].x0
             flag == IF x0 = "success" THEN "p0"
                     ELSE IF x0 = "not_supported" THEN "p1" ELSE plane[q].flag
             spot == IF x0 \in {"success", "not_supported"} THEN "width" ELSE "stopped"
  <2>1. /\ cur = q /\ plane[q].pc = "version"
        /\ UNCHANGED <<cur, host, imm, run, shm, prev, heading, due, logs>>
    BY <1>2 DEF CheckVersion, At
  <2>2. plane' = [plane EXCEPT ![q].flag = flag, ![q].pc = spot]
    BY <1>2 DEF CheckVersion
  <2>3. /\ plane[q].flag \in {"none", q}
        /\ IF q = "p0" THEN x0 \in {"success", "error"} ELSE x0 = "not_supported"
    BY <1>0, <2>1 DEF BootInv, Knows
  <2>4. /\ flag \in {"none", q} /\ (plane[q].flag = q => flag = q)
        /\ spot = "width" => flag = q
        /\ spot \in {"width", "stopped"}
        /\ spot = "stopped" => q = "p0" /\ x0 = "error"
    BY <1>0, <2>3
  <2>5. x0 \in Answers
    BY <1>0 DEF PlaneStates
  <2> HIDE DEF x0, flag, spot
  <2>6. MovesOn(q, spot, x0, flag)
    BY <1>0, <2>2 DEF MovesOn, RunType, PlaneStates, x0
  <2>7. spot \in Places /\ plane[q].pc \in BootPlaces /\ flag \in {"none", "p0", "p1"}
    BY <1>0, <2>1, <2>4 DEF Places, BootPlaces
  <2> QED BY <2>1, <2>4, <2>5, <2>6, <2>7, BootKeeps
<1>3. CASE AskWidth(q)
  <2>1. /\ cur = q /\ plane[q].pc = "width" /\ plane[q].flag = q
        /\ UNCHANGED <<host, imm, shm, prev, heading, due, logs>>
    BY <1>0, <1>3 DEF AskWidth, At, BootInv, Knows
  <2>2. plane[q].pc \in BootPlaces /\ "main" \in Places /\ "width" \in Answers
    BY <2>1 DEF Places, BootPlaces, Answers
  <2>3. CASE q = "p0"
    <3>1. plane' = [plane EXCEPT ![q].pc = "main", ![q].x0 = "width"] /\ UNCHANGED <<cur, run>>
      BY <1>3, <2>1, <2>3 DEF AskWidth
    <3>2. MovesOn(q, "main", "width", plane[q].flag)
      BY <1>0, <3>1 DEF MovesOn, RunType, PlaneStates
    <3> QED BY <2>1, <2>2, <2>3, <3>1, <3>2, BootKeeps
  <2>4. CASE q = "p1"
    <3>1. PlaneExit("hvc", "config", "main")
      BY <1>3, <2>1, <2>4 DEF AskWidth
    <3> QED BY <2>1, <2>2, <2>4, <3>1, ExitKeeps
  <2> QED BY <1>0, <2>3, <2>4
<1>4. CASE Main(q)
  <2>1. /\ cur = q /\ plane[q].pc = "main" /\ plane[q].flag = q /\ plane[q].x0 = "width"
        /\ UNCHANGED <<cur, host, imm, run, shm, prev, heading, due, logs>>
    BY <1>0, <1>4 DEF Main, At, BootInv, Knows
  <2>2. plane[q].pc \in BootPlaces /\ "test" \in Places /\ "width" \in Answers
    BY <2>1 DEF Places, BootPlaces, Answers
  <2>3. plane' = [plane EXCEPT ![q].pc = "test"]
    BY <1>4, <2>1 DEF Main
  <2>4. MovesOn(q, "test", plane[q].x0, plane[q].flag)
    BY <1>0, <2>3 DEF MovesOn, RunType, PlaneStates
  <2> QED BY <1>0, <2>1, <2>2, <2>4, BootKeeps
<1> QED BY <1>1, <1>2, <1>3, <1>4

\* The test's function in a plane logs, or gives up the processor.
LEMMA TestKeeps ==
  ASSUME RunInv,
         \/ \E q \in Planes : TestLogs(q)
         \/ TestCallsHost("switch_to_host") \/ TestCallsHost("rhi")
         \/ val_realm_return_to_p0 \/ RunPlane
  PROVE  RunInv'
<1> USE ZenonT(30) DEF RunInv
<1>0. "p0" \in Planes /\ "p1" \in Planes /\ logs \in Nat /\ run \in RunObjects
  BY DEF Planes, RunType
<1>1. ASSUME NEW q \in Planes, TestLogs(q) PROVE RunInv'
  <2>1. /\ cur = q /\ plane[q].pc = "test" /\ run' = run /\ logs' \in Nat
        /\ UNCHANGED <<cur, host, imm, shm, heading, due>>
    <3>1. logs' = logs + 1
      BY <1>1 DEF TestLogs
    <3>2. logs' \in Nat
      BY <1>0, <3>1, SMTT(60)
    <3> QED BY <1>1, <3>2 DEF TestLogs, At
  <2>2. PICK verbosity \in {"error", "test"} : Log(q, verbosity, "test", logs, "test")
    BY <1>1 DEF TestLogs
  <2>3. q = "p0" => run.enter.pc \in {"boot", "test"} /\ Enterable(run.enter.pc, run.enter.x0)
    BY <2>1 DEF ExitInv
  <2> QED BY <1>0, <2>1, <2>2, <2>3, LogKeeps
<1>2. ASSUME NEW i \in {"switch_to_host", "rhi"}, TestCallsHost(i) PROVE RunInv'
  <2>1. /\ cur = "p0" /\ plane["p0"].pc = "test"
        /\ cur' = "host" /\ host' = "exit" /\ imm' # "print"
        /\ UNCHANGED <<plane, run, shm, prev, heading, due, logs>>
    BY <1>2 DEF TestCallsHost, At, HostCall
  <2>2. MovesTo("p0", "test")
    BY <1>0, <2>1 DEF MovesTo, RunType, PlaneStates
  <2> QED BY <2>1, <2>2, PlaneZeroKeeps
<1>3. CASE val_realm_return_to_p0
  <2>1. /\ cur = "p1" /\ plane["p1"].pc = "test" /\ PlaneExit("hvc", "p0_call", "test")
        /\ UNCHANGED <<host, imm, shm, prev, heading, due, logs>>
    BY <1>3 DEF val_realm_return_to_p0, At
  <2>2. plane["p1"].flag = "p1"
    BY <1>0, <2>1 DEF BootInv, Knows
  <2> QED BY <2>1, <2>2, ExitKeeps
<1>4. CASE RunPlane
  <2>1. /\ cur = "p0" /\ plane["p0"].pc = "test" /\ MovesTo("p0", "run")
        /\ UNCHANGED <<cur, host, imm, run, shm, prev, heading, due, logs>>
    BY <1>4 DEF RunPlane, At, MovesTo
  <2> QED BY <2>1, PlaneZeroKeeps
<1> QED BY <1>1, <1>2, <1>3, <1>4

\* The RMM refuses to enter plane 1, which plane 0 logs.
LEMMA RefusedKeeps ==
  ASSUME RunInv, PlaneEnter(TRUE)
  PROVE  RunInv'
<1> USE ZenonT(30) DEF RunInv
<1>1. /\ cur = "p0" /\ plane["p0"].pc = "run" /\ run' = run
      /\ Log("p0", "error", "plane entry failed", 0, "test")
      /\ UNCHANGED <<cur, host, imm, shm, heading, due, logs>>
  BY DEF PlaneEnter, At
<1>2. "p0" \in Planes /\ logs \in Nat /\ run \in RunObjects
  BY DEF Planes, RunType
<1>3. run.enter.pc \in {"boot", "test"} /\ Enterable(run.enter.pc, run.enter.x0)
  BY <1>1 DEF ExitInv
<1> QED BY <1>1, <1>2, <1>3, LogKeeps

\* Every step of the host and of the planes keeps the invariant.
LEMMA RunStep == RunInv /\ [RRNext]_allvars => RunInv'
<1> SUFFICES ASSUME RunInv, [RRNext]_allvars PROVE RunInv'
  OBVIOUS
<1>1. CASE HostStep
  BY <1>1, AfterExitKeeps, RhiKeeps DEF HostStep
<1>2. CASE HostLog \/ \E b \in BOOLEAN : RecEnter(b)
  BY <1>2, HostLogKeeps, RecEnterKeeps
<1>3. CASE RealmStep
  <2>1. ASSUME NEW q \in Planes,
               \/ WriteLine(q) \/ PrintLine(q)
               \/ CheckVersion(q) \/ AskWidth(q) \/ Main(q) \/ TestLogs(q)
               \/ \E b \in BOOLEAN : AskVersion(q, b)
        PROVE  RunInv'
    BY <2>1, WriteKeeps, PrintKeeps, ImageKeeps, TestKeeps
  <2>2. CASE \E b \in BOOLEAN : PlaneEnter(b)
    BY <2>2, EnterKeeps, RefusedKeeps
  <2> QED BY <1>3, <2>1, <2>2, TestKeeps, HandleKeeps DEF RealmStep
<1>4. CASE UNCHANGED allvars
  <2>1. UNCHANGED <<cur, host, imm, plane, run, shm, prev, heading, due, logs>>
    BY <1>4 DEF allvars, rvars
  <2>2. RunType' /\ ControlInv' /\ TodoInv' /\ DueInv' /\ HeadingInv'
    BY <2>1 DEF RunInv, RunType, ControlInv, TodoInv, Resumes, DueInv, Unprinted,
                            HeadingInv, HeadingNext
  <2> QED BY <2>1, <2>2, SameRegisters DEF RunInv
<1> QED BY <1>1, <1>2, <1>3, <1>4 DEF RRNext

\* EveryLineShown: at each print exit the shared location holds the one line that was logged
\* and not printed, under the heading of the realm, and none is left when the test has
\* control again, for any number of messages, runs of plane 1 and entries of the REC.
THEOREM LinesShown == RRSpec => []EveryLineShown
<1>1. RunInv => EveryLineShown
  <2> SUFFICES ASSUME RunInv PROVE EveryLineShown
    OBVIOUS
  <2> USE DEF RunInv
  <2>1. CASE host = "exit" /\ imm = "print"
    <3>1. due = <<shm>> /\ shm \in RealmLines /\ cur = "host"
      BY <2>1 DEF DueInv, Unprinted, RunType, ControlInv
    <3>2. due # <<>> /\ ~HeadingNext
      BY <3>1, OneElement DEF HeadingNext, Planes
    <3>3. heading = "Realm" \/ due = <<Heading("Realm")>>
      BY <3>2 DEF HeadingInv
    <3>4. due = <<Heading("Realm")>> => shm = Heading("Realm")
      BY <3>1
    <3>5. Heading("Realm").verbosity = "always"
      BY DEF Heading, Line
    <3> QED BY <2>1, <3>1, <3>3, <3>4, <3>5 DEF EveryLineShown
  <2>2. CASE host = "test"
    <3>1. cur = "host" /\ ~Unprinted
      BY <2>2 DEF ControlInv, Unprinted
    <3> QED BY <2>2, <3>1 DEF EveryLineShown, DueInv
  <2> QED BY <2>1, <2>2 DEF EveryLineShown
<1> QED BY <1>1, RunInit, RunStep, PTL DEF RRSpec

\* PlaneKnown: a plane that is past its boot has the flag of its own number, and no image
\* stops but plane 0's when the RMM did not answer it, however exits, answers and resumes of
\* plane 1 follow each other.
THEOREM PlanesKnown == RRSpec => []PlaneKnown
<1>1. RunInv => PlaneKnown
  <2> SUFFICES ASSUME RunInv, NEW q \in Planes
               PROVE  /\ plane[q].flag \in {"none", q}
                      /\ plane[q].pc \in {"test", "write", "print"} => plane[q].flag = q
                      /\ plane[q].pc = "stopped" => q = "p0" /\ plane[q].x0 = "error"
    BY DEF PlaneKnown
  <2>1. q \in {"p0", "p1"}
    BY DEF Planes
  <2> QED BY <2>1 DEF RunInv, BootInv, Knows
<1> QED BY <1>1, RunInit, RunStep, PTL DEF RRSpec
============================================================================
