------------------------------ MODULE RealmRun ------------------------------
(***************************************************************************)
(* A test's realm runs: the host enters its REC, the image boots in plane  *)
(* 0, which may run the image of plane 1, and both get the host's services *)
(* by host calls.  A realm cannot print; LOG leaves each line at one place *)
(* of the shared region and calls the host, directly from plane 0, through *)
(* plane 0 from plane 1.  val_host_rmi_rec_enter prints the line and goes  *)
(* back; any other host call ends it, and the test serves the call.  RHI   *)
(* calls (RhiSession) are served this way.                                 *)
(*                                                                         *)
(* One of the host, plane 0 and plane 1 executes at a time.  A plane that  *)
(* leaves is resumed where the registers in the plane run object say.      *)
(***************************************************************************)
EXTENDS RhiSession, Sequences

CONSTANTS MaxLogs,    \* bound: [kind of test -> messages it logs]
          MaxRuns     \* bound: times a test runs plane 1

Planes == {"p0", "p1"}

VARIABLES test,       \* what the test uses: "rhi" or "planes"
          cur,        \* who executes
          host,       \* where the host is: in the test, in rec_enter, after an exit
          imm,        \* run->exit.imm of the last host call
          plane,      \* [plane -> pc, x0, lines left to log, pc after them, plane flag]
          run,        \* the plane run object: enter and exit
          shm,        \* the line at the printf location of the shared region
          prev,       \* the world that logged last, at PRINT_OFFSET
          heading,    \* the heading last printed
          due,        \* history: lines logged and not printed yet
          logs, runs

rvars == <<test, cur, host, imm, plane, run, shm, prev, heading, due, logs, runs>>
allvars == <<vars, rvars>>

\* Lines are told apart by their text and, those of tests, by a number.
Line(verbosity, text, n) == [verbosity |-> verbosity, text |-> text, n |-> n]
Heading(w) == Line("always", w, 0)
NoLine == Line("none", "none", 0)

(* ------------------------------------------------------------------ logging *)

\* Lines LOG prints for one message: the heading when another world logged last, and a
\* second line for an error.
Lines(w, verbosity, text, n) ==
    (IF prev # w THEN <<Heading(w)>> ELSE <<>>)
    \o <<Line(verbosity, text, n)>>
    \o (IF verbosity = "error" THEN <<Line("error", "check failed", n)>> ELSE <<>>)

\* LOG in plane q, which goes on at k
Log(q, verbosity, text, n, k) ==
    /\ plane' = [plane EXCEPT ![q].todo = Lines("Realm", verbosity, text, n), ![q].pc = "write",
                              ![q].k = k]
    /\ prev' = "Realm"

\* LOG in the host prints at once.
HostLog ==
    /\ cur = "host" /\ host = "test" /\ logs < MaxLogs[test]
    /\ logs' = logs + 1
    /\ heading' = IF prev # "Host" THEN "Host" ELSE heading
    /\ prev' = "Host"
    /\ UNCHANGED <<vars, test, cur, host, imm, plane, run, shm, due, runs>>

(* ----------------------------------------------------------------- the host *)

\* External: plane 0 of the REC goes on after a host call.
Resume == /\ cur' = "p0" /\ host' = "entered"

\* RMI_REC_ENTER, which the RMM may refuse
RecEnter(refused) ==
    /\ cur = "host" /\ host = "test" /\ imm # "rhi"
    /\ IF refused THEN UNCHANGED <<cur, host>> ELSE Resume
    /\ UNCHANGED <<vars, test, imm, plane, run, shm, prev, heading, due, logs, runs>>

\* The line at the shared location, whatever it is, is printed.
val_host_realm_printf_msg_service ==
    /\ heading' = IF shm.verbosity = "always" THEN shm.text ELSE heading
    /\ due' = IF due # <<>> THEN Tail(due) ELSE due

\* An exit to print is served inside val_host_rmi_rec_enter, any other ends it.
AfterExit ==
    /\ cur = "host" /\ host = "exit"
    /\ IF imm = "print" THEN Resume /\ val_host_realm_printf_msg_service
       ELSE host' = "test" /\ UNCHANGED <<cur, heading, due>>
    /\ UNCHANGED <<vars, test, imm, plane, run, shm, prev, logs, runs>>

\* The test serves an RHI call before it enters the REC again.
val_host_rhi_dispatch ==
    /\ cur = "host" /\ host = "test" /\ imm = "rhi"
    /\ Next
    /\ imm' = "none"
    /\ UNCHANGED <<test, cur, host, plane, run, shm, prev, heading, due, logs, runs>>

(* ----------------------------------------------------------- calls of a plane *)

\* RSI_HOST_CALL from plane 0
HostCall(i) == /\ imm' = i /\ host' = "exit" /\ cur' = "host"

\* A trapped call of plane 1 with x0 ends RSI_PLANE_ENTER; it resumes at k.
PlaneExit(ec, x0, k) ==
    /\ run' = [run EXCEPT !.exit = [ec |-> ec, x0 |-> x0, pc |-> k]]
    /\ plane' = [plane EXCEPT !["p0"].pc = "exited"]
    /\ cur' = "p0"

At(q, pc) == cur = q /\ plane[q].pc = pc

\* val_realm_printf: the line is written, ...
WriteLine(q) ==
    /\ At(q, "write")
    /\ \/ /\ plane[q].todo # <<>>
          /\ shm' = Head(plane[q].todo)
          /\ due' = Append(due, shm')
          /\ plane' = [plane EXCEPT ![q].pc = "print", ![q].todo = Tail(@)]
       \/ /\ plane[q].todo = <<>>
          /\ plane' = [plane EXCEPT ![q].pc = plane[q].k]
          /\ UNCHANGED <<shm, due>>
    /\ UNCHANGED <<vars, test, cur, host, imm, run, prev, heading, logs, runs>>

\* ... then the host is called, by plane 1 through plane 0.
PrintLine(q) ==
    /\ At(q, "print")
    /\ IF plane[q].flag = "p0"
       THEN /\ HostCall("print")
            /\ plane' = [plane EXCEPT ![q].pc = "write"]
            /\ UNCHANGED run
       ELSE PlaneExit("hvc", "print", "write") /\ UNCHANGED <<imm, host>>
    /\ UNCHANGED <<vars, test, shm, prev, heading, due, logs, runs>>

(* ------------------------------------------------------------ the realm image *)

\* val_realm_init: plane 0 gets an answer to RSI_VERSION, plane 1's call is trapped.
AskVersion(q, answered) ==
    /\ At(q, "boot")
    /\ IF q = "p0"
       THEN /\ plane' = [plane EXCEPT ![q].pc = "version",
                                      ![q].x0 = IF answered THEN "success" ELSE "error"]
            /\ UNCHANGED <<cur, run>>
       ELSE answered /\ PlaneExit("smc", "version", "version")
    /\ UNCHANGED <<vars, test, host, imm, shm, prev, heading, due, logs, runs>>

CheckVersion(q) ==
    /\ At(q, "version")
    /\ LET x0 == plane[q].x0
       IN plane' = [plane EXCEPT
             ![q].flag = IF x0 = "success" THEN "p0"
                         ELSE IF x0 = "not_supported" THEN "p1" ELSE @,
             ![q].pc = IF x0 \in {"success", "not_supported"} THEN "width" ELSE "stopped"]
    /\ UNCHANGED <<vars, test, cur, host, imm, run, shm, prev, heading, due, logs, runs>>

\* val_realm_get_ipa_width
AskWidth(q) ==
    /\ At(q, "width")
    /\ IF plane[q].flag = "p0"
       THEN plane' = [plane EXCEPT ![q].pc = "main", ![q].x0 = "width"] /\ UNCHANGED <<cur, run>>
       ELSE PlaneExit("hvc", "config", "main")
    /\ UNCHANGED <<vars, test, host, imm, shm, prev, heading, due, logs, runs>>

\* The rest of val_realm_main: tables, MMU, interrupts, and the test's function.  It
\* needs the width: the shared region lies in the upper half of the address space.
Main(q) ==
    /\ At(q, "main")
    /\ plane' = [plane EXCEPT ![q].pc = IF plane[q].x0 = "width" THEN "test" ELSE "stopped"]
    /\ UNCHANGED <<vars, test, cur, host, imm, run, shm, prev, heading, due, logs, runs>>

TestLogs(q) ==
    /\ At(q, "test") /\ logs < MaxLogs[test]
    /\ logs' = logs + 1
    /\ \E verbosity \in {"error", "test"} : Log(q, verbosity, "test", logs, "test")
    /\ UNCHANGED <<vars, test, cur, host, imm, run, shm, heading, due, runs>>

\* val_realm_return_to_host, or val_realm_rsi_rhi_host
TestCallsHost(i) ==
    /\ At("p0", "test")
    /\ HostCall(i)
    /\ UNCHANGED <<vars, test, plane, run, shm, prev, heading, due, logs, runs>>

val_realm_return_to_p0 ==
    /\ At("p1", "test")
    /\ PlaneExit("hvc", "p0_call", "test")
    /\ UNCHANGED <<vars, test, host, imm, shm, prev, heading, due, logs, runs>>

(* ------------------------------------------------------ plane 0 runs plane 1 *)

RunPlane ==
    /\ At("p0", "test") /\ test = "planes" /\ runs < MaxRuns
    /\ runs' = runs + 1
    /\ plane' = [plane EXCEPT !["p0"].pc = "run"]
    /\ UNCHANGED <<vars, test, cur, host, imm, run, shm, prev, heading, due, logs>>

\* RSI_PLANE_ENTER: plane 1 starts with the registers of the run object.  The RMM
\* refuses a plane number or an address, which are the same each time round the loop.
PlaneEnter(refused) ==
    /\ At("p0", "run") \/ (At("p0", "enter") /\ ~refused)
    /\ IF refused
       THEN Log("p0", "error", "plane entry failed", 0, "test") /\ UNCHANGED cur
       ELSE /\ plane' = [plane EXCEPT !["p1"].pc = run.enter.pc, !["p1"].x0 = run.enter.x0]
            /\ cur' = "p1"
            /\ UNCHANGED prev
    /\ UNCHANGED <<vars, test, host, imm, run, shm, heading, due, logs, runs>>

\* The registers are not copied.
PreserveNothing(r) == r

\* All registers and the place where the plane goes on are copied; x0 stands for the
\* registers.
val_realm_preserve_plane_context(r) ==
    [r EXCEPT !.enter = [pc |-> r.exit.pc, x0 |-> r.exit.x0]]

\* The answer of plane 0 is written first and then overwritten.
AnswerFirst(r, x0) == val_realm_preserve_plane_context([r EXCEPT !.enter.x0 = x0])

Answered(r, x0) == [val_realm_preserve_plane_context(r) EXCEPT !.enter.x0 = x0]

\* Plane 0 logs a line of its own, over plane 1's.
RelayWithLog ==
    /\ run' = val_realm_preserve_plane_context(run)
    /\ Log("p0", "debug", "realm_print", 0, "enter")
    /\ UNCHANGED <<cur, host, imm>>

\* Plane 0 calls the host for plane 1's line.
hvc_handle_realm_print ==
    /\ run' = val_realm_preserve_plane_context(run)
    /\ HostCall("print")
    /\ plane' = [plane EXCEPT !["p0"].pc = "enter"]
    /\ UNCHANGED prev

hvc_handle_realm_config ==
    /\ run' = Answered(run, "width")
    /\ Log("p0", "debug", "realm_config", 0, "enter")
    /\ UNCHANGED <<cur, host, imm>>

\* To plane 1 with the answer, or back to the test
To(pc) == /\ plane' = [plane EXCEPT !["p0"].pc = pc]
          /\ UNCHANGED <<cur, host, imm, prev>>

\* The loop of val_realm_run_plane after an exit
val_realm_plane_handle_exception ==
    /\ At("p0", "exited")
    /\ \/ run.exit.ec = "smc" /\ run' = Answered(run, "not_supported") /\ To("enter")
       \/ run.exit.ec = "hvc" /\ run.exit.x0 = "config" /\ hvc_handle_realm_config
       \/ run.exit.ec = "hvc" /\ run.exit.x0 = "print" /\ hvc_handle_realm_print
       \/ /\ run.exit.ec = "hvc" /\ run.exit.x0 = "p0_call"
          /\ run' = val_realm_preserve_plane_context(run) /\ To("test")
    /\ UNCHANGED <<vars, test, shm, heading, due, logs, runs>>

(* --------------------------------------------------------------- the system *)

RRInit ==
    /\ Init
    /\ test \in {"rhi", "planes"}
    /\ cur = "host" /\ host = "test" /\ imm = "none"
    /\ plane = [q \in Planes |-> [pc |-> "boot", x0 |-> "none", todo |-> <<>>, k |-> "boot",
                                  flag |-> "none"]]
    /\ run = [enter |-> [pc |-> "boot", x0 |-> "none"],
              exit |-> [ec |-> "none", x0 |-> "none", pc |-> "boot"]]
    /\ shm = NoLine /\ prev = "none" /\ heading = "none" /\ due = <<>>
    /\ logs = 0 /\ runs = 0

HostStep == AfterExit \/ val_host_rhi_dispatch

RealmStep ==
    \/ \E q \in Planes : \/ WriteLine(q) \/ PrintLine(q)
                         \/ CheckVersion(q) \/ AskWidth(q) \/ Main(q) \/ TestLogs(q)
                         \/ \E b \in BOOLEAN : AskVersion(q, b)
    \/ TestCallsHost("switch_to_host")
    \/ test = "rhi" /\ TestCallsHost("rhi")
    \/ val_realm_return_to_p0 \/ RunPlane \/ \E b \in BOOLEAN : PlaneEnter(b)
    \/ val_realm_plane_handle_exception

RRNext == HostStep \/ RealmStep \/ HostLog \/ \E b \in BOOLEAN : RecEnter(b)

\* The processor goes on in the realm it is in and in the code after an exit.
RRSpec == RRInit /\ [][RRNext]_allvars /\ WF_allvars(HostStep) /\ WF_allvars(RealmStep)

(* --------------------------------------------------------------- properties *)

\* Every line a plane logs is printed, once, in order, as it was logged and under the
\* heading of its world: at each print exit the shared location holds the one line not
\* printed yet, and none is left when the test has control again.  Plane 1's lines
\* pass plane 0, which logs too, and all use the one location.
EveryLineShown ==
    /\ host = "exit" /\ imm = "print" =>
          /\ due = <<shm>>
          /\ shm.verbosity = "always" \/ heading = "Realm"
    /\ host = "test" => due = <<>>

\* A plane knows which plane it is once it has booted, and an image stops only when
\* the RMM did not answer plane 0: plane 1 learns both its number and the width of the
\* address space from what plane 0 puts into its registers.
PlaneKnown ==
    \A q \in Planes : /\ plane[q].flag \in {"none", q}
                      /\ plane[q].pc \in {"test", "write", "print"} => plane[q].flag = q
                      /\ plane[q].pc = "stopped" => q = "p0" /\ plane[q].x0 = "error"

\* The host gets the processor back from every entry, unless the image stopped in plane
\* 0: no plane is run again and again from the same place.
RunReturns == host # "test" ~> (host = "test" \/ plane["p0"].pc = "stopped")
=============================================================================
