---------------------------- MODULE TestDispatch ----------------------------
(***************************************************************************)
(* The test dispatcher of the host (val_host_framework.c): it runs the     *)
(* tests of test_list one after the other, keeps its progress and the      *)
(* regression totals in non-volatile memory (NVM), and arms a watchdog     *)
(* around each test.  A test that hangs, or that resets the platform, is   *)
(* accounted for after the reset from what the NVM says.                   *)
(*                                                                         *)
(* One NVM access is one step.  The platform is reset only while the       *)
(* watchdog is armed: by the watchdog, or by the test itself.  RAM is lost *)
(* in a reset, the NVM is not.  The libraries that val_host_framework.c    *)
(* calls for the NVM, the watchdog and the report are not in the           *)
(* repository; they are modelled from their use.                           *)
(***************************************************************************)
EXTENDS Integers, FiniteSets, Sequences

CONSTANTS
  NumTests,    \* test_list[1 .. NumTests]; entries 0 and NumTests + 1 are NULL
  Unsupported, \* the tests of suites that the RMM does not support
  SuiteRange,  \* is the image built with SUITE_TEST_RANGE
  RangeMin,    \* test_list index of SUITE_TEST_RANGE_MIN, 0 when there is none
  RangeMax,    \* the same for SUITE_TEST_RANGE_MAX
  NvmMayFail   \* can an access to the NVM fail

Results == <<"PASS", "FAIL", "SKIP", "ERROR">>
Result == {Results[k] : k \in 1 .. 4}
Invalid == -1                    \* VAL_INVALID_TEST_NUM
Patterns == {"START", "END", "FAIL", "REBOOTING"}
total_tests == NumTests + 2

ASSUME TestsAssumption ==
  /\ NumTests \in Nat \ {0}
  /\ Unsupported \subseteq 1 .. NumTests
  /\ SuiteRange \in BOOLEAN /\ NvmMayFail \in BOOLEAN
  /\ RangeMin \in 0 .. NumTests /\ RangeMax \in 0 .. NumTests

VARIABLES
  cur, end, progress, totals,  \* the NVM: NVM_CUR_TEST_NUM_INDEX and so on
  wdog,        \* is the watchdog armed
  pc,          \* where val_host_test_dispatch is
  k,           \* the position in a series of NVM accesses
  i,           \* the test of the loop
  test_num_end,
  reboot_run,
  status,      \* the test's status, in the shared region
  regre_report,
  ran,         \* history: the tests whose function has been called
  flagged,     \* history: the tests that called val_host_set_reboot_flag
  counted      \* history: the tests in the totals, in order

nvm == <<cur, end, progress, totals>>
ram == <<k, i, test_num_end, reboot_run, status, regre_report>>
history == <<ran, flagged, counted>>
vars == <<nvm, wdog, pc, ram, history>>

Zero == [r \in Result |-> 0]

(* RAM after a reset.                                                      *)
RamInit ==
  /\ k = 1 /\ i = 0 /\ test_num_end = 0 /\ reboot_run = FALSE
  /\ status = "INVALID" /\ regre_report = Zero

(* Power on: the NVM holds no known progress, and anything else.           *)
Init ==
  /\ cur = 0 /\ end = 0 /\ progress = "GARBAGE" /\ totals \in [Result -> {0, 1}]
  /\ wdog = FALSE /\ pc = "boot" /\ RamInit
  /\ ran = {} /\ flagged = {} /\ counted = <<>>

Goto(p) == pc' = p
Rest == UNCHANGED <<wdog, history>>

(* An access to the NVM that fails ends the run: standby, or VAL_PANIC.    *)
NvmFails(p) == NvmMayFail /\ Goto(p) /\ UNCHANGED <<nvm, ram>> /\ Rest
-----------------------------------------------------------------------------
(* val_host_get_last_run_test_info: after a power-on the seven fields are  *)
(* written, one by one; after a reset they are read.                       *)
Boot ==
  /\ pc = "boot"
  /\ \/ NvmFails("standby")
     \/ /\ Goto(IF progress \in Patterns THEN "select" ELSE "clear")
        /\ UNCHANGED <<nvm, ram>> /\ Rest

ClearNvm ==
  /\ pc = "clear"
  /\ \/ NvmFails("standby")
     \/ /\ cur' = IF k = 1 THEN Invalid ELSE cur
        /\ end' = IF k = 2 THEN Invalid ELSE end
        /\ progress' = IF k = 3 THEN "END" ELSE progress
        /\ totals' = IF k > 3 THEN [totals EXCEPT ![Results[k - 3]] = 0] ELSE totals
        /\ k' = IF k = 7 THEN 1 ELSE k + 1
        /\ Goto(IF k = 7 THEN "select" ELSE "clear")
        /\ UNCHANGED <<i, test_num_end, reboot_run, status, regre_report>> /\ Rest

(* The range of a fresh run: all of test_list, or the two names of         *)
(* SUITE_TEST_RANGE in list order.                                         *)
First == IF ~SuiteRange THEN 1 ELSE IF RangeMin <= RangeMax THEN RangeMin ELSE RangeMax
Last == IF ~SuiteRange THEN total_tests
        ELSE IF RangeMin <= RangeMax THEN RangeMax ELSE RangeMin

(* Mutant: the test that was running is passed over.                       *)
SelectSkipsCrashed ==
  /\ pc = "select"
  /\ \/ /\ cur = Invalid
        /\ i' = First /\ test_num_end' = Last /\ end' = Last
        /\ UNCHANGED <<cur, progress, totals, reboot_run>>
     \/ /\ cur # Invalid
        /\ i' = cur + 1 /\ test_num_end' = end /\ reboot_run' = FALSE
        /\ UNCHANGED nvm
  /\ Goto("loop")
  /\ UNCHANGED <<k, status, regre_report>> /\ Rest

(* A fresh run writes the end of its range; a run after a reset goes on    *)
(* from the NVM.                                                           *)
Select ==
  /\ pc = "select"
  /\ \/ cur = Invalid /\ NvmFails("standby")
     \/ /\ cur = Invalid
        /\ i' = First /\ test_num_end' = Last /\ end' = Last
        /\ UNCHANGED <<cur, progress, totals, reboot_run>>
        /\ Goto("loop")
     \/ /\ cur # Invalid
        /\ i' = cur /\ test_num_end' = end /\ reboot_run' = TRUE
        /\ UNCHANGED nvm
        /\ Goto("loop")
  /\ UNCHANGED <<k, status, regre_report>> /\ Rest
-----------------------------------------------------------------------------
HasFn(t) == t \in 1 .. NumTests

(* val_handle_reboot_result: was the reset expected?                       *)
handle_reboot_result(p) == IF p = "REBOOTING" THEN "PASS" ELSE "ERROR"

(* The head of the loop over test_list.                                    *)
Loop ==
  /\ pc = "loop"
  /\ \/ (i > test_num_end \/ ~HasFn(i)) /\ Goto("standby") /\ UNCHANGED ram
     \/ /\ i <= test_num_end /\ i \in Unsupported
        /\ i' = i + 1
        /\ UNCHANGED <<pc, k, test_num_end, reboot_run, status, regre_report>>
     \/ /\ i <= test_num_end /\ HasFn(i) /\ i \notin Unsupported /\ reboot_run
        /\ status' = handle_reboot_result(progress)
        /\ reboot_run' = FALSE
        /\ Goto("report")
        /\ UNCHANGED <<k, i, test_num_end, regre_report>>
     \/ /\ i <= test_num_end /\ HasFn(i) /\ i \notin Unsupported /\ ~reboot_run
        /\ Goto("current") /\ UNCHANGED ram
  /\ UNCHANGED nvm /\ Rest

WriteCurrent ==
  /\ pc = "current"
  /\ \/ NvmFails("standby")
     \/ /\ cur' = i
        /\ Goto("init")
        /\ UNCHANGED <<end, progress, totals, ram>> /\ Rest

(* Mutant: the progress is not written.                                    *)
TestInitNoStart ==
  /\ pc = "init"
  /\ status' = "INVALID"
  /\ Goto("enable")
  /\ UNCHANGED <<nvm, k, i, test_num_end, reboot_run, regre_report>> /\ Rest

(* val_host_test_init: TEST_START, then the watchdog, then the tracker and *)
(* the allocator are reset.                                                *)
TestInit ==
  /\ pc = "init"
  /\ \/ NvmFails("panic")
     \/ /\ progress' = "START"
        /\ status' = "INVALID"
        /\ Goto("enable")
        /\ UNCHANGED <<cur, end, totals, k, i, test_num_end, reboot_run, regre_report>>
        /\ Rest

(* Mutant: the watchdog is not armed.                                      *)
WatchdogEnableNot ==
  /\ pc = "enable"
  /\ ran' = ran \cup {i}
  /\ Goto("test")
  /\ UNCHANGED <<nvm, ram, wdog, flagged, counted>>

WatchdogEnable ==
  /\ pc = "enable"
  /\ \/ NvmFails("panic")
     \/ /\ wdog' = TRUE
        /\ ran' = ran \cup {i}
        /\ Goto("test")
        /\ UNCHANGED <<nvm, ram, flagged, counted>>

(* The test's function: it may set the reboot flag, hang, or return with a *)
(* status.                                                                 *)
set_reboot_flag ==
  /\ pc = "test"
  /\ \/ NvmFails("panic")
     \/ /\ progress' = "REBOOTING"
        /\ flagged' = flagged \cup {i}
        /\ UNCHANGED <<cur, end, totals, pc, ram, wdog, ran, counted>>

TestHangs ==
  /\ pc = "test" /\ Goto("hang") /\ UNCHANGED <<nvm, ram>> /\ Rest

TestReturns ==
  /\ pc = "test"
  /\ status' \in Result
  /\ Goto("exit")
  /\ UNCHANGED <<nvm, k, i, test_num_end, reboot_run, regre_report>> /\ Rest

(* val_host_test_exit: the postamble may turn the status into FAIL, then   *)
(* the watchdog is disarmed, then TEST_END is written.                     *)
PostambleRuns ==
  /\ pc = "exit"
  /\ status' \in {status, "FAIL"}
  /\ Goto("disable")
  /\ UNCHANGED <<nvm, k, i, test_num_end, reboot_run, regre_report>> /\ Rest

WatchdogDisable ==
  /\ pc = "disable"
  /\ \/ NvmFails("panic")
     \/ /\ wdog' = FALSE
        /\ Goto("ended")
        /\ UNCHANGED <<nvm, ram, history>>

WriteEnd ==
  /\ pc = "ended"
  /\ \/ NvmFails("panic")
     \/ /\ progress' = "END"
        /\ Goto("report")
        /\ UNCHANGED <<cur, end, totals, ram>> /\ Rest

(* Mutant: the totals are kept in RAM.                                     *)
ReadTotalsFromRam ==
  /\ pc = "report"
  /\ regre_report' = [regre_report EXCEPT ![status] = @ + 1]
  /\ Goto("totals")
  /\ UNCHANGED <<nvm, k, i, test_num_end, reboot_run, status>> /\ Rest

(* The totals are read, the test's result added, and written back.         *)
ReadTotals ==
  /\ pc = "report"
  /\ \/ NvmFails("standby")
     \/ /\ regre_report' = [totals EXCEPT ![status] = @ + 1]
        /\ Goto("totals")
        /\ UNCHANGED <<nvm, k, i, test_num_end, reboot_run, status>> /\ Rest

WriteTotals ==
  /\ pc = "totals"
  /\ \/ NvmFails("standby")
     \/ /\ totals' = [totals EXCEPT ![Results[k]] = regre_report[Results[k]]]
        /\ counted' = IF Results[k] = status THEN Append(counted, i) ELSE counted
        /\ k' = IF k = 4 THEN 1 ELSE k + 1
        /\ i' = IF k = 4 THEN i + 1 ELSE i
        /\ Goto(IF k = 4 THEN "loop" ELSE "totals")
        /\ UNCHANGED <<cur, end, progress, test_num_end, reboot_run, status,
                       regre_report, wdog, ran, flagged>>

(* The watchdog bites, or the test resets the platform.                    *)
Reset ==
  /\ wdog
  /\ wdog' = FALSE
  /\ pc' = "boot"
  /\ k' = 1 /\ i' = 0 /\ test_num_end' = 0 /\ reboot_run' = FALSE
  /\ status' = "INVALID" /\ regre_report' = Zero
  /\ UNCHANGED <<nvm, history>>

Dispatch ==
  \/ Boot \/ ClearNvm \/ Select \/ Loop \/ WriteCurrent \/ TestInit
  \/ WatchdogEnable \/ PostambleRuns \/ WatchdogDisable \/ WriteEnd
  \/ ReadTotals \/ WriteTotals

(* The host spins: in standby, after VAL_PANIC, or in a test that hangs.   *)
Stopped == pc \in {"standby", "panic", "hang"} /\ UNCHANGED vars

Next ==
  \/ Dispatch \/ set_reboot_flag \/ TestHangs \/ TestReturns \/ Reset \/ Stopped

(* The dispatcher's code runs on; an armed watchdog bites in the end.      *)
Spec == Init /\ [][Next]_vars /\ WF_vars(Dispatch) /\ WF_vars(Reset)
-----------------------------------------------------------------------------
PCs == {"boot", "clear", "select", "loop", "current", "init", "enable", "test",
        "hang", "exit", "disable", "ended", "report", "totals", "standby", "panic"}

TypeOK ==
  /\ cur \in Invalid .. NumTests
  /\ end \in Invalid .. total_tests
  /\ progress \in Patterns \cup {"GARBAGE"}
  /\ totals \in [Result -> Nat] /\ regre_report \in [Result -> Nat]
  /\ wdog \in BOOLEAN /\ reboot_run \in BOOLEAN
  /\ pc \in PCs /\ k \in 1 .. 7
  /\ i \in 0 .. total_tests /\ test_num_end \in 0 .. total_tests
  /\ status \in Result \cup {"INVALID"}
  /\ ran \subseteq 1 .. NumTests /\ flagged \subseteq ran
  /\ counted \in Seq(1 .. NumTests)

Accounted == {counted[a] : a \in DOMAIN counted}

(* The tests a run is to execute.  Entry 0 of test_list, where the range   *)
(* starts when a name is unknown, has no function and ends the loop.       *)
Selected ==
  {t \in First .. Last : First # 0 /\ t \in 1 .. NumTests \ Unsupported}

(* The tests are accounted for in the order of the list, none twice and    *)
(* none left out, across any number of resets.                             *)
CountedInOrder ==
  /\ \A a, b \in DOMAIN counted : a < b => counted[a] < counted[b]
  /\ Accounted \subseteq Selected
  /\ \A t \in Selected, c \in Accounted : t < c => t \in Accounted

Running == {"loop", "current", "init", "enable", "test", "hang", "exit",
            "disable", "ended", "report", "totals"}
Sum(f) == f["PASS"] + f["FAIL"] + f["SKIP"] + f["ERROR"]

(* While tests are run, the totals in the NVM add up to the tests          *)
(* accounted for, even between the four writes that update them.           *)
TotalsExact == pc \in Running => Sum(totals) = Len(counted)

(* After a reset the NVM names the test that was running, which has not    *)
(* been accounted for, and says REBOOTING exactly when that test asked for *)
(* the reset.                                                              *)
ResetBlamesRunningTest ==
  pc = "boot" /\ progress \in Patterns =>
    /\ cur \in ran \ Accounted
    /\ progress = IF cur \in flagged THEN "REBOOTING" ELSE "START"

(* No test function is called a second time, not even after a reset.       *)
NeverRerun == pc \in {"current", "init", "enable"} => i \notin ran

(* The loop, whose bound is inclusive, reads only entries of test_list.    *)
InBounds == pc = "loop" /\ i <= test_num_end => i \in 0 .. total_tests - 1

(* The loop is left only when every selected test is accounted for,        *)
(* whichever tests have hung, reset the platform or returned before.       *)
AllAccounted == [][pc = "loop" /\ pc' = "standby" => Accounted = Selected]_vars

(* The dispatcher stops, whatever fails.                                   *)
Terminates == <>[](pc \in {"standby", "panic"})
=============================================================================
