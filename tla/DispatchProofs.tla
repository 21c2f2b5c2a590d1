--------------------------- MODULE DispatchProofs ---------------------------
(***************************************************************************)
(* Proofs about TestDispatch, for any number of tests, any range and any   *)
(* set of unsupported tests, and about Irq, for any CPUs, interrupts and   *)
(* numbers of calls.                                                       *)
(***************************************************************************)
EXTENDS TestDispatch, Irq, TLAPS

(* Zenon unless a step names another prover.                               *)
USE ZenonT(60)

(* Every selected test below p has been accounted for, and no other.       *)
At(p) ==
  /\ \A t \in Accounted : t < p
  /\ \A t \in Selected : t < p => t \in Accounted

(* The totals are exact.                                                   *)
Exact == Sum(totals) = Len(counted)

(* Test p has been called last, is not accounted for yet, and the NVM      *)
(* describes it.                                                           *)
Interrupted(p) ==
  /\ p \in Selected /\ At(p)
  /\ p \in ran /\ \A t \in ran : t <= p
  /\ progress = IF p \in flagged THEN "REBOOTING" ELSE "START"
  /\ end = Last /\ Exact

(* A power-on that has not come to the loop.                               *)
Fresh ==
  \/ pc = "boot" /\ progress \notin Patterns
  \/ pc = "clear"
  \/ pc = "select" /\ cur = Invalid

(* A reset may happen, or has happened and its test is not reported yet.   *)
Resuming ==
  \/ wdog
  \/ pc = "boot" /\ progress \in Patterns
  \/ pc = "select" /\ cur # Invalid
  \/ pc = "loop" /\ reboot_run

(* Has WriteTotals written the total that the test changes.                *)
Written == \E j \in 1 .. 4 : Results[j] = status /\ j < k

(* What the place in the code says of the rest of the control state.       *)
Control ==
  /\ pc = "totals" => k \in 1 .. 4
  /\ pc \notin {"clear", "totals", "standby"} => k = 1
  /\ wdog => pc \in {"test", "hang", "exit", "disable", "panic"}
  /\ pc \in {"test", "hang", "exit", "disable"} => wdog
  /\ wdog \/ pc \in Running \ {"loop", "current"} => cur = i
  /\ pc = "enable" => progress = "START"
  /\ pc \in {"exit", "disable", "ended", "report", "totals"} => status \in Result
  /\ reboot_run => pc \in {"loop", "standby"}

(* Before a fresh run nothing has been run, and ClearNvm clears the fields *)
(* in turn.                                                                *)
FreshStart ==
  /\ Fresh => counted = <<>> /\ ran = {}
  /\ pc = "clear" => /\ k > 1 => cur = Invalid
                     /\ \A j \in 1 .. 4 : j + 3 < k => totals[Results[j]] = 0
  /\ pc = "select" /\ cur = Invalid => \A j \in 1 .. 4 : totals[Results[j]] = 0

(* The NVM describes the test that a reset interrupts.                     *)
Resumes == Resuming => Interrupted(cur)

(* Where the loop is in the list.                                          *)
Position ==
  /\ pc = "loop" => i \in First .. NumTests + 1 /\ (First = 0 => i = 0)
  /\ pc = "loop" /\ reboot_run => i = cur
  /\ pc \in Running \ {"loop"} => i \in Selected
  /\ pc \in Running => test_num_end = Last /\ end = Last

(* The tests before the loop's are accounted for, and it goes upwards.     *)
Progress ==
  /\ pc \in Running \ {"totals"} => At(i)
  /\ pc = "totals" => IF Written THEN At(i + 1) ELSE At(i)
  /\ pc \in Running => \A t \in ran : t <= i
  /\ pc \in {"current", "init", "enable"} => \A t \in ran : t < i
  /\ pc = "loop" /\ ~reboot_run => \A t \in ran : t < i

(* The totals in the NVM, and the ones in RAM that will replace them.      *)
Totals ==
  /\ TotalsExact
  /\ pc = "totals" => \A j \in 1 .. 4 :
       regre_report[Results[j]] =
         totals[Results[j]] + (IF Results[j] = status /\ k <= j THEN 1 ELSE 0)

(* The inductive invariant.                                                *)
IInv ==
  /\ TypeOK /\ CountedInOrder
  /\ Control /\ FreshStart /\ Resumes /\ Position /\ Progress /\ Totals

(* The four results, and the range of the tests.                           *)
LEMMA Constants ==
  /\ Result = {"PASS", "FAIL", "SKIP", "ERROR"}
  /\ Results[1] = "PASS" /\ Results[2] = "FAIL" /\ Results[3] = "SKIP"
  /\ Results[4] = "ERROR"
  /\ \A j \in 1 .. 4 : Results[j] \in Result
  /\ NumTests \in Nat \ {0} /\ Unsupported \subseteq 1 .. NumTests
  /\ First \in 0 .. NumTests /\ Last \in 0 .. total_tests
  /\ total_tests = NumTests + 2
  /\ Selected \subseteq 1 .. NumTests
  /\ \A t \in 1 .. NumTests : 
       t \in Selected <=> First # 0 /\ First <= t /\ t <= Last /\ t \notin Unsupported
<1>1. NumTests \in Nat \ {0} /\ Unsupported \subseteq 1 .. NumTests
      /\ SuiteRange \in BOOLEAN
      /\ RangeMin \in 0 .. NumTests /\ RangeMax \in 0 .. NumTests
  BY TestsAssumption
<1>2. First \in 0 .. NumTests /\ Last \in 0 .. total_tests /\ total_tests = NumTests + 2
  BY <1>1, SMTT(60) DEF First, Last, total_tests
<1>3. Selected \subseteq 1 .. NumTests
  BY DEF Selected
<1>4. ASSUME NEW t \in 1 .. NumTests
      PROVE  t \in Selected <=> First # 0 /\ First <= t /\ t <= Last /\ t \notin Unsupported
  BY <1>1, <1>2, SMTT(60) DEF Selected
<1>7. Results[1] = "PASS" /\ Results[2] = "FAIL" /\ Results[3] = "SKIP"
      /\ Results[4] = "ERROR"
  BY DEF Results
<1>5. Result = {"PASS", "FAIL", "SKIP", "ERROR"}
  <2>2. \A j : j \in 1 .. 4 <=> j = 1 \/ j = 2 \/ j = 3 \/ j = 4
    BY SMTT(60)
  <2> QED BY <1>7, <2>2 DEF Result
<1>6. \A j \in 1 .. 4 : Results[j] \in Result
  BY DEF Result
<1> QED BY <1>1, <1>2, <1>3, <1>4, <1>5, <1>6, <1>7

(* A step that accounts for no test keeps what is said of those accounted. *)
LEMMA SameCounted ==
  ASSUME counted' = counted
  PROVE  /\ Accounted' = Accounted /\ Len(counted)' = Len(counted)
         /\ CountedInOrder => CountedInOrder'
         /\ \A p : At(p)' <=> At(p)
  BY DEF Accounted, CountedInOrder, At

(* The same for the totals.                                                *)
LEMMA SameTotals ==
  ASSUME counted' = counted, totals' = totals
  PROVE  Exact' <=> Exact
  BY DEF Exact

(* And for the test that is running.                                       *)
LEMMA SameInterrupted ==
  ASSUME UNCHANGED <<counted, totals, progress, end, ran, flagged>>
  PROVE  \A p : Interrupted(p)' <=> Interrupted(p)
  BY SameCounted, SameTotals DEF Interrupted

(* An access to the NVM that fails keeps the invariant.                    *)
LEMMA NvmFailsInv ==
  ASSUME IInv, NEW p,
         \/ /\ p = "standby"
            /\ pc \in {"boot", "clear", "select", "current", "report", "totals"}
         \/ p = "panic" /\ pc \in {"init", "enable", "test", "disable", "ended"},
         NvmFails(p)
  PROVE  IInv'
<1> USE DEF IInv
<1>c. UNCHANGED <<counted, totals, progress, end, ran, flagged, cur, wdog, k, i,
                  test_num_end, reboot_run, status, regre_report>>
  BY DEF NvmFails, Rest, nvm, ram, history
<1>s. CountedInOrder' /\ (\A q : Interrupted(q)' <=> Interrupted(q))
  BY <1>c, SameCounted, SameInterrupted
<1>p. pc' = p /\ p \in {"standby", "panic"}
  BY DEF NvmFails, Goto
<1>1. TypeOK'
  BY <1>c, <1>p DEF TypeOK, PCs
<1>2. Control'
  BY <1>c, <1>p DEF Control, Running
<1>3. FreshStart' /\ Position' /\ Progress' /\ Totals'
  BY <1>p DEF FreshStart, Fresh, Position, Progress, Totals, TotalsExact, Running
<1>4. Resumes'
  BY <1>c, <1>p, <1>s DEF Resumes, Resuming
<1> QED BY <1>s, <1>1, <1>2, <1>3, <1>4

(* Boot keeps the invariant.                                               *)
LEMMA BootInv == IInv /\ Boot => IInv'
<1>0. SUFFICES ASSUME IInv, Boot, ~NvmFails("standby") PROVE IInv'
  BY NvmFailsInv DEF Boot
<1> USE DEF IInv
<1>e. /\ pc = "boot" /\ pc' = (IF progress \in Patterns THEN "select" ELSE "clear")
      /\ UNCHANGED <<cur, end, progress, totals, wdog, k, i, test_num_end,
                     reboot_run, status, regre_report, ran, flagged, counted>>
  BY <1>0 DEF Boot, Goto, Rest, nvm, history, ram
<1>s. CountedInOrder' /\ Accounted' = Accounted /\ (\A p : At(p)' <=> At(p))
      /\ (Exact' <=> Exact)
  BY <1>0, <1>e, SameCounted, SameTotals
<1>i. \A p : Interrupted(p)' <=> Interrupted(p)
  BY <1>e, SameInterrupted
<1>p. k = 1 /\ (progress \in Patterns => cur \in 1 .. NumTests)
  BY <1>0, <1>e, Constants DEF Control, Resumes, Resuming, Interrupted
<1>1. TypeOK'
  BY <1>0, <1>e, <1>s, Constants DEF TypeOK, Control, Position, Running, Patterns,
       Invalid, PCs
<1>2. Control'
  BY <1>0, <1>e, <1>s, Constants DEF TypeOK, Control, Running
<1>3. FreshStart'
  BY <1>0, <1>e, <1>p, SMTT(60) DEF FreshStart, Fresh, Invalid
<1>4. Resumes'
  BY <1>0, <1>e, <1>s, <1>i, Constants DEF Resumes, Resuming, Control, TypeOK
<1>5. Position'
  BY <1>0, <1>e, <1>s, Constants DEF Position, Running, TypeOK, Control, Invalid
<1>6. Progress'
  BY <1>0, <1>e, <1>s, Constants DEF Progress, Running, TypeOK, Control
<1>7. Totals'
  BY <1>0, <1>e, <1>s, Constants DEF Totals, TotalsExact, Running, Control, Exact
<1> QED BY <1>s, <1>1, <1>2, <1>3, <1>4, <1>5, <1>6, <1>7

(* ClearNvm keeps the invariant: nothing has been run, and the fields are  *)
(* cleared one by one.                                                     *)
LEMMA ClearNvmInv == IInv /\ ClearNvm => IInv'
<1>0. SUFFICES ASSUME IInv, ClearNvm, ~NvmFails("standby") PROVE IInv'
  BY NvmFailsInv DEF ClearNvm
<1> USE DEF IInv
<1>e. /\ pc = "clear" /\ pc' = (IF k = 7 THEN "select" ELSE "clear")
      /\ k' = (IF k = 7 THEN 1 ELSE k + 1)
      /\ cur' = (IF k = 1 THEN Invalid ELSE cur)
      /\ end' = (IF k = 2 THEN Invalid ELSE end)
      /\ progress' = (IF k = 3 THEN "END" ELSE progress)
      /\ totals' = (IF k > 3 THEN [totals EXCEPT ![Results[k - 3]] = 0] ELSE totals)
      /\ UNCHANGED <<wdog, i, test_num_end, reboot_run, status, regre_report, ran,
                     flagged, counted>>
  BY <1>0 DEF ClearNvm, Goto, Rest, history
<1>s. CountedInOrder'
  BY <1>0, <1>e, SameCounted
<1>k. k \in 1 .. 7 /\ counted = <<>> /\ ran = {} /\ ~wdog /\ ~reboot_run
      /\ totals \in [Result -> Nat]
      /\ (k > 1 => cur = Invalid)
      /\ \A j \in 1 .. 4 : j + 3 < k => totals[Results[j]] = 0
  BY <1>0, <1>e DEF TypeOK, FreshStart, Fresh, Control
<1>c. k > 1 \/ k' = 2
  BY <1>0, <1>e, <1>k, SMTT(60)
<1>d. cur' = Invalid /\ (k = 7 => k' = 1) /\ (k # 7 => k' = k + 1)
  BY <1>0, <1>e, <1>k, SMTT(60)
<1>t. totals' \in [Result -> Nat]
  <2>1. k > 3 => Results[k - 3] \in Result
    BY <1>0, <1>k, Constants, SMTT(60)
  <2> QED BY <1>0, <1>e, <1>k, <2>1
<1>z. ASSUME NEW j \in 1 .. 4, j + 3 <= k PROVE totals'[Results[j]] = 0
  <2>1. k > 3 /\ k - 3 \in 1 .. 4 /\ Results[j] \in Result /\ Results[k - 3] \in Result
    BY <1>0, <1>k, <1>z, Constants, SMTT(60)
  <2>2. CASE j + 3 = k
    <3>1. j = k - 3
      BY <2>2, <1>k, SMTT(60)
    <3> QED BY <1>0, <1>e, <1>k, <2>1, <3>1
  <2>3. CASE j + 3 < k
    BY <1>0, <1>e, <1>k, <2>1, <2>3
  <2> QED BY <1>0, <1>k, <1>z, <2>2, <2>3, SMTT(60)
<1>1. TypeOK'
  <2>1. k' \in 1 .. 7 /\ Invalid \in Invalid .. NumTests
        /\ Invalid \in Invalid .. total_tests
    BY <1>0, <1>e, <1>k, Constants, SMTT(60) DEF Invalid
  <2> QED BY <1>0, <1>e, <1>d, <1>t, <2>1 DEF TypeOK, PCs, Patterns
<1>2. Control' /\ Resumes' /\ Position' /\ Progress' /\ Totals'
  <2>1. Control'
    BY <1>0, <1>e, <1>k DEF Control, Running
  <2>2. Resumes' /\ Position' /\ Progress' /\ Totals'
    BY <1>0, <1>e, <1>k, <1>d DEF Resumes, Resuming, Position, Progress, Totals,
         TotalsExact, Running
  <2> QED BY <2>1, <2>2
<1>3. FreshStart'
  <2>1. pc' = "clear" => \A j \in 1 .. 4 : j + 3 < k' => j + 3 <= k
    BY <1>0, <1>e, <1>k, SMTT(60)
  <2>2. pc' = "select" => \A j \in 1 .. 4 : j + 3 <= k
    BY <1>0, <1>e, <1>k, SMTT(60)
  <2>3. (Fresh => counted = <<>> /\ ran = {})'
    BY <1>0, <1>e, <1>k
  <2> QED BY <1>0, <1>d, <1>z, <2>1, <2>2, <2>3 DEF FreshStart
<1> QED BY <1>0, <1>s, <1>1, <1>2, <1>3

(* Select keeps the invariant: it starts a fresh run, or resumes one.      *)
LEMMA SelectInv == IInv /\ Select => IInv'
<1>0. SUFFICES ASSUME IInv, Select, ~NvmFails("standby") PROVE IInv'
  BY NvmFailsInv DEF Select
<1> USE DEF IInv
<1>e. /\ pc = "select" /\ pc' = "loop" /\ k = 1 /\ ~reboot_run /\ ~wdog
      /\ UNCHANGED <<cur, progress, totals, wdog, k, status, regre_report, ran,
                     flagged, counted>>
  BY <1>0 DEF Select, Goto, Rest, nvm, history, Control
<1>s. CountedInOrder' /\ Accounted' = Accounted /\ (\A p : At(p)' <=> At(p))
      /\ (Exact' <=> Exact)
  BY <1>0, <1>e, SameCounted, SameTotals
<1>1. CASE cur = Invalid
  <2>1. i' = First /\ test_num_end' = Last /\ end' = Last /\ reboot_run' = FALSE
    BY <1>0, <1>1, <1>e, SMTT(60) DEF Select
  <2>2. counted = <<>> /\ ran = {} /\ \A j \in 1 .. 4 : totals[Results[j]] = 0
    BY <1>0, <1>1, <1>e DEF FreshStart, Fresh
  <2>3. Accounted = {} /\ Len(counted) = 0
    BY <2>2, SMTT(60) DEF Accounted
  <2>4. TypeOK'
    <3>1. First \in 0 .. total_tests /\ Last \in 0 .. total_tests
          /\ Last \in Invalid .. total_tests
      BY Constants, SMTT(60) DEF Invalid
    <3> QED BY <1>0, <1>e, <2>1, <3>1 DEF TypeOK, PCs
  <2>5. Control' /\ FreshStart' /\ Resumes'
    BY <1>0, <1>e, <2>1 DEF Control, FreshStart, Fresh, Resumes, Resuming, Running
  <2>6. Position'
    <3>1. First \in First .. NumTests + 1
      BY Constants, SMTT(60)
    <3> QED BY <1>0, <1>e, <2>1, <3>1 DEF Position, Running
  <2>7. Progress'
    <3>1. At(First)
      BY <2>3, Constants, SMTT(60) DEF At, Selected
    <3> QED BY <1>0, <1>e, <1>s, <2>1, <2>2, <3>1 DEF Progress, Running
  <2>8. Totals'
    <3>1. Sum(totals) = 0
      <4>1. totals["PASS"] = 0 /\ totals["FAIL"] = 0 /\ totals["SKIP"] = 0
            /\ totals["ERROR"] = 0
        <5>1. 1 \in 1 .. 4 /\ 2 \in 1 .. 4 /\ 3 \in 1 .. 4 /\ 4 \in 1 .. 4
          BY SMTT(60)
        <5> QED BY <5>1, <2>2, Constants
      <4> QED BY <4>1, SMTT(60) DEF Sum
    <3> QED BY <1>0, <1>e, <2>3, <3>1 DEF Totals, TotalsExact
  <2> QED BY <1>0, <1>s, <2>4, <2>5, <2>6, <2>7, <2>8
<1>2. CASE cur # Invalid
  <2>1. Interrupted(cur)
    BY <1>0, <1>2, <1>e DEF Resumes, Resuming
  <2>2. i' = cur /\ test_num_end' = Last /\ end' = end /\ end = Last
        /\ reboot_run' = TRUE
    BY <1>0, <1>2, <1>e, <2>1 DEF Select, nvm, Interrupted
  <2>3. cur \in 1 .. NumTests /\ First # 0 /\ First <= cur
    BY <2>1, Constants DEF Interrupted
  <2>4. TypeOK'
    <3>1. cur \in 0 .. total_tests /\ Last \in 0 .. total_tests
      BY <2>3, Constants, SMTT(60)
    <3> QED BY <1>0, <1>e, <2>2, <3>1 DEF TypeOK, PCs
  <2>5. Control' /\ FreshStart'
    BY <1>0, <1>e, <2>2 DEF Control, FreshStart, Fresh, Running
  <2>6. Resumes'
    <3>1. Interrupted(cur)'
      BY <1>0, <1>e, <2>1, <2>2, SameInterrupted
    <3> QED BY <3>1 DEF Resumes
  <2>7. Position'
    <3>1. cur \in First .. NumTests + 1
      BY <2>3, Constants, SMTT(60)
    <3> QED BY <1>0, <1>e, <2>2, <2>3, <3>1 DEF Position, Running
  <2>8. Progress'
    BY <1>0, <1>e, <1>s, <2>1, <2>2 DEF Progress, Running, Interrupted
  <2>9. Totals'
    BY <1>0, <1>e, <1>s, <2>1 DEF Totals, TotalsExact, Interrupted, Exact
  <2> QED BY <1>0, <1>s, <2>4, <2>5, <2>6, <2>7, <2>8, <2>9
<1> QED BY <1>0, <1>1, <1>2

(* Loop keeps the invariant, at each of its four exits.                    *)
LEMMA LoopInv == IInv /\ Loop => IInv'
<1>0. SUFFICES ASSUME IInv, Loop PROVE IInv'
  OBVIOUS
<1> USE DEF IInv
<1>e. /\ pc = "loop" /\ k = 1 /\ ~wdog /\ At(i) /\ Exact
      /\ i \in First .. NumTests + 1 /\ (First = 0 => i = 0)
      /\ test_num_end = Last /\ end = Last /\ (\A t \in ran : t <= i)
      /\ UNCHANGED <<cur, end, progress, totals, wdog, k, test_num_end, regre_report,
                     ran, flagged, counted>>
  BY <1>0 DEF Loop, Rest, nvm, ram, history, Control, Progress, Position, Totals,
       TotalsExact, Exact, Running
<1>s. CountedInOrder' /\ Accounted' = Accounted /\ (\A p : At(p)' <=> At(p))
      /\ (Exact' <=> Exact)
  BY <1>0, <1>e, SameCounted, SameTotals
<1>i. (\A p : Interrupted(p)' <=> Interrupted(p)) /\ (reboot_run => Interrupted(i) /\ i = cur)
  BY <1>0, <1>e, SameInterrupted DEF Resumes, Resuming, Position
<1>x. Totals' \/ pc' = "totals"
  BY <1>0, <1>e, <1>s DEF Totals, TotalsExact, Exact
<1>1. CASE pc' = "standby" /\ UNCHANGED <<i, status, reboot_run>>
  <2>1. TypeOK' /\ Control' /\ FreshStart' /\ Resumes'
    BY <1>0, <1>1, <1>e DEF TypeOK, PCs, Control, FreshStart, Fresh, Resumes,
         Resuming, Running
  <2>2. Position' /\ Progress' /\ Totals'
    BY <1>0, <1>1, <1>x DEF Position, Progress, Running
  <2> QED BY <1>0, <1>s, <2>1, <2>2
<1>2. CASE i <= test_num_end /\ i \in Unsupported /\ pc' = "loop" /\ i' = i + 1
           /\ UNCHANGED <<status, reboot_run>>
  <2>1. i \in 1 .. NumTests /\ i \notin Selected /\ First # 0 /\ ~reboot_run
    <3>1. i \in 1 .. NumTests
      BY <1>0, <1>2, Constants
    <3>2. i \notin Selected
      BY <1>0, <1>2, <3>1, Constants
    <3>3. First # 0
      BY <1>0, <1>e, <3>1, SMTT(60)
    <3> QED BY <3>1, <3>2, <3>3, <1>i DEF Interrupted
  <2>2. TypeOK'
    <3>1. i + 1 \in 0 .. total_tests
      BY <2>1, Constants, SMTT(60)
    <3> QED BY <1>0, <1>2, <1>e, <3>1 DEF TypeOK
  <2>3. Control' /\ FreshStart' /\ Resumes'
    BY <1>0, <1>2, <1>e, <2>1 DEF Control, FreshStart, Fresh, Resumes, Resuming, Running
  <2>4. Position'
    <3>1. i + 1 \in First .. NumTests + 1
      BY <1>0, <1>e, <2>1, Constants, SMTT(60)
    <3> QED BY <1>0, <1>2, <1>e, <2>1, <3>1 DEF Position, Running
  <2>5. Progress'
    <3>1. Accounted \subseteq Nat /\ ran \subseteq Nat /\ Selected \subseteq Nat
      <4>1. Accounted \subseteq Selected
        BY <1>0 DEF CountedInOrder
      <4>2. Selected \subseteq Nat /\ ran \subseteq Nat
        BY <1>0, Constants, SMTT(60) DEF TypeOK
      <4> QED BY <4>1, <4>2
    <3>2. At(i + 1)
      <4>1. ASSUME NEW t \in Accounted PROVE t < i + 1
        BY <1>0, <1>e, <2>1, <3>1, SMTT(60) DEF At
      <4>2. ASSUME NEW t \in Selected, t < i + 1 PROVE t \in Accounted
        <5>1. t < i
          BY <4>2, <2>1, <3>1, SMTT(60)
        <5> QED BY <5>1, <1>e DEF At
      <4> QED BY <4>1, <4>2 DEF At
    <3>3. \A t \in ran : t < i + 1 /\ t <= i + 1
      BY <1>0, <1>e, <2>1, <3>1, SMTT(60)
    <3> QED BY <1>0, <1>2, <1>e, <1>s, <3>2, <3>3 DEF Progress, Running
  <2> QED BY <1>0, <1>2, <1>s, <1>x, <2>2, <2>3, <2>4, <2>5
<1>3. CASE /\ i <= test_num_end /\ i \in 1 .. NumTests /\ i \notin Unsupported
           /\ reboot_run /\ pc' = "report" /\ status' \in Result
           /\ reboot_run' = FALSE /\ i' = i
  <2>1. TypeOK'
    BY <1>0, <1>3, <1>e DEF TypeOK, PCs
  <2>2. Control' /\ FreshStart' /\ Resumes'
    BY <1>0, <1>3, <1>e, <1>i DEF Control, FreshStart, Fresh, Resumes, Resuming, Running
  <2>3. Position' /\ Progress'
    BY <1>0, <1>3, <1>e, <1>i, <1>s DEF Position, Progress, Running, Interrupted
  <2> QED BY <1>0, <1>3, <1>s, <1>x, <2>1, <2>2, <2>3
<1>4. CASE /\ i <= test_num_end /\ i \in 1 .. NumTests /\ i \notin Unsupported
           /\ ~reboot_run /\ pc' = "current" /\ UNCHANGED <<i, status, reboot_run>>
  <2>1. i \in Selected
    BY <1>0, <1>4, <1>e, Constants, SMTT(60)
  <2>2. TypeOK'
    BY <1>0, <1>4, <1>e DEF TypeOK, PCs
  <2>3. Control' /\ FreshStart' /\ Resumes'
    BY <1>0, <1>4, <1>e DEF Control, FreshStart, Fresh, Resumes, Resuming, Running
  <2>4. Position' /\ Progress'
    BY <1>0, <1>4, <1>e, <1>s, <2>1 DEF Position, Progress, Running
  <2> QED BY <1>0, <1>4, <1>s, <1>x, <2>2, <2>3, <2>4
<1> QED
  <2>1. handle_reboot_result(progress) \in Result
    BY Constants DEF handle_reboot_result
  <2> QED BY <1>0, <1>1, <1>2, <1>3, <1>4, <2>1 DEF Loop, Goto, HasFn, ram

(* WriteCurrent keeps the invariant.                                       *)
LEMMA WriteCurrentInv == IInv /\ WriteCurrent => IInv'
<1>0. SUFFICES ASSUME IInv, WriteCurrent, ~NvmFails("standby") PROVE IInv'
  BY NvmFailsInv DEF WriteCurrent
<1> USE DEF IInv
<1>e. /\ pc = "current" /\ pc' = "init" /\ cur' = i
      /\ UNCHANGED <<end, progress, totals, wdog, k, i, test_num_end, reboot_run,
                     status, regre_report, ran, flagged, counted>>
  BY <1>0 DEF WriteCurrent, Goto, Rest, nvm, history, ram
<1>s. CountedInOrder' /\ Accounted' = Accounted /\ (\A p : At(p)' <=> At(p))
      /\ (Exact' <=> Exact)
  BY <1>0, <1>e, SameCounted, SameTotals
<1>i. \A p : Interrupted(p)' <=> Interrupted(p)
  BY <1>e, SameInterrupted
<1>1. TypeOK'
  BY <1>0, <1>e, <1>s, Constants, SMTT(60) DEF TypeOK, Control, Position, Running, Patterns,
       Invalid, PCs
<1>2. Control'
  BY <1>0, <1>e, <1>s, Constants DEF TypeOK, Control, Running
<1>3. FreshStart'
  BY <1>0, <1>e, <1>s, Constants DEF FreshStart, Fresh, TypeOK, Patterns, Control,
       Invalid
<1>4. Resumes'
  BY <1>0, <1>e, <1>s, <1>i, Constants DEF Resumes, Resuming, Control, TypeOK
<1>5. Position'
  BY <1>0, <1>e, <1>s, Constants DEF Position, Running, TypeOK, Control, Invalid
<1>6. Progress'
  BY <1>0, <1>e, <1>s, Constants DEF Progress, Running, TypeOK, Control
<1>7. Totals'
  BY <1>0, <1>e, <1>s, Constants DEF Totals, TotalsExact, Running, Control, Exact
<1> QED BY <1>s, <1>1, <1>2, <1>3, <1>4, <1>5, <1>6, <1>7

(* TestInit keeps the invariant.                                           *)
LEMMA TestInitInv == IInv /\ TestInit => IInv'
<1>0. SUFFICES ASSUME IInv, TestInit, ~NvmFails("panic") PROVE IInv'
  BY NvmFailsInv DEF TestInit
<1> USE DEF IInv
<1>e. /\ pc = "init" /\ pc' = "enable" /\ progress' = "START" /\ status' = "INVALID"
      /\ UNCHANGED <<cur, end, totals, wdog, k, i, test_num_end, reboot_run,
                     regre_report, ran, flagged, counted>>
  BY <1>0 DEF TestInit, Goto, Rest, nvm, history, ram
<1>s. CountedInOrder' /\ Accounted' = Accounted /\ (\A p : At(p)' <=> At(p))
      /\ (Exact' <=> Exact)
  BY <1>0, <1>e, SameCounted, SameTotals
<1>1. TypeOK'
  BY <1>0, <1>e, <1>s, Constants DEF TypeOK, Control, Position, Running, Patterns,
       Invalid, PCs
<1>2. Control'
  BY <1>0, <1>e, <1>s, Constants DEF TypeOK, Control, Running
<1>3. FreshStart'
  BY <1>0, <1>e, <1>s, Constants DEF FreshStart, Fresh, TypeOK, Patterns, Control,
       Invalid
<1>4. Resumes'
  BY <1>0, <1>e, <1>s, Constants DEF Resumes, Resuming, Control, TypeOK
<1>5. Position'
  BY <1>0, <1>e, <1>s, Constants DEF Position, Running, TypeOK, Control, Invalid
<1>6. Progress'
  BY <1>0, <1>e, <1>s, Constants DEF Progress, Running, TypeOK, Control
<1>7. Totals'
  BY <1>0, <1>e, <1>s, Constants DEF Totals, TotalsExact, Running, Control, Exact
<1> QED BY <1>s, <1>1, <1>2, <1>3, <1>4, <1>5, <1>6, <1>7

(* WatchdogEnable keeps the invariant.                                     *)
LEMMA WatchdogEnableInv == IInv /\ WatchdogEnable => IInv'
<1>0. SUFFICES ASSUME IInv, WatchdogEnable, ~NvmFails("panic") PROVE IInv'
  BY NvmFailsInv DEF WatchdogEnable
<1> USE DEF IInv
<1>e. /\ pc = "enable" /\ pc' = "test" /\ wdog' = TRUE /\ ran' = ran \cup {i}
      /\ UNCHANGED <<cur, end, progress, totals, k, i, test_num_end, reboot_run,
                     status, regre_report, flagged, counted>>
  BY <1>0 DEF WatchdogEnable, Goto, Rest, nvm, history, ram
<1>s. CountedInOrder' /\ Accounted' = Accounted /\ (\A p : At(p)' <=> At(p))
      /\ (Exact' <=> Exact)
  BY <1>0, <1>e, SameCounted, SameTotals
<1>p. cur = i /\ progress = "START" /\ i \in Selected /\ i \in Nat /\ end = Last
      /\ Exact /\ At(i) /\ \A t \in ran : t < i
  <2>1. cur = i /\ progress = "START" /\ i \in Selected /\ end = Last /\ Exact
        /\ At(i) /\ \A t \in ran : t < i
    BY <1>0, <1>e DEF Control, Position, Progress, Totals, TotalsExact, Exact, Running
  <2> QED BY <2>1, Constants, SMTT(60)
<1>1. TypeOK'
  BY <1>0, <1>e, <1>s, Constants DEF TypeOK, Control, Position, Running, Patterns,
       Invalid, PCs
<1>2. Control'
  BY <1>0, <1>e, <1>s, Constants DEF TypeOK, Control, Running
<1>3. FreshStart'
  BY <1>0, <1>e, <1>s, Constants DEF FreshStart, Fresh, TypeOK, Patterns, Control,
       Invalid
<1>4. Resumes'
  <2>1. i \notin flagged /\ ran \subseteq Nat
    <3>1. flagged \subseteq ran /\ ran \subseteq 1 .. NumTests
      BY <1>0 DEF TypeOK
    <3> QED BY <1>p, <3>1, Constants, SMTT(60)
  <2>2. \A t \in ran' : t <= i
    BY <1>0, <1>e, <1>p, <2>1, SMTT(60)
  <2>3. Interrupted(i)'
    BY <1>0, <1>e, <1>p, <1>s, <2>1, <2>2 DEF Interrupted
  <2> QED BY <1>0, <1>e, <1>p, <2>3 DEF Resumes
<1>5. Position'
  BY <1>0, <1>e, <1>s, Constants DEF Position, Running, TypeOK, Control, Invalid
<1>6. Progress'
  BY <1>0, <1>e, <1>s, Constants, SMTT(60) DEF Progress, Running, TypeOK, Control
<1>7. Totals'
  BY <1>0, <1>e, <1>s, Constants DEF Totals, TotalsExact, Running, Control, Exact
<1> QED BY <1>s, <1>1, <1>2, <1>3, <1>4, <1>5, <1>6, <1>7

(* set_reboot_flag keeps the invariant.                                    *)
LEMMA set_reboot_flagInv == IInv /\ set_reboot_flag => IInv'
<1>0. SUFFICES ASSUME IInv, set_reboot_flag, ~NvmFails("panic") PROVE IInv'
  BY NvmFailsInv DEF set_reboot_flag
<1> USE DEF IInv
<1>e. /\ pc = "test" /\ pc' = "test" /\ progress' = "REBOOTING"
      /\ flagged' = flagged \cup {i}
      /\ UNCHANGED <<cur, end, totals, wdog, k, i, test_num_end, reboot_run, status,
                     regre_report, ran, counted>>
  BY <1>0 DEF set_reboot_flag, Goto, Rest, nvm, history, ram
<1>s. CountedInOrder' /\ Accounted' = Accounted /\ (\A p : At(p)' <=> At(p))
      /\ (Exact' <=> Exact)
  BY <1>0, <1>e, SameCounted, SameTotals
<1>p. cur = i /\ Interrupted(i)
  BY <1>0, <1>e DEF Control, Resumes, Resuming
<1>1. TypeOK'
  BY <1>0, <1>e, <1>p DEF TypeOK, Patterns, Interrupted
<1>2. Control'
  BY <1>0, <1>e, <1>s, Constants DEF TypeOK, Control, Running
<1>3. FreshStart'
  BY <1>0, <1>e, <1>s, Constants DEF FreshStart, Fresh, TypeOK, Patterns, Control,
       Invalid
<1>4. Resumes'
  <2>1. Interrupted(i)'
    BY <1>0, <1>e, <1>p, <1>s DEF Interrupted
  <2> QED BY <1>0, <1>e, <1>p, <2>1 DEF Resumes
<1>5. Position'
  BY <1>0, <1>e, <1>s, Constants DEF Position, Running, TypeOK, Control, Invalid
<1>6. Progress'
  BY <1>0, <1>e, <1>s, Constants DEF Progress, Running, TypeOK, Control
<1>7. Totals'
  BY <1>0, <1>e, <1>s, Constants DEF Totals, TotalsExact, Running, Control, Exact
<1> QED BY <1>s, <1>1, <1>2, <1>3, <1>4, <1>5, <1>6, <1>7

(* TestHangs keeps the invariant.                                          *)
LEMMA TestHangsInv == IInv /\ TestHangs => IInv'
<1>0. SUFFICES ASSUME IInv, TestHangs PROVE IInv'
  OBVIOUS
<1> USE DEF IInv
<1>e. /\ pc = "test" /\ pc' = "hang"
      /\ UNCHANGED <<cur, end, progress, totals, wdog, k, i, test_num_end,
                     reboot_run, status, regre_report, ran, flagged, counted>>
  BY <1>0 DEF TestHangs, Goto, Rest, nvm, history, ram
<1>s. CountedInOrder' /\ Accounted' = Accounted /\ (\A p : At(p)' <=> At(p))
      /\ (Exact' <=> Exact)
  BY <1>0, <1>e, SameCounted, SameTotals
<1>i. \A p : Interrupted(p)' <=> Interrupted(p)
  BY <1>e, SameInterrupted
<1>1. TypeOK'
  BY <1>0, <1>e, <1>s, Constants DEF TypeOK, Control, Position, Running, Patterns,
       Invalid, PCs
<1>2. Control'
  BY <1>0, <1>e, <1>s, Constants DEF TypeOK, Control, Running
<1>3. FreshStart'
  BY <1>0, <1>e, <1>s, Constants DEF FreshStart, Fresh, TypeOK, Patterns, Control,
       Invalid
<1>4. Resumes'
  BY <1>0, <1>e, <1>s, <1>i, Constants DEF Resumes, Resuming, Control, TypeOK
<1>5. Position'
  BY <1>0, <1>e, <1>s, Constants DEF Position, Running, TypeOK, Control, Invalid
<1>6. Progress'
  BY <1>0, <1>e, <1>s, Constants DEF Progress, Running, TypeOK, Control
<1>7. Totals'
  BY <1>0, <1>e, <1>s, Constants DEF Totals, TotalsExact, Running, Control, Exact
<1> QED BY <1>s, <1>1, <1>2, <1>3, <1>4, <1>5, <1>6, <1>7

(* TestReturns keeps the invariant.                                        *)
LEMMA TestReturnsInv == IInv /\ TestReturns => IInv'
<1>0. SUFFICES ASSUME IInv, TestReturns PROVE IInv'
  OBVIOUS
<1> USE DEF IInv
<1>e. /\ pc = "test" /\ pc' = "exit" /\ status' \in Result
      /\ UNCHANGED <<cur, end, progress, totals, wdog, k, i, test_num_end,
                     reboot_run, regre_report, ran, flagged, counted>>
  BY <1>0 DEF TestReturns, Goto, Rest, nvm, history, ram
<1>s. CountedInOrder' /\ Accounted' = Accounted /\ (\A p : At(p)' <=> At(p))
      /\ (Exact' <=> Exact)
  BY <1>0, <1>e, SameCounted, SameTotals
<1>i. \A p : Interrupted(p)' <=> Interrupted(p)
  BY <1>e, SameInterrupted
<1>1. TypeOK'
  BY <1>0, <1>e, <1>s, Constants DEF TypeOK, Control, Position, Running, Patterns,
       Invalid, PCs
<1>2. Control'
  BY <1>0, <1>e, <1>s, Constants DEF TypeOK, Control, Running
<1>3. FreshStart'
  BY <1>0, <1>e, <1>s, Constants DEF FreshStart, Fresh, TypeOK, Patterns, Control,
       Invalid
<1>4. Resumes'
  BY <1>0, <1>e, <1>s, <1>i, Constants DEF Resumes, Resuming, Control, TypeOK
<1>5. Position'
  BY <1>0, <1>e, <1>s, Constants DEF Position, Running, TypeOK, Control, Invalid
<1>6. Progress'
  BY <1>0, <1>e, <1>s, Constants DEF Progress, Running, TypeOK, Control
<1>7. Totals'
  BY <1>0, <1>e, <1>s, Constants DEF Totals, TotalsExact, Running, Control, Exact
<1> QED BY <1>s, <1>1, <1>2, <1>3, <1>4, <1>5, <1>6, <1>7

(* PostambleRuns keeps the invariant.                                      *)
LEMMA PostambleRunsInv == IInv /\ PostambleRuns => IInv'
<1>0. SUFFICES ASSUME IInv, PostambleRuns PROVE IInv'
  OBVIOUS
<1> USE DEF IInv
<1>e. /\ pc = "exit" /\ pc' = "disable" /\ status' \in {status, "FAIL"}
      /\ UNCHANGED <<cur, end, progress, totals, wdog, k, i, test_num_end,
                     reboot_run, regre_report, ran, flagged, counted>>
  BY <1>0 DEF PostambleRuns, Goto, Rest, nvm, history, ram
<1>s. CountedInOrder' /\ Accounted' = Accounted /\ (\A p : At(p)' <=> At(p))
      /\ (Exact' <=> Exact)
  BY <1>0, <1>e, SameCounted, SameTotals
<1>i. \A p : Interrupted(p)' <=> Interrupted(p)
  BY <1>e, SameInterrupted
<1>1. TypeOK'
  BY <1>0, <1>e, <1>s, Constants DEF TypeOK, Control, Position, Running, Patterns,
       Invalid, PCs
<1>2. Control'
  BY <1>0, <1>e, <1>s, Constants DEF TypeOK, Control, Running
<1>3. FreshStart'
  BY <1>0, <1>e, <1>s, Constants DEF FreshStart, Fresh, TypeOK, Patterns, Control,
       Invalid
<1>4. Resumes'
  BY <1>0, <1>e, <1>s, <1>i, Constants DEF Resumes, Resuming, Control, TypeOK
<1>5. Position'
  BY <1>0, <1>e, <1>s, Constants DEF Position, Running, TypeOK, Control, Invalid
<1>6. Progress'
  BY <1>0, <1>e, <1>s, Constants DEF Progress, Running, TypeOK, Control
<1>7. Totals'
  BY <1>0, <1>e, <1>s, Constants DEF Totals, TotalsExact, Running, Control, Exact
<1> QED BY <1>s, <1>1, <1>2, <1>3, <1>4, <1>5, <1>6, <1>7

(* WatchdogDisable keeps the invariant.                                    *)
LEMMA WatchdogDisableInv == IInv /\ WatchdogDisable => IInv'
<1>0. SUFFICES ASSUME IInv, WatchdogDisable, ~NvmFails("panic") PROVE IInv'
  BY NvmFailsInv DEF WatchdogDisable
<1> USE DEF IInv
<1>e. /\ pc = "disable" /\ pc' = "ended" /\ wdog' = FALSE
      /\ UNCHANGED <<cur, end, progress, totals, k, i, test_num_end, reboot_run,
                     status, regre_report, ran, flagged, counted>>
  BY <1>0 DEF WatchdogDisable, Goto, Rest, nvm, history, ram
<1>s. CountedInOrder' /\ Accounted' = Accounted /\ (\A p : At(p)' <=> At(p))
      /\ (Exact' <=> Exact)
  BY <1>0, <1>e, SameCounted, SameTotals
<1>i. \A p : Interrupted(p)' <=> Interrupted(p)
  BY <1>e, SameInterrupted
<1>1. TypeOK'
  BY <1>0, <1>e, <1>s, Constants DEF TypeOK, Control, Position, Running, Patterns,
       Invalid, PCs
<1>2. Control'
  BY <1>0, <1>e, <1>s, Constants DEF TypeOK, Control, Running
<1>3. FreshStart'
  BY <1>0, <1>e, <1>s, Constants DEF FreshStart, Fresh, TypeOK, Patterns, Control,
       Invalid
<1>4. Resumes'
  BY <1>0, <1>e, <1>s, <1>i, Constants DEF Resumes, Resuming, Control, TypeOK
<1>5. Position'
  BY <1>0, <1>e, <1>s, Constants DEF Position, Running, TypeOK, Control, Invalid
<1>6. Progress'
  BY <1>0, <1>e, <1>s, Constants DEF Progress, Running, TypeOK, Control
<1>7. Totals'
  BY <1>0, <1>e, <1>s, Constants DEF Totals, TotalsExact, Running, Control, Exact
<1> QED BY <1>s, <1>1, <1>2, <1>3, <1>4, <1>5, <1>6, <1>7

(* WriteEnd keeps the invariant.                                           *)
LEMMA WriteEndInv == IInv /\ WriteEnd => IInv'
<1>0. SUFFICES ASSUME IInv, WriteEnd, ~NvmFails("panic") PROVE IInv'
  BY NvmFailsInv DEF WriteEnd
<1> USE DEF IInv
<1>e. /\ pc = "ended" /\ pc' = "report" /\ progress' = "END"
      /\ UNCHANGED <<cur, end, totals, wdog, k, i, test_num_end, reboot_run, status,
                     regre_report, ran, flagged, counted>>
  BY <1>0 DEF WriteEnd, Goto, Rest, nvm, history, ram
<1>s. CountedInOrder' /\ Accounted' = Accounted /\ (\A p : At(p)' <=> At(p))
      /\ (Exact' <=> Exact)
  BY <1>0, <1>e, SameCounted, SameTotals
<1>1. TypeOK'
  BY <1>0, <1>e, <1>s, Constants DEF TypeOK, Control, Position, Running, Patterns,
       Invalid, PCs
<1>2. Control'
  BY <1>0, <1>e, <1>s, Constants DEF TypeOK, Control, Running
<1>3. FreshStart'
  BY <1>0, <1>e, <1>s, Constants DEF FreshStart, Fresh, TypeOK, Patterns, Control,
       Invalid
<1>4. Resumes'
  BY <1>0, <1>e, <1>s, Constants DEF Resumes, Resuming, Control, TypeOK
<1>5. Position'
  BY <1>0, <1>e, <1>s, Constants DEF Position, Running, TypeOK, Control, Invalid
<1>6. Progress'
  BY <1>0, <1>e, <1>s, Constants DEF Progress, Running, TypeOK, Control
<1>7. Totals'
  BY <1>0, <1>e, <1>s, Constants DEF Totals, TotalsExact, Running, Control, Exact
<1> QED BY <1>s, <1>1, <1>2, <1>3, <1>4, <1>5, <1>6, <1>7

(* ReadTotals keeps the invariant.                                         *)
LEMMA ReadTotalsInv == IInv /\ ReadTotals => IInv'
<1>0. SUFFICES ASSUME IInv, ReadTotals, ~NvmFails("standby") PROVE IInv'
  BY NvmFailsInv DEF ReadTotals
<1> USE DEF IInv
<1>e. /\ pc = "report" /\ pc' = "totals"
      /\ regre_report' = [totals EXCEPT ![status] = @ + 1]
      /\ UNCHANGED <<cur, end, progress, totals, wdog, k, i, test_num_end,
                     reboot_run, status, ran, flagged, counted>>
  BY <1>0 DEF ReadTotals, Goto, Rest, nvm, history, ram
<1>s. CountedInOrder' /\ Accounted' = Accounted /\ (\A p : At(p)' <=> At(p))
      /\ (Exact' <=> Exact)
  BY <1>0, <1>e, SameCounted, SameTotals
<1>i. \A p : Interrupted(p)' <=> Interrupted(p)
  BY <1>e, SameInterrupted
<1>p. status \in Result /\ k = 1 /\ totals \in [Result -> Nat] /\ Exact /\ At(i)
  BY <1>0, <1>e DEF Control, TypeOK, Totals, TotalsExact, Exact, Progress, Running
<1>1. TypeOK'
  <2>1. regre_report' \in [Result -> Nat]
    BY <1>0, <1>e, <1>p, SMTT(60)
  <2> QED BY <1>0, <1>e, <2>1 DEF TypeOK, PCs
<1>2. Control'
  BY <1>0, <1>e, <1>s, Constants, SMTT(60) DEF TypeOK, Control, Running
<1>3. FreshStart'
  BY <1>0, <1>e, <1>s, Constants DEF FreshStart, Fresh, TypeOK, Patterns, Control,
       Invalid
<1>4. Resumes'
  BY <1>0, <1>e, <1>s, <1>i, Constants DEF Resumes, Resuming, Control, TypeOK
<1>5. Position'
  BY <1>0, <1>e, <1>s, Constants DEF Position, Running, TypeOK, Control, Invalid
<1>6. Progress'
  <2>1. ~Written'
    BY <1>0, <1>e, <1>p, SMTT(60) DEF Written
  <2> QED BY <1>0, <1>e, <1>p, <1>s, <2>1 DEF Progress, Running
<1>7. Totals'
  <2>1. \A j \in 1 .. 4 : Results[j] \in Result /\ k' <= j
    BY <1>0, <1>e, <1>p, Constants, SMTT(60)
  <2>2. ASSUME NEW j \in 1 .. 4
        PROVE  regre_report'[Results[j]] =
                 totals'[Results[j]] + (IF Results[j] = status' /\ k' <= j THEN 1 ELSE 0)
    BY <1>0, <1>e, <1>p, <2>1, SMTT(60)
  <2> QED BY <1>0, <1>e, <1>p, <1>s, <2>2 DEF Totals, TotalsExact, Exact
<1> QED BY <1>s, <1>1, <1>2, <1>3, <1>4, <1>5, <1>6, <1>7

(* A test accounted for at position i comes after all that were.           *)
LEMMA AppendCounted ==
  ASSUME TypeOK, CountedInOrder, NEW p, p = i, i \in Selected, At(i),
     counted' = Append(counted, i)
  PROVE  CountedInOrder' /\ At(p + 1)' /\ Len(counted)' = Len(counted) + 1
         /\ counted' \in Seq(1 .. NumTests)
<1>0. i \in 1 .. NumTests /\ Selected \subseteq 1 .. NumTests /\ NumTests \in Nat
      /\ counted \in Seq(1 .. NumTests)
  BY Constants DEF TypeOK
<1>1. /\ counted' \in Seq(1 .. NumTests) /\ Len(counted') = Len(counted) + 1
      /\ Len(counted) \in Nat
      /\ DOMAIN counted = 1 .. Len(counted) /\ DOMAIN counted' = 1 .. Len(counted) + 1
      /\ (\A a \in DOMAIN counted : counted'[a] = counted[a] /\ a \in DOMAIN counted')
      /\ counted'[Len(counted) + 1] = i
  BY <1>0, SMTT(60)
<1>2. \A a \in DOMAIN counted' : a \in DOMAIN counted \/ a = Len(counted) + 1
  BY <1>1, SMTT(60)
<1>3. Accounted' = Accounted \cup {i}
  <2>1. ASSUME NEW t \in Accounted' PROVE t \in Accounted \cup {i}
    <3>1. PICK a \in DOMAIN counted' : t = counted'[a]
      BY DEF Accounted
    <3>2. CASE a \in DOMAIN counted
      BY <1>1, <3>1, <3>2 DEF Accounted
    <3>3. CASE a = Len(counted) + 1
      BY <1>1, <3>1, <3>3
    <3> QED BY <1>2, <3>2, <3>3
  <2>2. ASSUME NEW t \in Accounted PROVE t \in Accounted'
    <3>1. PICK a \in DOMAIN counted : t = counted[a]
      BY DEF Accounted
    <3> QED BY <1>1, <3>1 DEF Accounted
  <2>3. i \in Accounted'
    <3>1. Len(counted) + 1 \in DOMAIN counted'
      BY <1>1, SMTT(60)
    <3> QED BY <1>1, <3>1 DEF Accounted
  <2> QED BY <2>1, <2>2, <2>3
<1>4. Accounted \subseteq Selected /\ \A t \in Accounted : t < i
  BY DEF CountedInOrder, At
<1>5. ASSUME NEW a \in DOMAIN counted', NEW b \in DOMAIN counted', a < b
      PROVE  counted'[a] < counted'[b]
  <2>1. a \in DOMAIN counted
    BY <1>1, <1>5, SMTT(60)
  <2>2. CASE b \in DOMAIN counted
    BY <1>1, <1>5, <2>1, <2>2 DEF CountedInOrder
  <2>3. CASE b = Len(counted) + 1
    BY <1>1, <1>4, <2>1, <2>3 DEF Accounted
  <2> QED BY <1>2, <2>2, <2>3
<1>6. ASSUME NEW t \in Selected, t < p + 1 PROVE t \in Accounted'
  <2>1. t < i \/ t = i
    BY <1>0, <1>6, SMTT(60)
  <2> QED BY <1>3, <2>1 DEF At
<1>7. ASSUME NEW t \in Accounted' PROVE t < p + 1 /\ t \in Selected
  BY <1>0, <1>3, <1>4, SMTT(60)
<1>8. ASSUME NEW t \in Selected, NEW c \in Accounted', t < c PROVE t \in Accounted'
  <2>1. t < p + 1
    <3>1. t \in Nat /\ c \in Nat /\ p \in Nat /\ c < p + 1
      <4>1. c < p + 1 /\ c \in Selected
        BY <1>7
      <4> QED BY <1>0, <4>1, SMTT(60)
    <3> QED BY <1>8, <3>1, SMTT(60)
  <2> QED BY <1>6, <2>1
<1> QED BY <1>1, <1>5, <1>6, <1>7, <1>8 DEF CountedInOrder, At

(* WriteTotals keeps the invariant: the total that the test changes and    *)
(* the list of the tests accounted for change together.                    *)
LEMMA WriteTotalsInv == IInv /\ WriteTotals => IInv'
<1>0. SUFFICES ASSUME IInv, WriteTotals, ~NvmFails("standby") PROVE IInv'
  BY NvmFailsInv DEF WriteTotals
<1> USE DEF IInv
<1>b. PICK p : p = i
  OBVIOUS
<1>e. /\ pc = "totals" /\ pc' = (IF k = 4 THEN "loop" ELSE "totals")
      /\ k' = (IF k = 4 THEN 1 ELSE k + 1) /\ i' = (IF k = 4 THEN i + 1 ELSE i)
      /\ UNCHANGED <<cur, end, progress, wdog, test_num_end, reboot_run, status,
                     regre_report, ran, flagged>>
  BY <1>0 DEF WriteTotals, Goto
<1>f. totals' = [totals EXCEPT ![Results[k]] = regre_report[Results[k]]]
  BY <1>0 DEF WriteTotals
<1>g. counted' = (IF Results[k] = status THEN Append(counted, i) ELSE counted)
  BY <1>0 DEF WriteTotals
<1>k. /\ k \in 1 .. 4 /\ ~wdog /\ ~reboot_run /\ status \in Result
      /\ i \in Selected /\ cur = i
      /\ test_num_end = Last /\ end = Last /\ (\A t \in ran : t <= i)
      /\ Sum(totals) = Len(counted)
      /\ totals \in [Result -> Nat] /\ regre_report \in [Result -> Nat]
  BY <1>0, <1>e DEF Control, Position, Progress, Totals, TotalsExact, TypeOK, Running
<1>n. i \in 1 .. NumTests /\ First <= i /\ First # 0 /\ First \in Nat
      /\ NumTests \in Nat /\ ran \subseteq 1 .. NumTests
  <2>1. i \in 1 .. NumTests /\ NumTests \in Nat /\ First \in 0 .. NumTests
        /\ First <= i /\ First # 0
    BY <1>k, Constants
  <2>2. ran \subseteq 1 .. NumTests
    BY <1>0 DEF TypeOK
  <2> QED BY <2>1, <2>2, SMTT(60)
<1>r. \A j \in 1 .. 4 : regre_report[Results[j]] =
         totals[Results[j]] + (IF Results[j] = status /\ k <= j THEN 1 ELSE 0)
  BY <1>0, <1>e DEF Totals
<1>u. \A j, l \in 1 .. 4 : Results[j] = Results[l] => j = l
  BY Constants, SMTT(60)
<1>w. Results[k] = status => ~Written
  BY <1>k, <1>u, SMTT(60) DEF Written
<1>a. CountedInOrder' /\ counted' \in Seq(1 .. NumTests)
      /\ (Results[k] = status => At(p + 1)' /\ Len(counted)' = Len(counted) + 1)
      /\ (Results[k] # status => Len(counted)' = Len(counted) /\ \A q : At(q)' <=> At(q))
  <2>1. CASE Results[k] = status
    <3>1. At(i)
      BY <1>0, <1>e, <1>w, <2>1 DEF Progress
    <3>2. counted' = Append(counted, i)
      BY <1>g, <2>1
    <3> QED BY <1>0, <1>b, <1>k, <2>1, <3>1, <3>2, AppendCounted
  <2>2. CASE Results[k] # status
    <3>1. counted' = counted
      BY <1>g, <2>2
    <3> QED BY <1>0, <2>2, <3>1, SameCounted DEF TypeOK
  <2> QED BY <2>1, <2>2
<1>t. totals' \in [Result -> Nat] /\ Results[k] \in Result
  <2>1. Results[k] \in Result
    BY <1>k, Constants
  <2> QED BY <1>f, <1>k, <2>1
<1>x. Sum(totals') = Len(counted')
  <2>1. totals'[Results[k]] = totals[Results[k]] + (IF Results[k] = status THEN 1 ELSE 0)
        /\ \A r \in Result : r # Results[k] => totals'[r] = totals[r]
    BY <1>f, <1>k, <1>r, <1>t, SMTT(60)
  <2>2. /\ totals["PASS"] \in Nat /\ totals["FAIL"] \in Nat
        /\ totals["SKIP"] \in Nat /\ totals["ERROR"] \in Nat
        /\ Results[k] \in {"PASS", "FAIL", "SKIP", "ERROR"}
    BY <1>k, <1>t, Constants
  <2>3. Sum(totals') = Sum(totals) + (IF Results[k] = status THEN 1 ELSE 0)
    <3>1. CASE Results[k] = "PASS"
      BY <2>1, <2>2, <3>1, Constants, SMTT(60) DEF Sum
    <3>2. CASE Results[k] = "FAIL"
      BY <2>1, <2>2, <3>2, Constants, SMTT(60) DEF Sum
    <3>3. CASE Results[k] = "SKIP"
      BY <2>1, <2>2, <3>3, Constants, SMTT(60) DEF Sum
    <3>4. CASE Results[k] = "ERROR"
      BY <2>1, <2>2, <3>4, Constants, SMTT(60) DEF Sum
    <3> QED BY <2>2, <3>1, <3>2, <3>3, <3>4
  <2>4. Sum(totals) \in Nat
    BY <2>2, SMTT(60) DEF Sum
  <2> QED BY <1>k, <1>a, <2>3, <2>4, SMTT(60)
<1>v. k # 4 => (Written' <=> Written \/ Results[k] = status)
  <2> SUFFICES ASSUME k # 4 PROVE Written' <=> Written \/ Results[k] = status
    OBVIOUS
  <2>1. k' = k + 1 /\ status' = status
    BY <1>e
  <2>2. \A j \in 1 .. 4 : j < k + 1 <=> j < k \/ j = k
    BY <1>k, SMTT(60)
  <2> QED BY <1>k, <2>1, <2>2 DEF Written
<1>q. (k = 4 => Written \/ Results[k] = status)
  <2>1. PICK j \in 1 .. 4 : status = Results[j]
    BY <1>k DEF Result
  <2> QED BY <1>k, <2>1, SMTT(60) DEF Written
<1>p. IF Written \/ Results[k] = status THEN At(p + 1)' ELSE At(p)'
  BY <1>0, <1>a, <1>b, <1>e, <1>w DEF Progress
<1>1. TypeOK'
  <2>1. k' \in 1 .. 7
    BY <1>e, <1>k, SMTT(60)
  <2>2. i' \in 0 .. total_tests
    <3>1. i \in 0 .. total_tests /\ i + 1 \in 0 .. total_tests
      BY <1>n, Constants, SMTT(60)
    <3> QED BY <1>e, <3>1
  <2> QED BY <1>0, <1>e, <1>a, <1>t, <2>1, <2>2 DEF TypeOK, PCs
<1>2. Control'
  <2>1. (k = 4 => k' = 1) /\ (k # 4 => k' \in 1 .. 4)
    BY <1>e, <1>k, SMTT(60)
  <2> QED BY <1>e, <1>k, <2>1 DEF Control, Running
<1>3. FreshStart' /\ Resumes'
  BY <1>e, <1>k DEF FreshStart, Fresh, Resumes, Resuming
<1>4. Position'
  <2>1. i + 1 \in First .. NumTests + 1
    BY <1>n, SMTT(60)
  <2> QED BY <1>e, <1>k, <1>n, <2>1 DEF Position, Running
<1>5. Progress'
  <2>1. CASE k = 4
    <3>1. At(p + 1)'
      BY <2>1, <1>p, <1>q
    <3>2. \A t \in ran : t < i + 1 /\ t <= i + 1
      BY <1>k, <1>n, SMTT(60)
    <3>3. pc' = "loop" /\ i' = i + 1
      BY <2>1, <1>e
    <3>4. At(i)'
      BY <1>b, <3>1, <3>3 DEF At
    <3> QED BY <1>e, <3>2, <3>3, <3>4 DEF Progress, Running
  <2>2. CASE k # 4
    <3>1. pc' = "totals" /\ i' = i /\ ran' = ran
      BY <2>2, <1>e
    <3>2. Written' => At(i + 1)'
      BY <1>b, <1>p, <1>v, <2>2, <3>1 DEF At
    <3>3. ~Written' => At(i)'
      BY <1>b, <1>p, <1>v, <2>2, <3>1 DEF At
    <3> QED BY <1>k, <3>1, <3>2, <3>3 DEF Progress, Running
  <2> QED BY <2>1, <2>2
<1>6. Totals'
  <2>1. ASSUME pc' = "totals", NEW j \in 1 .. 4
        PROVE  regre_report'[Results[j]] =
                 totals'[Results[j]] + (IF Results[j] = status' /\ k' <= j THEN 1 ELSE 0)
    <3>0. Results[j] \in Result
      BY Constants
    <3>1. k' = k + 1 /\ Results[j] \in Result
      BY <1>e, <2>1, <3>0
    <3>2. CASE j = k
      <4>1. ~(k' <= j)
        BY <1>k, <3>1, <3>2, SMTT(60)
      <4>2. totals'[Results[j]] = regre_report[Results[j]]
            /\ regre_report[Results[j]] \in Nat
        BY <1>f, <1>k, <3>1, <3>2
      <4> QED BY <1>e, <4>1, <4>2, SMTT(60)
    <3>3. CASE j # k
      <4>1. Results[j] # Results[k]
        BY <1>k, <1>u, <3>3
      <4>2. totals'[Results[j]] = totals[Results[j]]
        BY <1>f, <1>k, <3>1, <4>1
      <4>3. k' <= j <=> k <= j
        BY <1>k, <3>1, <3>3, SMTT(60)
      <4> QED BY <1>e, <1>r, <4>2, <4>3
    <3> QED BY <3>2, <3>3
  <2> QED BY <1>x, <2>1 DEF Totals, TotalsExact
<1> QED BY <1>a, <1>1, <1>2, <1>3, <1>4, <1>5, <1>6

(* Reset keeps the invariant.                                              *)
LEMMA ResetInv == IInv /\ Reset => IInv'
<1>0. SUFFICES ASSUME IInv, Reset PROVE IInv'
  OBVIOUS
<1> USE DEF IInv
<1>e. /\ wdog /\ wdog' = FALSE /\ pc' = "boot" /\ k' = 1 /\ i' = 0
      /\ test_num_end' = 0 /\ reboot_run' = FALSE /\ status' = "INVALID"
      /\ regre_report' = Zero
      /\ UNCHANGED <<cur, end, progress, totals, ran, flagged, counted>>
  BY <1>0 DEF Reset, Goto, Rest, nvm, history, ram
<1>s. CountedInOrder' /\ Accounted' = Accounted /\ (\A p : At(p)' <=> At(p))
      /\ (Exact' <=> Exact)
  BY <1>0, <1>e, SameCounted, SameTotals
<1>i. \A p : Interrupted(p)' <=> Interrupted(p)
  BY <1>e, SameInterrupted
<1>p. Interrupted(cur)
  BY <1>0, <1>e DEF Resumes, Resuming
<1>1. TypeOK'
  <2>1. Zero \in [Result -> Nat]
    BY DEF Zero
  <2>2. 0 \in 0 .. total_tests /\ 1 \in 1 .. 7
    BY Constants, SMTT(60)
  <2> QED BY <1>0, <1>e, <2>1, <2>2 DEF TypeOK, PCs
<1>2. Control'
  BY <1>0, <1>e, <1>s, Constants DEF TypeOK, Control, Running
<1>3. FreshStart'
  BY <1>0, <1>e, <1>p DEF FreshStart, Fresh, Interrupted, Patterns
<1>4. Resumes'
  BY <1>0, <1>e, <1>s, <1>i, Constants DEF Resumes, Resuming, Control, TypeOK
<1>5. Position'
  BY <1>0, <1>e, <1>s, Constants DEF Position, Running, TypeOK, Control, Invalid
<1>6. Progress'
  BY <1>0, <1>e, <1>s, Constants DEF Progress, Running, TypeOK, Control
<1>7. Totals'
  BY <1>0, <1>e, <1>s, Constants DEF Totals, TotalsExact, Running, Control, Exact
<1> QED BY <1>s, <1>1, <1>2, <1>3, <1>4, <1>5, <1>6, <1>7

(* Every step keeps the invariant.                                         *)
LEMMA StepInv == IInv /\ [Next]_vars => IInv'
<1> SUFFICES ASSUME IInv, [Next]_vars PROVE IInv'
  OBVIOUS
<1>1. CASE Dispatch
  BY <1>1, BootInv, ClearNvmInv, SelectInv, LoopInv, WriteCurrentInv, TestInitInv,
     WatchdogEnableInv, PostambleRunsInv, WatchdogDisableInv, WriteEndInv,
     ReadTotalsInv, WriteTotalsInv DEF Dispatch
<1>2. CASE set_reboot_flag \/ TestHangs \/ TestReturns \/ Reset
  BY <1>2, set_reboot_flagInv, TestHangsInv, TestReturnsInv, ResetInv
<1>3. CASE UNCHANGED vars
  <2>1. UNCHANGED <<cur, end, progress, totals, wdog, pc, k, i, test_num_end,
                    reboot_run, status, regre_report, ran, flagged, counted>>
    BY <1>3 DEF vars, nvm, ram, history
  <2>2. CountedInOrder' /\ (\A p : At(p)' <=> At(p))
        /\ (\A p : Interrupted(p)' <=> Interrupted(p))
    BY <2>1, SameCounted, SameInterrupted DEF IInv
  <2>3. TypeOK' /\ Control'
    BY <2>1 DEF IInv, TypeOK, Control
  <2>5. FreshStart' /\ Position'
    BY <2>1 DEF IInv, FreshStart, Fresh, Position
  <2>6. Totals'
    BY <2>1 DEF IInv, Totals, TotalsExact, Sum
  <2>4. Resumes' /\ Progress'
    BY <2>1, <2>2 DEF IInv, Resumes, Resuming, Progress, Written
  <2> QED BY <2>2, <2>3, <2>4, <2>5, <2>6 DEF IInv
<1> QED BY <1>1, <1>2, <1>3 DEF Next, Stopped

(* A power-on satisfies the invariant.                                     *)
LEMMA InitInv == Init => IInv
<1> SUFFICES ASSUME Init PROVE IInv
  OBVIOUS
<1>1. totals \in [Result -> Nat] /\ Zero \in [Result -> Nat]
      /\ "GARBAGE" \notin Patterns
  BY SMTT(60) DEF Init, Zero, Patterns
<1>2. TypeOK
  <2>1. 0 \in Invalid .. NumTests /\ 0 \in Invalid .. total_tests
        /\ 0 \in 0 .. total_tests /\ 1 \in 1 .. 7
    BY Constants, SMTT(60) DEF Invalid
  <2>2. counted \in Seq(1 .. NumTests)
    BY SMTT(60) DEF Init
  <2> QED BY <1>1, <2>1, <2>2 DEF Init, RamInit, TypeOK, PCs
<1>3. CountedInOrder
  <2>1. DOMAIN counted = {} /\ Accounted = {}
    BY SMTT(60) DEF Init, Accounted
  <2> QED BY <2>1 DEF CountedInOrder
<1>4. Control /\ FreshStart /\ Resumes /\ Position /\ Progress /\ Totals
  BY <1>1 DEF Init, RamInit, Control, FreshStart, Fresh, Resumes, Resuming, Position,
       Progress, Totals, TotalsExact, Running
<1> QED BY <1>2, <1>3, <1>4 DEF IInv

(* The invariant holds of the dispatcher.                                  *)
THEOREM DispatchInvariant == Spec => []IInv
  BY InitInv, StepInv, PTL DEF Spec

(* For any list of tests, range and pattern of hangs, resets and NVM       *)
(* failures: the tests are accounted for in order, none twice and none     *)
(* left out.                                                               *)
THEOREM InOrder == Spec => []CountedInOrder
<1>1. IInv => CountedInOrder
  BY DEF IInv
<1> QED BY <1>1, DispatchInvariant, PTL

(* The totals in the NVM are exact, between the four writes as well.       *)
THEOREM ExactTotals == Spec => []TotalsExact
<1>1. IInv => TotalsExact
  BY DEF IInv, Totals
<1> QED BY <1>1, DispatchInvariant, PTL

(* After a reset the NVM names the test that was running, and says whether *)
(* it had asked for the reset.                                             *)
THEOREM BlamesRunningTest == Spec => []ResetBlamesRunningTest
<1>1. IInv => ResetBlamesRunningTest
  <2> SUFFICES ASSUME IInv, pc = "boot", progress \in Patterns
               PROVE  /\ cur \in ran \ Accounted
                      /\ progress = IF cur \in flagged THEN "REBOOTING" ELSE "START"
    BY DEF ResetBlamesRunningTest
  <2>1. Interrupted(cur)
    BY DEF IInv, Resumes, Resuming
  <2>2. cur \in Nat /\ cur \notin Accounted
    <3>1. cur \in Nat /\ \A t \in Accounted : t < cur
      BY <2>1, Constants, SMTT(60) DEF Interrupted, At
    <3> QED BY <3>1, SMTT(60)
  <2> QED BY <2>1, <2>2 DEF Interrupted
<1> QED BY <1>1, DispatchInvariant, PTL

(* No test function is called twice, whatever happens.                     *)
THEOREM RunOnce == Spec => []NeverRerun
<1>1. IInv => NeverRerun
  <2> SUFFICES ASSUME IInv, pc \in {"current", "init", "enable"} PROVE i \notin ran
    BY DEF NeverRerun
  <2>1. i \in Nat /\ \A t \in ran : t < i
    BY Constants, SMTT(60) DEF IInv, Progress, TypeOK
  <2> QED BY <2>1, SMTT(60)
<1> QED BY <1>1, DispatchInvariant, PTL

(* The loop reads no entry beyond test_list, although its bound is one too *)
(* many.                                                                   *)
THEOREM ListInBounds == Spec => []InBounds
<1>1. IInv => InBounds
  <2> SUFFICES ASSUME IInv, pc = "loop" PROVE i \in 0 .. total_tests - 1
    BY DEF InBounds
  <2>1. i \in First .. NumTests + 1
    BY DEF IInv, Position
  <2> QED BY <2>1, Constants, SMTT(60)
<1> QED BY <1>1, DispatchInvariant, PTL

(* The loop ends with every selected test accounted for.                   *)
THEOREM NoneLeftOut == Spec => AllAccounted
<1> DEFINE Leaves == pc = "loop" /\ pc' = "standby" => Accounted = Selected
<1>1. IInv /\ [Next]_vars => [Leaves]_vars
  <2> SUFFICES ASSUME IInv, Next, pc = "loop", pc' = "standby" PROVE Accounted = Selected
    OBVIOUS
  <2>1. Loop
    BY DEF Next, Dispatch, Boot, ClearNvm, Select, WriteCurrent, TestInit,
       WatchdogEnable, PostambleRuns, WatchdogDisable, WriteEnd, ReadTotals,
       WriteTotals, set_reboot_flag, TestHangs, TestReturns, Reset, Stopped, Goto
  <2>2. i > test_num_end \/ ~HasFn(i)
    BY <2>1 DEF Loop, Goto
  <2>3. At(i) /\ test_num_end = Last /\ i \in First .. NumTests + 1 /\ (First = 0 => i = 0)
    BY DEF IInv, Progress, Position, Running
  <2>4. \A t \in Selected : t < i
    BY <2>2, <2>3, Constants, SMTT(60) DEF HasFn
  <2>5. Selected \subseteq Accounted
    BY <2>3, <2>4 DEF At
  <2> QED BY <2>5 DEF IInv, CountedInOrder
<1> QED BY <1>1, DispatchInvariant, PTL DEF Spec, AllAccounted
-----------------------------------------------------------------------------
(***************************************************************************)
(* The interrupts: a registered handler is never replaced (HandlersKept),  *)
(* and the dispatcher goes astray only for an SPI whose handler another    *)
(* CPU took out (DispatchSound).                                           *)
(*                                                                         *)
(* Neither is inductive.  That check and write of an entry are one step    *)
(* for everyone else rests on spi_lock for SPIs (LockInv) and on the bank  *)
(* of its own for a private interrupt; EntryInv carries the result of the  *)
(* check to the write.  A private entry that the dispatcher found filled   *)
(* stays filled, because only the CPU in the dispatcher could change it    *)
(* (FrameInv).                                                             *)
(***************************************************************************)

Updating == [pc : {"lock", "check", "write", "unlock"}, i : Irqs, h : Cpus \cup {Null}]
Enabling == [pc : {"enable"}, i : Irqs]
Holding == [st : {"check", "call", "eoi", "crashed"}, line : Lines \cup {Spurious}]

TypeInv ==
    /\ handler \in [Lines -> Cpus \cup {Null}]
    /\ lock \in Cpus \cup {Null}
    /\ pending \subseteq Lines
    /\ active \subseteq Lines \X Cpus
    /\ route \in [Spis -> Cpus]
    /\ call \in [Cpus -> {Idle} \cup Updating \cup Enabling]
    /\ frame \in [Cpus -> {NoFrame} \cup [st : {"ack"}] \cup Holding]

LockInv ==
    \A c \in Cpus :
       /\ call[c].pc \in {"check", "write"} /\ call[c].i \in Spis => lock = c
       /\ call[c].pc = "unlock" => lock = c

EntryInv ==
    \A c \in Cpus : call[c].pc = "write" =>
       (handler[get_irq_handler(c, call[c].i)] = Null) = (call[c].h # Null)

FrameInv ==
    \A c \in Cpus :
       /\ frame[c].st = "check" /\ frame[c].line # Spurious => frame[c].line[1] \in {"spi", c}
       /\ frame[c].st \in {"call", "eoi", "crashed"} =>
             frame[c].line # Spurious /\ frame[c].line[1] \in {"spi", c}
       /\ frame[c].st = "call" /\ frame[c].line[1] # "spi" => handler[frame[c].line] # Null
       /\ frame[c].st = "crashed" => frame[c].line[1] = "spi"

ActiveInv ==
    \A c \in Cpus, l \in Lines : <<l, c>> \in active =>
       \/ frame[c].st \in {"check", "call", "eoi", "crashed"} /\ frame[c].line = l
       \/ <<l, c>> \in left

IrqInv == TypeInv /\ LockInv /\ EntryInv /\ FrameInv /\ ActiveInv

(* ------------------------------------------------------------------- lines *)

\* A line is a pair of "spi" and an SPI, or of a CPU and a private interrupt.
LEMMA LineShape ==
  ASSUME NEW l \in Lines
  PROVE  /\ l = <<l[1], l[2]>>
         /\ l[2] \in Irqs
         /\ l[1] = "spi" <=> l[2] \in Spis
         /\ l[1] # "spi" => l[1] \in Cpus
BY IrqAssumption, SMTT(60) DEF Lines, Irqs

\* The entry a CPU looks up for an interrupt: the one of the SPI, or its own.
LEMMA EntryShape ==
  ASSUME NEW c \in Cpus, NEW q \in Irqs
  PROVE  /\ get_irq_handler(c, q) \in Lines
         /\ get_irq_handler(c, q)[1] = IF q \in Spis THEN "spi" ELSE c
         /\ get_irq_handler(c, q)[2] = q
BY IrqAssumption DEF get_irq_handler, Lines, Irqs

\* The dispatcher looks up the entry of the line it was given.
LEMMA OwnEntry ==
  ASSUME NEW c \in Cpus, NEW l \in Lines, l[1] \in {"spi", c}
  PROVE  get_irq_handler(c, l[2]) = l
BY LineShape DEF get_irq_handler

\* Two CPUs share the entry of an SPI only.
LEMMA SharedEntry ==
  ASSUME NEW c \in Cpus, NEW d \in Cpus, c # d, NEW q \in Irqs, NEW j \in Irqs,
         get_irq_handler(c, q) = get_irq_handler(d, j)
  PROVE  q \in Spis /\ j \in Spis
BY EntryShape, IrqAssumption, SMTT(60)

(* --------------------------------------------------------------- first state *)

\* The invariant holds when a test starts: no handler, no call, no frame.
LEMMA IrqInitInv == IrqInit => IrqInv
<1> SUFFICES ASSUME IrqInit PROVE IrqInv
  OBVIOUS
<1>1. TypeInv
  BY IrqAssumption DEF IrqInit, TypeInv
<1>2. \A c \in Cpus : call[c] = Idle /\ frame[c] = NoFrame /\ call[c].pc = "idle" /\ frame[c].st = "none"
  BY DEF IrqInit, Idle, NoFrame
<1>3. LockInv /\ EntryInv /\ FrameInv
  BY <1>2 DEF LockInv, EntryInv, FrameInv
<1>4. ActiveInv
  BY DEF IrqInit, ActiveInv
<1> QED
  BY <1>1, <1>3, <1>4 DEF IrqInv

(* ----------------------------------------------------- registering a handler *)

\* A call to register or unregister starts: an SPI's waits for the lock.
LEMMA UpdateStartInv ==
  ASSUME IrqInv, NEW c \in Cpus, NEW q \in Irqs, NEW h \in {c, Null}, UpdateStart(c, q, h)
  PROVE  IrqInv'
<1> DEFINE new == [pc |-> IF TakesLock(q) THEN "lock" ELSE "check", i |-> q, h |-> h]
<1>1. /\ call' = [call EXCEPT ![c] = new]
      /\ UNCHANGED <<handler, lock, pending, active, route, frame, left>>
  BY DEF UpdateStart, gicvars
<1>2. new \in Updating /\ new.i = q /\ new.pc \in {"lock", "check"}
      /\ (new.pc = "check" => q \notin Spis)
  BY DEF Updating, TakesLock
<1> HIDE DEF new
<1>3. call'[c] = new /\ \A d \in Cpus \ {c} : call'[d] = call[d]
  BY <1>1 DEF IrqInv, TypeInv
<1>4. TypeInv'
  BY <1>1, <1>2 DEF IrqInv, TypeInv
<1>5. LockInv'
  BY <1>1, <1>2, <1>3 DEF IrqInv, LockInv
<1>6. EntryInv'
  BY <1>1, <1>2, <1>3 DEF IrqInv, EntryInv
<1>7. FrameInv' /\ ActiveInv'
  BY <1>1 DEF IrqInv, FrameInv, ActiveInv
<1> QED
  BY <1>4, <1>5, <1>6, <1>7 DEF IrqInv

\* The lock is taken only when it is free.
LEMMA UpdateLockInv ==
  ASSUME IrqInv, NEW c \in Cpus, UpdateLock(c)
  PROVE  IrqInv'
<1>1. /\ call[c].pc = "lock" /\ lock = Null /\ lock' = c
      /\ call' = [call EXCEPT ![c].pc = "check"]
      /\ UNCHANGED <<handler, pending, active, route, frame, left>>
  BY DEF UpdateLock, InCall, gicvars
<1>2. call[c] \in Updating
  BY <1>1, SMTT(60) DEF IrqInv, TypeInv, Idle, Enabling
<1>3. call'[c] = [call[c] EXCEPT !.pc = "check"] /\ \A d \in Cpus \ {c} : call'[d] = call[d]
  BY <1>1 DEF IrqInv, TypeInv
<1>4. call'[c] \in Updating /\ call'[c].pc = "check"
  BY <1>2, <1>3 DEF Updating
<1>5. TypeInv'
  BY <1>1, <1>4 DEF IrqInv, TypeInv
<1>6. LockInv'
  BY <1>1, <1>3, <1>4, IrqAssumption DEF IrqInv, LockInv
<1>7. EntryInv'
  BY <1>1, <1>3, <1>4, SMTT(60) DEF IrqInv, EntryInv
<1>8. FrameInv' /\ ActiveInv'
  BY <1>1 DEF IrqInv, FrameInv, ActiveInv
<1> QED
  BY <1>5, <1>6, <1>7, <1>8 DEF IrqInv

\* The check leads to the write only when the entry is as the call expects it.
LEMMA UpdateCheckInv ==
  ASSUME IrqInv, NEW c \in Cpus, UpdateCheck(c)
  PROVE  IrqInv'
<1>1. call[c].pc = "check" /\ UNCHANGED <<handler, lock, pending, active, route, frame, left>>
  BY DEF UpdateCheck, InCall, gicvars
<1>2. CASE UNCHANGED call
  BY <1>1, <1>2 DEF IrqInv, TypeInv, LockInv, EntryInv, FrameInv, ActiveInv
<1>3. CASE /\ (handler[get_irq_handler(c, call[c].i)] = Null) = (call[c].h # Null)
           /\ call' = [call EXCEPT ![c].pc = "write"]
  <2>1. call[c] \in Updating
    BY <1>1, SMTT(60) DEF IrqInv, TypeInv, Idle, Enabling
  <2>2. /\ call'[c] = [call[c] EXCEPT !.pc = "write"]
        /\ \A d \in Cpus \ {c} : call'[d] = call[d]
    BY <1>3 DEF IrqInv, TypeInv
  <2>3. /\ call'[c] \in Updating /\ call'[c].pc = "write"
        /\ call'[c].i = call[c].i /\ call'[c].h = call[c].h
    BY <2>1, <2>2 DEF Updating
  <2>4. TypeInv'
    BY <1>1, <1>3, <2>3 DEF IrqInv, TypeInv
  <2>5. LockInv'
    BY <1>1, <2>2, <2>3 DEF IrqInv, LockInv
  <2>6. EntryInv'
    BY <1>1, <1>3, <2>2, <2>3, SMTT(60) DEF IrqInv, EntryInv
  <2>7. FrameInv' /\ ActiveInv'
    BY <1>1 DEF IrqInv, FrameInv, ActiveInv
  <2> QED
    BY <2>4, <2>5, <2>6, <2>7 DEF IrqInv
<1> QED
  BY <1>2, <1>3 DEF UpdateCheck

\* The write changes no entry that another CPU has checked, and none that a
\* dispatcher found filled, but an SPI's.
LEMMA UpdateWriteInv ==
  ASSUME IrqInv, NEW c \in Cpus, UpdateWrite(c)
  PROVE  IrqInv'
<1> DEFINE e == get_irq_handler(c, call[c].i)
<1> DEFINE new == IF TakesLock(call[c].i) THEN [call[c] EXCEPT !.pc = "unlock"] ELSE Idle
<1>1. /\ call[c].pc = "write" /\ frame[c] = NoFrame
      /\ handler' = [handler EXCEPT ![e] = call[c].h]
      /\ call' = [call EXCEPT ![c] = new]
      /\ UNCHANGED <<lock, pending, active, route, frame, left>>
  BY DEF UpdateWrite, InCall, gicvars
<1>2. call[c] \in Updating
  BY <1>1, SMTT(60) DEF IrqInv, TypeInv, Idle, Enabling
<1>3. call[c].i \in Irqs /\ call[c].h \in Cpus \cup {Null}
  BY <1>2 DEF Updating
<1>4. e \in Lines
  BY <1>3, EntryShape
<1>5. /\ new \in {Idle} \cup Updating
      /\ new.pc \in {"idle", "unlock"}
      /\ new.pc = "unlock" => call[c].i \in Spis
  BY <1>2 DEF Updating, Idle, TakesLock
<1> HIDE DEF new
<1>6. call'[c] = new /\ \A d \in Cpus \ {c} : call'[d] = call[d]
  BY <1>1 DEF IrqInv, TypeInv
<1>7. TypeInv'
  BY <1>1, <1>3, <1>4, <1>5 DEF IrqInv, TypeInv
<1>8. LockInv'
  BY <1>1, <1>5, <1>6 DEF IrqInv, LockInv
<1>9. EntryInv'
  <2>1. SUFFICES ASSUME NEW d \in Cpus, call'[d].pc = "write"
                 PROVE  handler'[get_irq_handler(d, call'[d].i)]
                        = handler[get_irq_handler(d, call[d].i)] /\ call'[d] = call[d]
    BY DEF IrqInv, EntryInv
  <2>2. d # c /\ call'[d] = call[d] /\ call[d].pc = "write"
    BY <1>5, <1>6, <2>1
  <2>3. call[d].i \in Irqs
    BY <2>2, SMTT(60) DEF IrqInv, TypeInv, Idle, Enabling, Updating
  <2>4. ~(call[c].i \in Spis /\ call[d].i \in Spis)
    BY <1>1, <2>2 DEF IrqInv, LockInv
  <2>5. get_irq_handler(d, call[d].i) # e
    BY <1>3, <2>2, <2>3, <2>4, SharedEntry
  <2>6. get_irq_handler(d, call[d].i) \in Lines
    BY <2>3, EntryShape
  <2> HIDE DEF e
  <2> QED
    BY <1>1, <2>2, <2>5, <2>6 DEF IrqInv, TypeInv
<1>10. FrameInv'
  <2>1. SUFFICES ASSUME NEW d \in Cpus, frame[d].st = "call", frame[d].line[1] # "spi"
                 PROVE  handler'[frame[d].line] # Null
    BY <1>1 DEF IrqInv, FrameInv
  <2>2. d # c
    BY <1>1, <2>1, SMTT(60) DEF NoFrame
  <2>3. frame[d].line \in Lines /\ frame[d].line[1] = d /\ handler[frame[d].line] # Null
    BY <2>1, SMTT(60) DEF IrqInv, TypeInv, FrameInv, NoFrame, Holding
  <2>4. frame[d].line # e
    BY <1>3, <2>1, <2>2, <2>3, EntryShape, SMTT(60)
  <2> HIDE DEF e
  <2> QED
    BY <1>1, <2>3, <2>4 DEF IrqInv, TypeInv
<1>11. ActiveInv'
  BY <1>1 DEF IrqInv, ActiveInv
<1> QED
  BY <1>7, <1>8, <1>9, <1>10, <1>11 DEF IrqInv

\* Only the holder gives the lock back.
LEMMA UpdateUnlockInv ==
  ASSUME IrqInv, NEW c \in Cpus, UpdateUnlock(c)
  PROVE  IrqInv'
<1>1. /\ call[c].pc = "unlock" /\ lock' = Null
      /\ call' = [call EXCEPT ![c] = Idle]
      /\ UNCHANGED <<handler, pending, active, route, frame, left>>
  BY DEF UpdateUnlock, InCall, gicvars
<1>2. lock = c
  BY <1>1 DEF IrqInv, LockInv
<1>3. call'[c].pc = "idle" /\ \A d \in Cpus \ {c} : call'[d] = call[d]
  BY <1>1 DEF IrqInv, TypeInv, Idle
<1>4. TypeInv'
  BY <1>1 DEF IrqInv, TypeInv
<1>5. LockInv'
  BY <1>1, <1>2, <1>3 DEF IrqInv, LockInv
<1>6. EntryInv'
  BY <1>1, <1>3 DEF IrqInv, EntryInv
<1>7. FrameInv' /\ ActiveInv'
  BY <1>1 DEF IrqInv, FrameInv, ActiveInv
<1> QED
  BY <1>4, <1>5, <1>6, <1>7 DEF IrqInv

(* -------------------------------------------------------------- other calls *)

\* pal_irq_enable and pal_irq_disable touch neither handlers nor the lock.
LEMMA EnableInv ==
  ASSUME IrqInv, NEW c \in Cpus,
         \/ \E q \in Irqs : EnableStart(c, q) \/ pal_irq_disable(c, q)
         \/ EnableFinish(c)
  PROVE  IrqInv'
<1> DEFINE Effect ==
        /\ UNCHANGED <<handler, lock, pending, active, frame, left>>
        /\ route' \in [Spis -> Cpus]
        /\ \/ UNCHANGED call
           \/ call' = [call EXCEPT ![c] = Idle]
           \/ \E q \in Irqs : call' = [call EXCEPT ![c] = [pc |-> "enable", i |-> q]]
<1>1. Effect
  <2>1. ASSUME NEW q \in Irqs, EnableStart(c, q) PROVE Effect
    BY <2>1, IrqAssumption, SMTT(60) DEF EnableStart, Halt, gicvars, gicv3_set_intr_route, mpidr_list,
                               IrqInv, TypeInv
  <2>2. ASSUME NEW q \in Irqs, pal_irq_disable(c, q) PROVE Effect
    BY <2>2 DEF pal_irq_disable, Halt, gicvars, IrqInv, TypeInv
  <2>3. CASE EnableFinish(c)
    BY <2>3 DEF EnableFinish, IrqInv, TypeInv
  <2> QED
    BY <2>1, <2>2, <2>3
<1>2. \A d \in Cpus : call'[d] = call[d] \/ call'[d].pc \in {"idle", "enable"}
  BY <1>1, SMTT(60) DEF IrqInv, TypeInv, Idle
<1>3. TypeInv'
  BY <1>1, SMTT(60) DEF IrqInv, TypeInv, Enabling
<1>4. LockInv'
  BY <1>1, <1>2 DEF IrqInv, LockInv
<1>5. EntryInv'
  BY <1>1, <1>2 DEF IrqInv, EntryInv
<1>6. FrameInv' /\ ActiveInv'
  BY <1>1 DEF IrqInv, FrameInv, ActiveInv
<1> QED
  BY <1>3, <1>4, <1>5, <1>6 DEF IrqInv

\* Sending an SGI, raising a line and switching the group off change what is
\* pending or forwarded and nothing the invariant relates.
LEMMA PendingInv ==
  ASSUME IrqInv,
         \/ \E c, d \in Cpus, q \in Privates : pal_send_sgi(c, q, d)
         \/ \E c \in Cpus : gicv3_configure_secure_gic_intr_enable(c)
         \/ \E l \in Lines : Raise(l)
  PROVE  IrqInv'
<1>1. /\ UNCHANGED <<handler, lock, active, route, call, frame, left>>
      /\ pending' \subseteq Lines
  BY IrqAssumption, SMTT(60) DEF pal_send_sgi, gicv3_send_sgi, mpidr_list, Raise, Lines,
        gicv3_configure_secure_gic_intr_enable, IrqInv, TypeInv
<1> QED
  BY <1>1 DEF IrqInv, TypeInv, LockInv, EntryInv, FrameInv, ActiveInv

\* A realm's test that completes an interrupt takes it out of both sets.
LEMMA EndOfIntrCallInv ==
  ASSUME IrqInv, NEW c \in Cpus, NEW q \in Irqs, pal_gic_end_of_intr(c, q)
  PROVE  IrqInv'
<1>1. /\ active' = active \ {<<Line(c, q), c>>} /\ left' = left \ {<<Line(c, q), c>>}
      /\ UNCHANGED <<handler, lock, pending, route, call, frame>>
  BY DEF pal_gic_end_of_intr
<1>2. ActiveInv'
  BY <1>1 DEF IrqInv, ActiveInv
<1>3. TypeInv' /\ LockInv' /\ EntryInv' /\ FrameInv'
  BY <1>1 DEF IrqInv, TypeInv, LockInv, EntryInv, FrameInv
<1> QED
  BY <1>2, <1>3 DEF IrqInv

(* ----------------------------------------------------------- the dispatcher *)

\* Steps of the dispatcher change neither handlers nor calls; what is left to show
\* concerns frames and active lines.
LEMMA DispatcherInv ==
  ASSUME IrqInv, NEW c \in Cpus,
         UNCHANGED <<handler, lock, route, call>>,
         frame' = [frame EXCEPT ![c] = frame'[c]],
         frame'[c] \in {NoFrame} \cup [st : {"ack"}] \cup Holding,
         pending' \subseteq Lines,
         active' \subseteq Lines \X Cpus,
         /\ frame'[c].st = "check" /\ frame'[c].line # Spurious
              => frame'[c].line[1] \in {"spi", c}
         /\ frame'[c].st \in {"call", "eoi", "crashed"} =>
              frame'[c].line # Spurious /\ frame'[c].line[1] \in {"spi", c}
         /\ frame'[c].st = "call" /\ frame'[c].line[1] # "spi" => handler[frame'[c].line] # Null
         /\ frame'[c].st = "crashed" => frame'[c].line[1] = "spi",
         \A d \in Cpus \ {c}, l \in Lines :
            /\ <<l, d>> \in active' => <<l, d>> \in active
            /\ <<l, d>> \in left => <<l, d>> \in left',
         \A l \in Lines : <<l, c>> \in active' =>
            \/ frame'[c].st \in {"check", "call", "eoi", "crashed"} /\ frame'[c].line = l
            \/ <<l, c>> \in left'
  PROVE  IrqInv'
<1>1. \A d \in Cpus \ {c} : frame'[d] = frame[d]
  BY SMTT(60) DEF IrqInv, TypeInv
<1>2. TypeInv'
  BY DEF IrqInv, TypeInv
<1>3. LockInv' /\ EntryInv'
  BY DEF IrqInv, LockInv, EntryInv
<1>4. FrameInv'
  BY <1>1, SMTT(60) DEF IrqInv, FrameInv
<1>5. ActiveInv'
  BY <1>1 DEF IrqInv, ActiveInv
<1> QED
  BY <1>2, <1>3, <1>4, <1>5 DEF IrqInv

\* The exception is taken on a CPU that is in no dispatcher.
LEMMA TakeIrqInv ==
  ASSUME IrqInv, NEW c \in Cpus, TakeIrq(c)
  PROVE  IrqInv'
<1>1. /\ frame[c] = NoFrame
      /\ frame' = [frame EXCEPT ![c] = [st |-> "ack"]]
      /\ UNCHANGED <<handler, lock, pending, active, route, call, left>>
  BY DEF TakeIrq, gicvars
<1>2. frame'[c] = [st |-> "ack"] /\ frame'[c].st = "ack"
  BY <1>1 DEF IrqInv, TypeInv
<1>3. \A l \in Lines : <<l, c>> \in active => <<l, c>> \in left
  BY <1>1, SMTT(60) DEF IrqInv, ActiveInv, NoFrame
<1> QED
  BY <1>1, <1>2, <1>3, DispatcherInv DEF IrqInv, TypeInv

\* A line is acknowledged only on a CPU on which none is active, and only one
\* that is its own or an SPI.
LEMMA AcknowledgeInv ==
  ASSUME IrqInv, NEW c \in Cpus, Acknowledge(c)
  PROVE  IrqInv'
<1>1. ASSUME NEW l \in Signalled(c),
             InFrame(c, "ack", [st |-> "check", line |-> l]),
             pending' = pending \ {l}, active' = active \cup {<<l, c>>},
             UNCHANGED <<handler, left>>
      PROVE  IrqInv'
  <2>1. l \in Lines /\ Target(l) = c /\ \A a \in active : a[2] # c
    BY <1>1 DEF Signalled, Waiting, IrqInv, TypeInv
  <2>2. l[1] \in {"spi", c}
    BY <2>1 DEF Target
  <2>3. /\ frame' = [frame EXCEPT ![c] = [st |-> "check", line |-> l]]
        /\ UNCHANGED <<handler, lock, route, call, left>>
    BY <1>1 DEF InFrame
  <2>4. frame'[c] = [st |-> "check", line |-> l] /\ frame'[c] \in Holding
    BY <2>1, <2>3 DEF IrqInv, TypeInv, Holding
  <2>5. frame'[c].st = "check" /\ frame'[c].line = l
    BY <2>4, SMTT(60)
  <2>6. \A m \in Lines : <<m, c>> \in active' => m = l
    BY <1>1, <2>1
  <2>7. \A d \in Cpus \ {c}, m \in Lines : <<m, d>> \in active' => <<m, d>> \in active
    BY <1>1
  <2>8. pending' \subseteq Lines /\ active' \subseteq Lines \X Cpus
    BY <1>1, <2>1, SMTT(60) DEF IrqInv, TypeInv
  <2> QED
    BY <2>2, <2>3, <2>4, <2>5, <2>6, <2>7, <2>8, DispatcherInv
<1>2. CASE /\ InFrame(c, "ack", [st |-> "check", line |-> Spurious])
           /\ UNCHANGED <<handler, pending, active, left>>
  <2>1. /\ frame[c].st = "ack"
        /\ frame' = [frame EXCEPT ![c] = [st |-> "check", line |-> Spurious]]
        /\ UNCHANGED <<handler, lock, route, call, left, pending, active>>
    BY <1>2 DEF InFrame
  <2>2. frame'[c] = [st |-> "check", line |-> Spurious] /\ frame'[c] \in Holding
    BY <2>1 DEF IrqInv, TypeInv, Holding
  <2>3. frame'[c].st = "check" /\ frame'[c].line = Spurious
    BY <2>2, SMTT(60)
  <2>4. \A l \in Lines : <<l, c>> \in active => <<l, c>> \in left
    BY <2>1 DEF IrqInv, ActiveInv
  <2> QED
    BY <2>1, <2>2, <2>3, <2>4, DispatcherInv DEF IrqInv, TypeInv
<1> QED
  BY <1>1, <1>2 DEF Acknowledge

\* What the dispatcher finds in the table for the line it holds.
LEMMA EntryOfLine ==
  ASSUME IrqInv, NEW c \in Cpus, frame[c].st \in {"check", "call", "eoi"}
  PROVE  /\ frame[c] \in Holding
         /\ frame[c].line = Spurious => Entry(c) = Null
         /\ frame[c].line # Spurious => /\ frame[c].line \in Lines
                                        /\ frame[c].line[1] \in {"spi", c}
                                        /\ Entry(c) = handler[frame[c].line]
<1>1. frame[c] \in Holding
  BY SMTT(60) DEF IrqInv, TypeInv, NoFrame
<1>2. frame[c].line # Spurious => frame[c].line \in Lines /\ frame[c].line[1] \in {"spi", c}
  BY <1>1 DEF Holding, IrqInv, FrameInv
<1> QED
  BY <1>1, <1>2, OwnEntry DEF Entry

\* A line is called only when its handler was there; one without a handler is left.
LEMMA CheckHandlerInv ==
  ASSUME IrqInv, NEW c \in Cpus, CheckHandler(c)
  PROVE  IrqInv'
<1>1. frame[c].st = "check" /\ UNCHANGED <<handler, lock, route, call, pending, active>>
  BY DEF CheckHandler, InFrame
<1>2. \A l \in Lines : <<l, c>> \in active => frame[c].line = l \/ <<l, c>> \in left
  BY DEF IrqInv, ActiveInv
<1>3. CASE /\ Entry(c) # Null /\ UNCHANGED left
           /\ InFrame(c, "check", [frame[c] EXCEPT !.st = "call"])
  <2>1. /\ frame[c] \in Holding /\ frame[c].line # Spurious /\ frame[c].line[1] \in {"spi", c}
        /\ handler[frame[c].line] # Null
    BY <1>1, <1>3, EntryOfLine
  <2>2. frame' = [frame EXCEPT ![c] = [frame[c] EXCEPT !.st = "call"]]
    BY <1>3 DEF InFrame
  <2>3. frame'[c] = [frame[c] EXCEPT !.st = "call"]
    BY <2>2 DEF IrqInv, TypeInv
  <2>4. frame'[c] \in Holding /\ frame'[c].st = "call" /\ frame'[c].line = frame[c].line
    BY <2>1, <2>3 DEF Holding
  <2> QED
    BY <1>1, <1>2, <1>3, <2>1, <2>2, <2>3, <2>4, DispatcherInv DEF IrqInv, TypeInv
<1>4. CASE /\ InFrame(c, "check", NoFrame)
           /\ left' = IF frame[c].line = Spurious THEN left ELSE left \cup {<<frame[c].line, c>>}
  <2>1. frame' = [frame EXCEPT ![c] = NoFrame]
    BY <1>4 DEF InFrame
  <2>2. frame'[c] = NoFrame /\ frame'[c].st = "none"
    BY <2>1 DEF IrqInv, TypeInv, NoFrame
  <2>3. Spurious \notin Lines
    BY IrqAssumption, SMTT(60) DEF Lines
  <2>4. \A l \in Lines : <<l, c>> \in active => <<l, c>> \in left'
    BY <1>2, <1>4, <2>3
  <2>5. \A d \in Cpus, l \in Lines : <<l, d>> \in left => <<l, d>> \in left'
    BY <1>4
  <2> QED
    BY <1>1, <2>1, <2>2, <2>4, <2>5, DispatcherInv DEF IrqInv, TypeInv
<1> QED
  BY <1>3, <1>4 DEF CheckHandler

\* The second read finds no handler only for an SPI.
LEMMA CallHandlerInv ==
  ASSUME IrqInv, NEW c \in Cpus, CallHandler(c)
  PROVE  IrqInv'
<1> DEFINE st == IF Entry(c) = Null THEN default_sync_current_exception ELSE "eoi"
<1>1. /\ frame[c].st = "call" /\ UNCHANGED <<handler, lock, route, call, pending, active, left>>
      /\ frame' = [frame EXCEPT ![c] = [frame[c] EXCEPT !.st = st]]
  BY DEF CallHandler, InFrame
<1>2. /\ frame[c] \in Holding /\ frame[c].line # Spurious /\ frame[c].line[1] \in {"spi", c}
      /\ frame[c].line[1] # "spi" => Entry(c) # Null
  BY <1>1, EntryOfLine DEF IrqInv, FrameInv
<1>3. st \in {"eoi", "crashed"} /\ (st = "crashed" => frame[c].line[1] = "spi")
  BY <1>2 DEF default_sync_current_exception
<1> HIDE DEF st
<1>4. frame'[c] = [frame[c] EXCEPT !.st = st]
  BY <1>1 DEF IrqInv, TypeInv
<1>5. frame'[c] \in Holding /\ frame'[c].st = st /\ frame'[c].line = frame[c].line
  BY <1>2, <1>3, <1>4 DEF Holding
<1>6. \A l \in Lines : <<l, c>> \in active => frame[c].line = l \/ <<l, c>> \in left
  BY DEF IrqInv, ActiveInv
<1> QED
  BY <1>1, <1>2, <1>3, <1>4, <1>5, <1>6, DispatcherInv DEF IrqInv, TypeInv

\* The line is completed, or left to the realm's test.
LEMMA EndOfIntrInv ==
  ASSUME IrqInv, NEW c \in Cpus, EndOfIntr(c)
  PROVE  IrqInv'
<1>1. /\ frame[c].st = "eoi" /\ UNCHANGED <<handler, lock, route, call, pending>>
      /\ frame' = [frame EXCEPT ![c] = NoFrame]
      /\ \/ active' = active /\ left' = left \cup {<<frame[c].line, c>>}
         \/ active' = active \ {<<frame[c].line, c>>} /\ left' = left
  BY DEF EndOfIntr, InFrame
<1>2. frame'[c] = NoFrame /\ frame'[c].st = "none"
  BY <1>1 DEF IrqInv, TypeInv, NoFrame
<1>3. \A l \in Lines : <<l, c>> \in active => frame[c].line = l \/ <<l, c>> \in left
  BY DEF IrqInv, ActiveInv
<1>4. \A l \in Lines : <<l, c>> \in active' => <<l, c>> \in left'
  BY <1>1, <1>3
<1>5. \A d \in Cpus \ {c}, l \in Lines :
         /\ <<l, d>> \in active' => <<l, d>> \in active
         /\ <<l, d>> \in left => <<l, d>> \in left'
  BY <1>1
<1>6. active' \subseteq Lines \X Cpus
  BY <1>1 DEF IrqInv, TypeInv
<1> QED
  BY <1>1, <1>2, <1>4, <1>5, <1>6, DispatcherInv DEF IrqInv, TypeInv

(* ----------------------------------------------------------------- theorems *)

\* Every step keeps the invariant.
LEMMA NextInv == IrqInv /\ [IrqNext]_irqvars => IrqInv'
<1> SUFFICES ASSUME IrqInv, [IrqNext]_irqvars PROVE IrqInv'
  OBVIOUS
<1>1. CASE UNCHANGED irqvars
  BY <1>1 DEF irqvars, IrqInv, TypeInv, LockInv, EntryInv, FrameInv, ActiveInv
<1>2. ASSUME NEW c \in Cpus, Calls(c) PROVE IrqInv'
  BY <1>2, UpdateStartInv, EnableInv, PendingInv, EndOfIntrCallInv DEF Calls
<1>3. ASSUME NEW c \in Cpus, Step(c) PROVE IrqInv'
  BY <1>3, UpdateLockInv, UpdateCheckInv, UpdateWriteInv, UpdateUnlockInv, EnableInv,
     AcknowledgeInv, CheckHandlerInv, CallHandlerInv, EndOfIntrInv DEF Step
<1>4. ASSUME NEW c \in Cpus, TakeIrq(c) PROVE IrqInv'
  BY <1>4, TakeIrqInv
<1>5. CASE \E l \in Lines : Raise(l)
  BY <1>5, PendingInv
<1> QED
  BY <1>1, <1>2, <1>3, <1>4, <1>5 DEF IrqNext

\* The invariant of the handler tables, the lock and the dispatchers of pal_irq.c.
THEOREM IrqInvariant == IrqSpec => []IrqInv
BY IrqInitInv, NextInv, PTL DEF IrqSpec

\* pal_irq_handler_dispatcher calls through a null handler only for an SPI, and a line
\* is active only while it is dispatched or because it was left, for any CPUs.
THEOREM SoundDispatch == IrqSpec => []DispatchSound
<1>1. IrqInv => DispatchSound
  BY DEF IrqInv, FrameInv, ActiveInv, DispatchSound
<1> QED
  BY <1>1, IrqInvariant, PTL

\* A step changes a registered handler only by taking it out.
LEMMA StepKeepsHandlers ==
  ASSUME IrqInv, [IrqNext]_irqvars
  PROVE  \A l \in Lines : handler[l] # Null => handler'[l] \in {handler[l], Null}
<1>1. CASE UNCHANGED handler
  BY <1>1
<1>2. ASSUME NEW c \in Cpus, UpdateWrite(c)
      PROVE  \A l \in Lines : handler[l] # Null => handler'[l] \in {handler[l], Null}
  <2> DEFINE e == get_irq_handler(c, call[c].i)
  <2>1. call[c].pc = "write" /\ handler' = [handler EXCEPT ![e] = call[c].h]
    BY <1>2 DEF UpdateWrite, InCall
  <2>2. (handler[e] = Null) = (call[c].h # Null)
    BY <2>1 DEF IrqInv, EntryInv
  <2> HIDE DEF e
  <2> QED
    BY <2>1, <2>2 DEF IrqInv, TypeInv
<1>3. UNCHANGED handler \/ \E c \in Cpus : UpdateWrite(c)
  <2>1. ASSUME NEW c \in Cpus, Calls(c) PROVE UNCHANGED handler
    BY <2>1 DEF Calls, UpdateStart, EnableStart, pal_irq_disable, pal_gic_end_of_intr,
                pal_send_sgi, gicv3_configure_secure_gic_intr_enable
  <2>2. ASSUME NEW c \in Cpus, Step(c) PROVE UNCHANGED handler \/ UpdateWrite(c)
    BY <2>2 DEF Step, UpdateLock, UpdateCheck, UpdateUnlock, EnableFinish, Acknowledge,
                CheckHandler, CallHandler, EndOfIntr
  <2>3. ASSUME NEW c \in Cpus, TakeIrq(c) PROVE UNCHANGED handler
    BY <2>3 DEF TakeIrq
  <2>4. ASSUME NEW l \in Lines, Raise(l) PROVE UNCHANGED handler
    BY <2>4 DEF Raise
  <2> QED
    BY <2>1, <2>2, <2>3, <2>4 DEF IrqNext, irqvars
<1> QED
  BY <1>1, <1>2, <1>3

\* pal_irq_register_handler never replaces a handler, whichever CPUs register for the
\* same SPI at the same time and in whatever order they get spi_lock.
THEOREM HandlersStay == IrqSpec => HandlersKept
<1>1. IrqInv /\ [IrqNext]_irqvars =>
        [\A l \in Lines : handler[l] # Null => handler'[l] \in {handler[l], Null}]_irqvars
  BY StepKeepsHandlers
<1> QED
  BY <1>1, IrqInvariant, PTL DEF IrqSpec, HandlersKept
============================================================================
