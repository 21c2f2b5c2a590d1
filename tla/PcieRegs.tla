----------------------------- MODULE PcieRegs -----------------------------
(***************************************************************************)
(* The registers of one device: the controls of its configuration space,   *)
(* the check of a bit field against its specification, and the registers   *)
(* of an exerciser.                                                        *)
(*                                                                         *)
(* A register is the set of its bits that are one.  The host reads and     *)
(* writes whole registers, one access per step; in between the device may  *)
(* record an error by setting a bit that is cleared by writing one to it.  *)
(***************************************************************************)
EXTENDS Naturals, Sequences

CONSTANTS MaxOps,     \* bound: operations on the device
          MaxErrors,  \* bound: errors the device records
          Field       \* bits of the field that is checked

ASSUME RegsAssumption == MaxOps \in Nat /\ MaxErrors \in Nat

VARIABLES reg,      \* [register -> set of bits]
          prog,     \* the operation in progress and its remaining updates
          rd,       \* what its last read returned
          chk,      \* the bit field check in progress, or its verdict
          ops, errors

regvars == <<reg, prog, rd, chk, ops, errors>>

\* Bits cleared by writing one to them
W1C == {"STA", "SSTA", "CED", "URD", "s"}

\* Errors are recorded outside the field.
ASSUME FieldAssumption == Field \cap W1C = {}

Registers == {"CR", "SEC_STA", "DCTLR", "DMACTL1", "MSICTL", "INTXCTL", "RID",
              "BF"}

\* A write to a register.  In the register under check only the bits chk.rw of
\* the field are writable.
Fixed(r) == IF r = "BF" THEN Field \ chk.rw ELSE {}
Written(r, old, v) == ((v \ W1C) \ Fixed(r)) \cup (old \cap Fixed(r)) \cup ((old \cap W1C) \ v)

(* ---------------------------------------------- read-modify-write programs *)

\* One update: read the register, drop some bits, set others, write it back.
Update(r, drop, set) == [reg |-> r, drop |-> drop, set |-> set]

val_pcie_enable_bme == <<Update("CR", {}, {"BME"})>>
val_pcie_disable_bme == <<Update("CR", {"BME"}, {})>>
val_pcie_enable_msa == <<Update("CR", {}, {"MSE"})>>
val_pcie_disable_msa == <<Update("CR", {"MSE"}, {})>>

\* The mask of the control half is forgotten: the status bits read are written back.
clear_urd_unmasked == <<Update("DCTLR", {}, {"URD"})>>

val_pcie_clear_urd == <<Update("DCTLR", {"CED", "URD"}, {"URD"})>>

val_pcie_clear_device_status_error == <<Update("DCTLR", {}, {"CED", "URD"})>>

val_pcie_clear_sig_target_abort ==
    <<Update("CR", {}, {"STA"}), Update("SEC_STA", {}, {"SSTA"})>>

val_pcie_enable_eru == <<Update("CR", {}, {"SERRE"}), Update("DCTLR", {}, {"ERE"})>>
val_pcie_disable_eru == <<Update("CR", {"SERRE"}, {}), Update("DCTLR", {"ERE"}, {})>>

\* Sets bit 4, not SERRE (bit 8).
val_pcie_mem_enable == <<Update("CR", {}, {"IOE", "MSE", "BME", "bit4"})>>

val_exerciser_init == <<Update("CR", {}, {"MSE", "BME"})>>

\* The bits of the address type are set and never cleared.
set_address_type(bits) == <<Update("DMACTL1", {}, bits)>>

set_pasid_length(bits) == <<Update("DMACTL1", {"len"}, bits)>>

start_dma(from) ==
    <<Update("DMACTL1", IF from THEN {} ELSE {"from"}, IF from THEN {"from"} ELSE {}),
      Update("DMACTL1", {}, {"trigger"})>>

\* All that pal_exerciser_set_param and pal_exerciser_ops do to shared registers
pal_exerciser_ops ==
    [start_dma_from |-> start_dma(TRUE), start_dma_to |-> start_dma(FALSE),
     generate_msi_0 |-> <<Update("MSICTL", {}, {"msi"})>>,
     generate_msi_1 |-> <<Update("MSICTL", {}, {"msi", "index"})>>,
     generate_intx |-> <<Update("INTXCTL", {}, {"intx"})>>,
     clear_intr |-> <<Update("INTXCTL", {"intx"}, {})>>,
     pasid_start |-> <<Update("DMACTL1", {}, {"pasid"})>>,
     pasid_stop |-> <<Update("DMACTL1", {"pasid"}, {})>>,
     no_snoop_enable |-> <<Update("DMACTL1", {}, {"no_snoop"})>>,
     no_snoop_disable |-> <<Update("DMACTL1", {"no_snoop"}, {})>>,
     at_untranslated |-> set_address_type({"at0"}),
     at_translated |-> set_address_type({"at1"}),
     pasid_16 |-> set_pasid_length({}), pasid_17 |-> set_pasid_length({"len"}),
     req_id |-> <<Update("RID", {}, {"rid", "valid"})>>,
     req_id_valid |-> <<Update("RID", {}, {"valid"})>>,
     req_id_invalid |-> <<Update("RID", {"rid", "valid"}, {})>>]

Control ==
    [enable_bme |-> val_pcie_enable_bme, disable_bme |-> val_pcie_disable_bme,
     enable_msa |-> val_pcie_enable_msa, disable_msa |-> val_pcie_disable_msa,
     clear_urd |-> val_pcie_clear_urd,
     clear_error |-> val_pcie_clear_device_status_error,
     clear_abort |-> val_pcie_clear_sig_target_abort,
     enable_eru |-> val_pcie_enable_eru, disable_eru |-> val_pcie_disable_eru,
     mem_enable |-> val_pcie_mem_enable, exerciser_init |-> val_exerciser_init]

Idle == [name |-> "none", todo |-> <<>>]
NoCheck == [pc |-> "none"]
Unread == {"unread"}

(* ---------------------------------------------------------------- accesses *)

StartOp ==
    /\ prog = Idle /\ ops < MaxOps
    /\ \E programs \in {Control, pal_exerciser_ops} : \E n \in DOMAIN programs :
          prog' = [name |-> n, todo |-> programs[n]]
    /\ ops' = ops + 1
    /\ UNCHANGED <<reg, rd, chk, errors>>

ReadReg ==
    /\ prog.todo # <<>> /\ rd = Unread
    /\ rd' = reg[Head(prog.todo).reg]
    /\ UNCHANGED <<reg, prog, chk, ops, errors>>

WriteReg ==
    /\ prog.todo # <<>> /\ rd # Unread
    /\ LET u == Head(prog.todo)
       IN reg' = [reg EXCEPT ![u.reg] = Written(u.reg, @, (rd \ u.drop) \cup u.set)]
    /\ prog' = IF Len(prog.todo) = 1 THEN Idle ELSE [prog EXCEPT !.todo = Tail(@)]
    /\ rd' = Unread
    /\ UNCHANGED <<chk, ops, errors>>

\* External: the device records an error, during a check in the register under
\* check.
DeviceError ==
    /\ errors < MaxErrors
    /\ \/ /\ chk = NoCheck
          /\ \E e \in {<<"CR", "STA">>, <<"SEC_STA", "SSTA">>, <<"DCTLR", "CED">>, <<"DCTLR", "URD">>} :
                reg' = [reg EXCEPT ![e[1]] = @ \cup {e[2]}]
          /\ UNCHANGED chk
       \/ /\ chk # NoCheck
          /\ reg' = [reg EXCEPT !["BF"] = @ \cup {"s"}]
          /\ chk' = [chk EXCEPT !.disturbed = TRUE]
    /\ errors' = errors + 1
    /\ UNCHANGED <<prog, rd, ops>>

(* --------------------------------------------------- the bit field check *)

Entries == [attr : {"RO", "RSVDP", "RSVDZ", "RW", "invalid"}, value : SUBSET Field,
            cap : BOOLEAN, warn : {{}, {1, 2}}]

Toggled(v) == (v \ Field) \cup (Field \ v)

Done(verdict) == [chk EXCEPT !.pc = "done", !.verdict = verdict]

\* A mismatch of kind k is forgiven when its message is a warning.
Mismatch(k) == IF k \in chk.e.warn THEN 0 ELSE 1

\* A check of any register, whatever it holds and whichever bits are writable.
\* Bound: the operations above touch other registers and are not mixed with it.
StartCheck ==
    /\ ops = 0 /\ errors = 0
    /\ \E e \in Entries, v \in SUBSET (Field \cup {"n", "s"}), rw \in SUBSET Field :
          /\ reg' = [reg EXCEPT !["BF"] = v]
          /\ chk' = [pc |-> IF e.cap THEN "read0" ELSE "done", e |-> e, rw |-> rw,
                     v |-> {}, ov |-> {}, before |-> v, disturbed |-> FALSE, verdict |-> 1]
    /\ ops' = MaxOps
    /\ UNCHANGED <<prog, rd, errors>>

\* The step at place, which sets the registers to r and the check to c
CheckStep(place, r, c) ==
    /\ chk.pc = place
    /\ reg' = [reg EXCEPT !["BF"] = r]
    /\ chk' = c
    /\ UNCHANGED <<prog, rd, ops, errors>>

BF == reg["BF"]
WriteBF(v) == Written("BF", BF, v)

CheckRead0 == CheckStep("read0", BF, [chk EXCEPT !.pc = "write0", !.v = BF])

\* The status bits are not cleared before the field is tried.
NoWriteBack == CheckStep("write0", BF, [chk EXCEPT !.pc = "read1"])

CheckWriteBack == CheckStep("write0", WriteBF(chk.v), [chk EXCEPT !.pc = "read1"])

CheckValue ==
    CheckStep("read1", BF,
        IF BF \cap Field # chk.e.value THEN Done(Mismatch(1))
        ELSE IF chk.e.attr = "invalid" THEN Done(1)
        ELSE [chk EXCEPT !.pc = "write1", !.v = BF])

CheckTry ==
    LET ov == CASE chk.e.attr \in {"RO", "RW"} -> Toggled(chk.v)
                [] chk.e.attr = "RSVDP" -> chk.v
                [] chk.e.attr = "RSVDZ" -> chk.v \ Field
    IN CheckStep("write1", WriteBF(ov), [chk EXCEPT !.pc = "read2", !.ov = ov])

CheckReadBack ==
    CheckStep("read2", BF,
        CASE chk.e.attr = "RW" ->
                [chk EXCEPT !.pc = "restore",
                            !.verdict = IF BF # chk.ov THEN Mismatch(2) ELSE 0]
          [] chk.e.attr = "RSVDP" -> Done(IF BF \cap Field # {} THEN Mismatch(2) ELSE 0)
          [] OTHER -> Done(IF BF # chk.v THEN Mismatch(2) ELSE 0))

CheckRestore == CheckStep("restore", WriteBF(chk.v), Done(chk.verdict))

val_pcie_bitfield_check ==
    \/ StartCheck \/ CheckRead0 \/ CheckWriteBack \/ CheckValue
    \/ CheckTry \/ CheckReadBack \/ CheckRestore

(* ----------------------------------------------------------- a device *)

RegInit ==
    /\ reg = [r \in Registers |-> {}]
    /\ prog = Idle /\ rd = Unread /\ chk = NoCheck
    /\ ops = 0 /\ errors = 0

RegNext == StartOp \/ ReadReg \/ WriteReg \/ DeviceError \/ val_pcie_bitfield_check

RegSpec == RegInit /\ [][RegNext]_regvars

(* --------------------------------------------------------- properties *)

\* The bits each operation is for
Own(n) ==
    CASE n \in {"enable_bme", "disable_bme"} -> {"BME"}
      [] n \in {"enable_msa", "disable_msa"} -> {"MSE"}
      [] n = "clear_urd" -> {"URD"}
      [] n = "clear_error" -> {"CED", "URD"}
      [] n = "clear_abort" -> {"STA", "SSTA"}
      [] n \in {"enable_eru", "disable_eru"} -> {"SERRE", "ERE"}
      [] n = "mem_enable" -> {"IOE", "MSE", "BME", "bit4"}
      [] n = "exerciser_init" -> {"MSE", "BME"}
      [] n \in {"start_dma_from", "start_dma_to"} -> {"from", "trigger"}
      [] n \in {"generate_msi_0", "generate_msi_1"} -> {"msi", "index"}
      [] n \in {"generate_intx", "clear_intr"} -> {"intx"}
      [] n \in {"pasid_start", "pasid_stop"} -> {"pasid"}
      [] n \in {"no_snoop_enable", "no_snoop_disable"} -> {"no_snoop"}
      [] n \in {"at_untranslated", "at_translated"} -> {"at0", "at1"}
      [] n \in {"pasid_16", "pasid_17"} -> {"len"}
      [] n \in {"req_id", "req_id_valid", "req_id_invalid"} -> {"rid", "valid"}
      [] OTHER -> {}

\* An operation on a register it shares with others changes only its own bits.
\* An error recorded after its read survives its write unless the operation is
\* there to clear it; in the device status register one recorded before does too
\* when the operation clears only unsupported requests.
OnlyOwnBits ==
    [][\A r \in Registers \ {"BF"} :
          LET changed == (reg[r] \ reg'[r]) \cup (reg'[r] \ reg[r])
          IN (prog # Idle /\ errors' = errors) =>
                changed \subseteq Own(prog.name) \cup
                    (IF prog.name = "clear_urd" THEN {} ELSE rd \cap W1C)]_regvars

\* The device conforms to an entry: right value, and bits of the stated kind
Conforms(e) ==
    /\ e.cap /\ chk.before \cap Field = e.value
    /\ CASE e.attr = "RO" -> chk.rw = {}
         [] e.attr = "RW" -> chk.rw = Field
         [] e.attr = "RSVDP" -> e.value = {}
         [] e.attr = "RSVDZ" -> e.value \cap chk.rw = {}
         [] OTHER -> FALSE

\* Unless the device records an error in the same register meanwhile, a check
\* passes exactly the fields that conform, and one that passes leaves every
\* writable bit of the register as it was.
BitfieldVerdict ==
    (chk.pc = "done" /\ ~chk.disturbed /\ chk.e.warn = {}) =>
       /\ chk.verdict = 0 <=> Conforms(chk.e)
       /\ chk.verdict = 0 => BF \ W1C = chk.before \ W1C
==========================================================================
