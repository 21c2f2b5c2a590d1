------------------------------ MODULE SeqList ------------------------------
(***************************************************************************)
(* What the NS list of the granule tracker is for: a sequence of granule   *)
(* addresses, added at the end, taken out wherever they are, and empty at  *)
(* the start of every test.                                                *)
(***************************************************************************)
EXTENDS Sequences, SequencesExt

CONSTANT PA

VARIABLE seq

Init == seq = <<>>
Added(s, t) == \E pa \in PA : t = Append(s, pa)
TakenOut(s, t) == \E i \in DOMAIN s : t = RemoveAt(s, i)

Next == LET old == seq
            new == seq'
        IN Added(old, new) \/ TakenOut(old, new) \/ new = <<>>
Spec == Init /\ [][Next]_seq
============================================================================
