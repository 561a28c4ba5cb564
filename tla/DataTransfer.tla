---------------------------- MODULE DataTransfer ----------------------------
(***************************************************************************)
(* What a data transfer of the boot loader protocol promises: the copy is  *)
(* at any time a prefix of the data, and only a whole copy is reported as  *)
(* a success.  Data and copy are given by offsets: byte n of a correct     *)
(* copy is n.                                                              *)
(***************************************************************************)
EXTENDS Integers, Sequences

VARIABLES
  count,  \* the number of bytes to transfer
  copy,   \* the bytes at the other end
  result  \* "busy", "whole" or "failed"

vars == <<count, copy, result>>

(* The bytes from one offset up to another.                                *)
Bytes(from, to) == [n \in 1 .. to - from |-> from + n - 1]

Init ==
  /\ count \in Nat \ {0}
  /\ copy = <<>>
  /\ result = "busy"

Copy(n) ==
  /\ result = "busy"
  /\ copy' = copy \o Bytes(Len(copy), Len(copy) + n)
  /\ UNCHANGED <<count, result>>

Succeed ==
  /\ result = "busy" /\ Len(copy) = count
  /\ result' = "whole"
  /\ UNCHANGED <<count, copy>>

Fail ==
  /\ result = "busy"
  /\ result' = "failed"
  /\ UNCHANGED <<count, copy>>

Next == Succeed \/ Fail \/ \E n \in 1 .. count - Len(copy) : Copy(n)

Spec == Init /\ [][Next]_vars
=============================================================================
