----------------------------- MODULE IspCommands -----------------------------
(***************************************************************************)
(* What lpcprog and lpcisp share: one command of the boot loader, as       *)
(* isp_commands.c writes it to the line and reads its answer off the line. *)
(*                                                                         *)
(* A command is two steps of the host: one writes the line, the other (the *)
(* rest of the C function and what its caller does with the code) reads    *)
(* the answer or times out.                                                *)
(***************************************************************************)
EXTENDS IspTarget

CONSTANTS
  SlowLine,  \* answers may arrive after the host has stopped waiting for them
  NoisyLine  \* the data of a block may be altered or lost

VARIABLES
  pc,        \* where the program is; "idle": not running, "exit": it returned
  asked      \* "no" question open, one "sent", or the write "failed"

(***************************************************************************)
(* Writing to the line and reading from it.                                *)
(***************************************************************************)

(* What a read may leave behind of the text in s: on a fast line nothing,  *)
(* on a slow one whatever had not arrived yet.                             *)
Remainders(s) ==
  IF SlowLine THEN {SubSeq(s, n, Len(s)) : n \in 1 .. Len(s) + 1} ELSE {<<>>}

(* A line that never gets there, or gets there without its end.            *)
Lost ==
  /\ UNCHANGED rx
  /\ \/ UNCHANGED target
     \/ /\ mode = "synced" /\ pending = "line"
        /\ pending' = "stray"
        /\ UNCHANGED <<mode, echo, unlocked, prepared, ram, flash>>

(* isp_serial_write of one line, heard by the target as the action heard   *)
(* says; it gives up after 500 ms with only part of the line written.      *)
Send(at, heard) ==
  /\ pc = at /\ asked = "no"
  /\ \/ (heard \/ Lost) /\ asked' = "sent"
     \/ Lost /\ asked' = "failed"
  /\ UNCHANGED <<part, pc>>

(* The outcomes of isp_send_cmd_no_args, _two_args, _address and _sectors: *)
(* the code returned, and the text not read yet.  Of a long number the     *)
(* remaining digits are not read: they make another number.                *)
Digits(t) == IF NumberOf(t) > LargestRead THEN {<<w>> : w \in Words} ELSE {<<>>}

(* Mutant of Replies: no read ever gives up.                               *)
RepliesForEver ==
  IF asked = "failed" \/ rx = <<>> THEN {}
  ELSE {[code |-> CodeOf(Head(rx)), rest |-> d \o Tail(rx)] : d \in Digits(Head(rx))}

Replies ==
  IF asked = "failed" THEN {[code |-> -5, rest |-> rx]}
  ELSE (IF rx = <<>> THEN {}
        ELSE {[code |-> CodeOf(Head(rx)), rest |-> d \o Tail(rx)] : d \in Digits(Head(rx))})
       \cup {[code |-> -4, rest |-> <<>>]}
       \cup (IF SlowLine THEN {[code |-> -4, rest |-> rx]} ELSE {})

Reading(at) == pc = at /\ asked # "no" /\ asked' = "no"

Unread(s) == rx' = s /\ UNCHANGED <<part, target>>

(***************************************************************************)
(* The answers isp_connect looks for.                                      *)
(***************************************************************************)
Greeted      == asked = "sent" /\ rx # <<>> /\ Head(rx) = SYNCHRO

(* The echoed line is thrown away, then "OK" should follow.                *)
Acknowledged == Len(rx) >= 2 /\ rx[2] = SYNCHRO_OK

(* What the read after a text of the handshake finds: that "OK", another   *)
(* line, or nothing in time, which the code does not look at: the buffer   *)
(* then still holds the answer to the text before.                         *)
Acknowledges ==
  (IF Len(rx) < 2 THEN {}
   ELSE {[found |-> IF Acknowledged THEN "ok" ELSE "other", rest |-> s] :
           s \in Remainders(SubSeq(rx, 3, Len(rx)))})
  \cup {[found |-> "none", rest |-> s] : s \in Remainders(rx) \cup {<<>>}}

(* Mutant of PartIds: the last line that came is taken for the id.         *)
PartIdsLastLine(g) ==
  IF g.code # 0 THEN {[id |-> g.code, rest |-> g.rest]}
  ELSE {[id |-> -2, rest |-> s] : s \in Remainders(g.rest) \cup {<<>>}} \cup
       (IF g.rest = <<>> THEN {}
        ELSE {[id |-> NumberOf(g.rest[Len(g.rest)]), rest |-> <<>>]})

(* isp_cmd_part_id: a refusal is returned as if it were the id; the number *)
(* after the code is the id, and a missing one is -2.                      *)
PartIds(g) ==
  IF g.code # 0 THEN {[id |-> g.code, rest |-> g.rest]}
  ELSE {[id |-> -2, rest |-> s] : s \in Remainders(g.rest) \cup {<<>>}} \cup
       (IF g.rest = <<>> THEN {}
        ELSE {[id |-> NumberOf(Head(g.rest)), rest |-> s] : s \in Remainders(Tail(g.rest))})

(* isp_read_memory answers each block of encoded text with "OK" or         *)
(* "RESEND": when the last one does not get there, the target still waits  *)
(* for it, and takes the next line for no command.                         *)
LeftWaiting(code, encoded) ==
  IF code = 0 /\ encoded /\ mode = "synced" THEN {pending, "stray"} ELSE {pending}

(***************************************************************************)
(* The data of isp_send_buf_to_ram.                                        *)
(***************************************************************************)
InRam(page) ==
  /\ mode = "synced" /\ pending = "data"
  /\ ram' = page /\ pending' = "line"
  /\ UNCHANGED <<mode, echo, unlocked, prepared, flash>>

(* What is left of a transfer that broke off, or that the target did not   *)
(* take for data.                                                          *)
Spilled(page) ==
  \/ UNCHANGED target
  \/ /\ mode = "synced"
     /\ ram' \in {ram, page, Garbage} /\ pending' \in {"line", "stray", "data"}
     /\ UNCHANGED <<mode, echo, unlocked, prepared, flash>>
=============================================================================
