------------------------------ MODULE MCLpcIsp -------------------------------
(* One part of two sectors of a page each, and the commands that erase and *)
(* write it, with right and wrong arguments.                               *)
EXTENDS LpcIsp

Encoded == [part_id |-> 10000, flash_size |-> 1024, flash_nb_sectors |-> 2,
            ram_size |-> 1024, ram_buff_offset |-> 512, ram_buff_size |-> 512,
            uuencode |-> 1]
OnePart == {Encoded}
NoParts == {}

Data  == [name |-> "data", readable |-> TRUE, size |-> 512, vectors |-> TRUE,
          crp |-> FALSE, entry |-> "thumb"]
Gone  == [Data EXCEPT !.name = "gone", !.readable = FALSE]
Empty == [Data EXCEPT !.name = "empty", !.size = 0]
SomeFiles == {Data, Gone, Empty}

Basic(c) == [cmd |-> c, wrong |-> 0, first |-> 0, last |-> 0, page |-> 0,
             file |-> NoFile, mapped |-> TRUE, encode |-> TRUE]

SomeInvocations ==
  {Basic(c) : c \in {"sync", "unlock", "part-id", "uid", "go", "read", "compare"}} \cup
  {[Basic(c) EXCEPT !.last = 1] : c \in Sectorial} \cup
  {[Basic("erase") EXCEPT !.first = 1], [Basic("blank") EXCEPT !.last = 2],
   [Basic("prepare") EXCEPT !.last = 2]} \cup
  {[Basic("write") EXCEPT !.file = f] : f \in SomeFiles} \cup
  {[Basic("write") EXCEPT !.file = Data, !.encode = FALSE],
   [Basic("copy") EXCEPT !.page = 1], [Basic("copy") EXCEPT !.mapped = FALSE],
   [Basic("prepare") EXCEPT !.first = 1, !.last = 1],
   [Basic("compare") EXCEPT !.wrong = -7], [Basic("read") EXCEPT !.encode = FALSE]}

FewRefusals == {11}
FewWords    == {7}
=============================================================================
