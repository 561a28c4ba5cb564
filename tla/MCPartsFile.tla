----------------------------- MODULE MCPartsFile -----------------------------
(* The parts file of the repository (lpctools_parts.def), and files of up  *)
(* to three lines of every sort.                                           *)
EXTENDS PartsFile

L(id, v) == [comment |-> FALSE, id |-> id, name |-> "ok", values |-> v]

Shipped ==
  << L(33024,      <<0,  4096,  4, 4, 268435456,  1024,  768,  256, 0>>),
     L(33058,      <<0, 16384, 16, 4, 268435456,  4096, 2048, 1024, 0>>),
     L(624955435,  <<0, 32768,  8, 4, 268435456,  8192, 2048, 1024, 1>>),
     L(1300234283, <<0, 32768,  8, 4, 268435456,  8192, 2048, 1024, 1>>),
     L(910213163,  <<0, 32768,  8, 4, 268435456,  4096, 2048, 1024, 1>>),
     L(910344235,  <<0, 32768,  8, 4, 268435456,  4096, 2048, 1024, 1>>),
     L(637606178,  <<0, 65536, 16, 4, 268435456, 16384, 2048, 2048, 1>>) >>

(* They are what the other modules assume of Parts.                        *)
ShippedParts == {Descriptor(Shipped[n].id, Shipped[n].values) : n \in DOMAIN Shipped}

Full    == Shipped[1]
Again   == L(33024, <<0, 32768, 8, 4, 1, 2, 3, 4, 1>>)
Remark  == [Again EXCEPT !.comment = TRUE]
Other   == Shipped[2]
Short   == L(33024, <<0, 8192, 2>>)
Unended == [Full EXCEPT !.name = "unended"]
TooLong == [Full EXCEPT !.name = "long"]
Words   == [L(0, <<>>) EXCEPT !.name = "unended"]

SomeLines == {Full, Again, Remark, Other, Short, Unended, TooLong, Words}
SomeFiles == UNION {[1 .. n -> SomeLines] : n \in 0 .. 3} \cup {Shipped}
SomeIds   == {Shipped[n].id : n \in DOMAIN Shipped} \cup {0}
NoParts   == {}
=============================================================================
