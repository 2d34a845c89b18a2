--------------------------- MODULE MCRecordFormat ---------------------------
(* Model checking of RecordFormat: values of two widths, and data that is  *)
(* empty, short, fills a slot of 256 bytes up to the last bytes, overflows *)
(* it, overflows a 16 bit length in a slot of 128K, or the parser's buffer *)
(* in one of 16M.                                                          *)
EXTENDS RecordFormat, TLC

Sized(type, lens) == {[type |-> type, len |-> n] : n \in lens}

MCArg ==
  Sized("UINT32", {0}) \cup Sized("INT64", {0})
  \cup Sized("CSTR", {0, 2, 197, 70000})
  \cup Sized("GSTR", {0, 70000})
  \cup Sized("XDUMP", {8, 190})
  \cup Sized("RAW", {0, 198, 11000000})

(* Up to three arguments, and up to sixteen integers with a global string *)
(* and a string at the end.                                                *)
MCArgLists ==
  UNION {[1 .. n -> MCArg] : n \in 0 .. 3}
  \cup {[i \in 1 .. n |-> CASE i = n -> [type |-> "CSTR", len |-> 190]
                             [] i = n - 1 -> [type |-> "GSTR", len |-> 5]
                             [] OTHER -> [type |-> "INT64", len |-> 0]] :
          n \in {9, 10, 16}}

(* Core dumps of one or two sections, with an executable of one section or *)
(* none that is before, behind, inside, between, across or around them. A  *)
(* section of the core may be unreadable, one of either file not in memory.*)
Section == [vma : {0} \cup 2 .. 6, size : {1, 2, 3, 5}]
MCLayouts ==
  {[core |-> {s, t}, exec |-> e, bad |-> b] :
     <<s, t>> \in {p \in Section \X Section : Proper({p[1], p[2]})},
     e \in {{}} \cup {{s} : s \in Section},
     b \in {{}, {2}, {4}}}

MCTimestamps == {1000000001, 1000010002, 2000010002}

MCFieldLists == {<<>>, <<"timestamp", "fast1", "fast">>}
=============================================================================
