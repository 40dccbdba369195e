----------------------------- MODULE MCAddonLoader -----------------------------
(* Files for TLC: a sound add-on with code and data, one that imports a    *)
(* name the host lacks, one without a symbol count, one with no frames and *)
(* no relocations, and one with a damaged header.                          *)
EXTENDS AddonLoader

Segments == <<{"R", "X"}, {"R", "W"}>>
Relative == [kind |-> "relative", name |-> "", weak |-> FALSE]
Tls == [kind |-> "tls", name |-> "", weak |-> FALSE]
Symbol(name, weak) == [kind |-> "symbol", name |-> name, weak |-> weak]
Sound ==
  [segs |-> Segments, relocs |-> <<Relative, Symbol("malloc", TRUE), Symbol("malloc", FALSE)>>,
   header |-> TRUE, tables |-> TRUE, symcount |-> TRUE, eh |-> TRUE]

MCFiles ==
  {Sound,
   [Sound EXCEPT !.relocs = <<Tls, Symbol("absent", TRUE), Symbol("absent", FALSE)>>],
   [Sound EXCEPT !.symcount = FALSE],
   [Sound EXCEPT !.relocs = <<>>, !.symcount = FALSE, !.eh = FALSE],
   [Sound EXCEPT !.tables = FALSE],
   [Sound EXCEPT !.header = FALSE]}
===============================================================================
