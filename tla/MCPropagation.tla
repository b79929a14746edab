--------------------------- MODULE MCPropagation ---------------------------
(* Every graph of a few records over two roots, with a text and an observer   *)
(* on each record and a collection for each row source.                       *)
EXTENDS Propagation

CONSTANT Size

MCMap(v) == v \div 2
MCMap2(v, w) == (v + w) % 3
MCKeyOf(v) == v

(* The forms of record r; a row source names the record of its items.         *)
Form(kind, inputs, key, each) ==
  [kind |-> kind, inputs |-> inputs, key |-> key, each |-> each]

Forms(r) ==
  LET before == 1 .. r - 1 IN
  IF r = 1 THEN {Form("state", <<>>, 0, 0)}
  ELSE {Form(kind, <<>>, 0, 0) : kind \in IF r = 2 THEN {"state", "source"} ELSE {}}
         \union {Form("row", <<>>, 0, i) : i \in before}
         \union {Form("map", <<i>>, 0, 0) : i \in before}
         \union {Form("map2", <<i, j>>, 0, 0) : <<i, j>> \in
                   {q \in before \X before : q[1] < q[2]}}
         \union {Form("select", <<i>>, k, 0) : i \in before, k \in {0, 1}}

RECURSIVE Sequences(_)
Sequences(n) ==
  IF n = 0 THEN {<<>>}
  ELSE {Append(s, f) : s \in Sequences(n - 1), f \in Forms(n)}

(* Sinks 1 .. n are the texts, then come the observers, then the collections. *)
Graph(forms) ==
  LET n == Len(forms)
      rows == SelectSeq([r \in 1 .. n |-> r], LAMBDA r : forms[r].kind = "row")
      SinkOf(r) == 2 * n + Cardinality({q \in ToSet(rows) : q <= r})
  IN [records |-> [r \in 1 .. n |->
                     IF forms[r].kind = "row"
                     THEN [forms[r] EXCEPT !.each = SinkOf(r)] ELSE forms[r]],
      sinks |-> [s \in 1 .. 2 * n + Len(rows) |->
                   IF s <= n THEN [kind |-> "text", signal |-> s]
                   ELSE IF s <= 2 * n THEN [kind |-> "observer", signal |-> s - n]
                   ELSE [kind |-> "each", signal |-> forms[rows[s - 2 * n]].each]]]

(* Every record but the last is read by a later one: what is observed of the  *)
(* others they show in smaller graphs.                                        *)
Used(forms) ==
  \A r \in 1 .. Len(forms) - 1 :
    \E q \in r + 1 .. Len(forms) :
      r \in ToSet(forms[q].inputs) \/ forms[q].each = r

MCPrograms == {Graph(s) : s \in {t \in Sequences(Size) : Used(t)}}
============================================================================
