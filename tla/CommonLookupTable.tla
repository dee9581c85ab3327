------------------------- MODULE CommonLookupTable -------------------------
(***************************************************************************)
(* SCIM's CommonLookupTable, the paged candidate list the engine keeps in  *)
(* m_lookup_table.  The class belongs to libscim and is not part of this   *)
(* repository: it is modelled from how src/scim_array_imengine.cpp uses    *)
(* it.  A table is a record:                                               *)
(*   cands     the candidates, in order                                    *)
(*   pageSize  the page size last set                                      *)
(*   start     index (from 0) of the first candidate of the current page   *)
(*   history   the starts of the pages left by paging down                 *)
(*   labels    the labels the panel draws beside the candidates of a page  *)
(*   fixed     whether the panel must leave the page size alone            *)
(***************************************************************************)
EXTENDS Naturals, Sequences

CONSTANTS
  Words,   (* the words of the tables, each a candidate                    *)
  Hole,    (* SCIM_ARRAY_EMPTY_CHAR, which fills an unused place           *)
  Labels   (* the characters used as labels                                *)

(* The empty WideString an out-of-range access returns. *)
NoWord  == ""
NoLabel == ""

Candidates == Words \cup {Hole}

Tables ==
  [cands    : Seq(Candidates),
   pageSize : Nat,
   start    : Nat,
   history  : Seq(Nat),
   labels   : Seq(Labels),
   fixed    : BOOLEAN]

(* What the panel needs of a table to draw the current page. *)
Drawings ==
  [cands : Seq(Candidates), start : Nat, labels : Seq(Labels), fixed : BOOLEAN]

Drawing(t) ==
  [cands |-> t.cands, start |-> t.start, labels |-> t.labels,
   fixed |-> t.fixed]

EmptyTable(size) ==
  [cands |-> <<>>, pageSize |-> size, start |-> 0, history |-> <<>>,
   labels |-> <<>>, fixed |-> TRUE]

(* clear() drops the candidates and the paging, not the size nor the flag. *)
Clear(t) == [t EXCEPT !.cands = <<>>, !.start = 0, !.history = <<>>]

Fill(t, words) == [Clear(t) EXCEPT !.cands = words]

SetPageSize(t, size) == [t EXCEPT !.pageSize = size]

FixPageSize(t, fix) == [t EXCEPT !.fixed = fix]

CurrentPageSize(t) ==
  IF t.start + t.pageSize > Len(t.cands) THEN Len(t.cands) - t.start
                                         ELSE t.pageSize

(* The i-th candidate (from 0) counted from the start of the current page. *)
CandidateInPage(t, i) ==
  IF t.start + i < Len(t.cands) THEN t.cands[t.start + i + 1] ELSE NoWord

CandidateLabel(t, i) ==
  IF i < CurrentPageSize(t) /\ i < Len(t.labels) THEN t.labels[i + 1]
                                                 ELSE NoLabel

CanPageUp(t) == t.pageSize <= Len(t.cands) /\ t.history # <<>>

CanPageDown(t) == t.start + t.pageSize < Len(t.cands)

PageUp(t) ==
  IF CanPageUp(t)
    THEN [t EXCEPT !.start   = t.history[Len(t.history)],
                   !.history = SubSeq(t.history, 1, Len(t.history) - 1)]
    ELSE t

PageDown(t) ==
  [t EXCEPT !.start = @ + t.pageSize, !.history = Append(@, t.start)]

(* while (page_up()) ; -- nothing page_up() tests changes but the history. *)
Rewind(t) ==
  IF CanPageUp(t) THEN [t EXCEPT !.start = t.history[1], !.history = <<>>]
                  ELSE t

=============================================================================
