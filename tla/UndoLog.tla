------------------------------ MODULE UndoLog ------------------------------
(***************************************************************************)
(* What an editor promises of its undo history: groups of edits, which can *)
(* be cancelled while open, and undone and redone once pushed.  Documents  *)
(* are any values; at most Memory groups are remembered.                   *)
(***************************************************************************)
EXTENDS Naturals, Sequences

CONSTANT Memory   \* how many groups can be undone

VARIABLES
  doc,     \* the document
  base,    \* the document when the group began
  open,    \* whether the group has edits
  past,    \* the documents that undoing goes back to, the last one first to come
  future   \* the documents that redoing goes on to, in order

vars == <<doc, base, open, past, future>>

Init ==
  /\ base = doc
  /\ open = FALSE
  /\ past = <<>> /\ future = <<>>

Edit ==
  /\ open' = TRUE
  /\ UNCHANGED <<base, past, future>>

Remembered == IF Len(past) = Memory THEN Tail(past) ELSE past

Push ==
  /\ open
  /\ past' = Append(Remembered, base)
  /\ future' = <<>>
  /\ base' = doc
  /\ open' = FALSE
  /\ UNCHANGED doc

Cancel ==
  /\ doc' = base
  /\ open' = FALSE
  /\ UNCHANGED <<base, past, future>>

Undo ==
  /\ ~open /\ past # <<>>
  /\ doc' = past[Len(past)]
  /\ base' = doc'
  /\ past' = SubSeq(past, 1, Len(past) - 1)
  /\ future' = <<doc>> \o future
  /\ UNCHANGED open

Redo ==
  /\ ~open /\ future # <<>>
  /\ doc' = Head(future)
  /\ base' = doc'
  /\ past' = Append(past, doc)
  /\ future' = Tail(future)
  /\ UNCHANGED open

Clear ==
  /\ past' = <<>> /\ future' = <<>>
  /\ UNCHANGED <<doc, base, open>>

Next == Edit \/ Push \/ Cancel \/ Undo \/ Redo \/ Clear

Spec == Init /\ [][Next]_vars
=============================================================================
