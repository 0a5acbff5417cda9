---------------------------- MODULE EntityParser ----------------------------
(***************************************************************************)
(* The entity parser: text is parsed into nodes, edits replace, rename and *)
(* move nodes of the tree, and every edit leaves its reverse in a group    *)
(* that can be cancelled, or pushed into a history and undone and redone   *)
(* (EntityParser.cpp, EntityNode.cpp).                                     *)
(*                                                                         *)
(* A tree is kept flat: its lines in document order, each with its depth,  *)
(* the root first.  A text is a sequence of tokens: a word is all that     *)
(* names one node (an identifier, alone or with a value beside it), "bad"  *)
(* what no grammar accepts.  Parsing is one action per node or brace.      *)
(* What the three allocators have handed out is counted in held.           *)
(***************************************************************************)
EXTENDS Integers, SequencesExt, FiniteSetsExt

CONSTANTS
  Words,               \* the texts of nodes
  Chars,               \* the length of each of them
  Texts,               \* what clients insert, as sequences of tokens
  LargeCount,          \* more children than this get spare slots (100)
  SpareShare,          \* one slot more for as many children (10)
  SpareMax,            \* but no more than this (1000)
  MAX_COMMAND_MEMORY,  \* groups the history keeps
  MaxEdits,            \* bound: edits by clients
  MaxChildren,         \* bound: children clients give a node
  MaxEditsBelow        \* bound: of them where some are below the root, or of texts

ASSUME ConstantsAssumption ==
  /\ Chars \in [Words -> Nat]
  /\ {"{", "}", "bad", "end", ""} \cap Words = {}
  /\ Texts \subseteq Seq(Words \cup {"{", "}", "bad"})
  /\ LargeCount \in Nat /\ SpareShare \in Nat \ {0} /\ SpareMax \in Nat
  /\ MAX_COMMAND_MEMORY \in Nat \ {0, 1}
  /\ MaxEdits \in Nat /\ MaxEditsBelow \in 0 .. MaxEdits /\ MaxChildren \in Nat

VARIABLES
  tree,          \* the lines of the tree
  held,          \* nodes, child slots and characters the allocators handed out
  pc,            \* "idle", or what comes next: see the actions
  tokens,        \* what is left to parse
  tempChildren,  \* nodes not yet given to a parent, the temporary root first
  open,          \* places in tempChildren of the objects being parsed
  edit,          \* the parameters of EditTree
  running,       \* who edits: "client", "undo", "redo" or "cancel"
  index,         \* the command of the history or the group being executed
  reverseGroup, history, redoIndex, commandCount,
  edits,         \* history: how many edits clients made
  below,         \* history: some edit was below the root, or of a text
  before,        \* history: the document when undo, redo or cancel was called
  base,          \* history: the document when the group began
  past, future,  \* history: the documents undo and redo lead to
  misread        \* history: what a client saw when an edit first left a reverse
                 \* that reads as other nodes than it took away, or <<>>

parsing == <<tokens, tempChildren, open, edit>>
log     == <<history, redoIndex, commandCount>>
loop    == <<running, index>>
ghosts  == <<edits, below, before, base, past, future, misread>>
vars    == <<tree, held, pc, parsing, loop, reverseGroup, log, ghosts>>

-----------------------------------------------------------------------------
(* Trees and their nodes.                                                  *)

Line(word, braces) == [word |-> word, braces |-> braces, depth |-> 0, slots |-> 0]
RootLine   == Line("", FALSE)
RootNode   == 1
NoEdit     == [parent |-> RootNode, index |-> 0, count |-> 0]
Deeper(lines, n) == [i \in DOMAIN lines |-> [lines[i] EXCEPT !.depth = @ + n]]

(* Whether the lines up to k are below the node at line p.                 *)
Below(t, p, k) == \A j \in (p + 1) .. k : t[j].depth > t[p].depth

(* The lines of the children of the node at line p.                        *)
ChildLines(t, p) ==
  {k \in (p + 1) .. Len(t) : t[k].depth = t[p].depth + 1 /\ Below(t, p, k)}

ChildCount(t, p) == Cardinality(ChildLines(t, p))

(* The line where the child at place i begins, or would begin: so many     *)
(* children come before it, and it is below none of them.                  *)
ChildLine(t, p, i) ==
  CHOOSE k \in (p + 1) .. (Len(t) + 1) :
    /\ Cardinality({c \in ChildLines(t, p) : c < k}) = i
    /\ Below(t, p, k - 1)
    /\ k <= Len(t) => t[k].depth <= t[p].depth + 1

(* The subtrees of n children from place i.                                *)
Children(t, p, i, n) ==
  SubSeq(t, ChildLine(t, p, i), ChildLine(t, p, i + n) - 1)

Replaced(t, p, i, n, lines) ==
  SubSeq(t, 1, ChildLine(t, p, i) - 1) \o lines
    \o SubSeq(t, ChildLine(t, p, i + n), Len(t))

CharsOf(word) == IF word = "" THEN 0 ELSE Chars[word]

(* What is to be seen of a tree: all but the room for children.            *)
Text(t) == [i \in DOMAIN t |-> [word |-> t[i].word, braces |-> t[i].braces, depth |-> t[i].depth]]

(* Spare slots for nodes with many children.                               *)
OptimalMaxChildCount(n) ==
  IF n > LargeCount THEN n + Min({n \div SpareShare, SpareMax}) ELSE n

NextDepth(lines, i) == IF i < Len(lines) THEN lines[i + 1].depth ELSE lines[1].depth

(* Faulty variant: objects without children are not closed.                *)
ClosedAfterChildren(lines, i) == lines[i].depth - NextDepth(lines, i)

(* How many objects end after line i.                                      *)
ClosedAfter(lines, i) ==
  lines[i].depth + (IF lines[i].braces THEN 1 ELSE 0) - NextDepth(lines, i)

generateText(lines) ==
  FlattenSeq([i \in DOMAIN lines |->
    (IF lines[i].word = "" THEN <<>> ELSE <<lines[i].word>>)
      \o (IF lines[i].braces THEN <<"{">> ELSE <<>>)
      \o [k \in 1 .. ClosedAfter(lines, i) |-> "}"]])

(* Whether their text reads as other nodes: the object without a name that *)
(* follows a bare word gets the word for its name (lines 678-689).         *)
ReadsOtherwise(lines) ==
  \E i \in 1 .. Len(lines) - 1 :
    /\ lines[i].word # "" /\ ~lines[i].braces
    /\ lines[i + 1].word = "" /\ lines[i + 1].depth = lines[i].depth

HasChildren(lines, i) == i < Len(lines) /\ lines[i + 1].depth > lines[i].depth

Total(sizes) ==
  LET sum[i \in 0 .. Len(sizes)] == IF i = 0 THEN 0 ELSE sum[i - 1] + sizes[i]
  IN  sum[Len(sizes)]

SlotsOf(lines) == Total([i \in DOMAIN lines |-> lines[i].slots])
CharsIn(lines) == Total([i \in DOMAIN lines |-> CharsOf(lines[i].word)])

(* What freeNode gives back of the subtrees in lines: the text and the     *)
(* node, and the list of children if there are any.                        *)
Freed(lines) ==
  [nodes |-> Len(lines),
   slots |-> Total([i \in DOMAIN lines |-> IF HasChildren(lines, i) THEN lines[i].slots ELSE 0]),
   chars |-> CharsIn(lines)]

Less(h, freed) == [f \in DOMAIN h |-> h[f] - freed[f]]

-----------------------------------------------------------------------------
(* initiateParse, in permissive mode: a node for each word, an object for  *)
(* each brace.  The lists of children are made when an object closes.      *)

initiateParse(text, p, i, n) ==
  /\ edit' = [parent |-> p, index |-> i, count |-> n]
  /\ tokens' = text
  /\ tempChildren' = << <<RootLine>> >>
  /\ open' = <<1>>
  /\ pc' = "parse"

Token(i) == IF i <= Len(tokens) THEN tokens[i] ELSE "end"

pushNode(word, braces, n) ==
  /\ tempChildren' = Append(tempChildren, <<Line(word, braces)>>)
  /\ held' = [held EXCEPT !.nodes = @ + 1, !.chars = @ + CharsOf(word)]
  /\ tokens' = SubSeq(tokens, n + 1, Len(tokens))
  /\ open' = IF braces THEN Append(open, Len(tempChildren) + 1) ELSE open
  /\ UNCHANGED <<tree, pc, edit, loop, reverseGroup, log, ghosts>>

PushValue ==
  /\ pc = "parse" /\ Token(1) \in Words /\ Token(2) \notin {"{", "bad"}
  /\ pushNode(tokens[1], FALSE, 1)

PushObject ==
  /\ pc = "parse" /\ Token(1) \in Words /\ Token(2) = "{"
  /\ pushNode(tokens[1], TRUE, 2)

PushNameless ==
  /\ pc = "parse" /\ Token(1) = "{"
  /\ pushNode("", TRUE, 1)

(* setNodeChildren: whatever was pushed after it goes to the parent.       *)
setNodeChildren ==
  LET p   == Last(open)
      n   == Len(tempChildren) - p
      max == OptimalMaxChildCount(n)
  IN  /\ tempChildren' = Append(SubSeq(tempChildren, 1, p - 1),
           <<[tempChildren[p][1] EXCEPT !.slots = max]>>
             \o Deeper(FlattenSeq(SubSeq(tempChildren, p + 1, p + n)), 1))
      /\ held' = [held EXCEPT !.slots = @ + max]
      /\ open' = Front(open)

Closing == pc = "parse" /\ Token(1) \in {"}", "end"}

CloseObject ==
  /\ Closing /\ Token(1) = "}" /\ Len(open) > 1
  /\ setNodeChildren
  /\ tokens' = Tail(tokens)
  /\ UNCHANGED <<tree, pc, edit, loop, reverseGroup, log, ghosts>>

CloseRoot ==
  /\ Closing /\ Token(1) = "end" /\ Len(open) = 1
  /\ setNodeChildren
  /\ pc' = "parsed"
  /\ UNCHANGED <<tree, tokens, edit, loop, reverseGroup, log, ghosts>>

(* An object that is never closed, or a brace that closes none: found by   *)
(* assertLastType, after the children were set.                            *)
Mismatch ==
  /\ Closing /\ ((Token(1) = "}") = (Len(open) = 1))
  /\ setNodeChildren
  /\ pc' = "failed"
  /\ UNCHANGED <<tree, tokens, edit, loop, reverseGroup, log, ghosts>>

(* The node of a word is not made before the token after it is known.      *)
BadToken ==
  /\ pc = "parse" /\ (Token(1) = "bad" \/ (Token(1) \in Words /\ Token(2) = "bad"))
  /\ pc' = "failed"
  /\ UNCHANGED <<tree, held, parsing, loop, reverseGroup, log, ghosts>>

Return == IF running = "client" THEN "idle" ELSE "executed"

(* Faulty variant: the children the temporary root was given are kept.     *)
RollbackKeepingChildren ==
  /\ pc = "failed"
  /\ LET pushed == FlattenSeq(Tail(tempChildren))
     IN  held' = [Less(held, Freed(pushed)) EXCEPT !.slots = @ - tempChildren[1][1].slots]
  /\ tempChildren' = <<>> /\ open' = <<>> /\ tokens' = <<>> /\ edit' = NoEdit
  /\ pc' = Return
  /\ UNCHANGED <<tree, loop, reverseGroup, log, ghosts>>

(* The catch block: everything parsed so far is given back.                *)
Rollback ==
  /\ pc = "failed"
  /\ LET parsed == Tail(tempChildren[1]) \o FlattenSeq(Tail(tempChildren))
     IN  held' = [Less(held, Freed(parsed)) EXCEPT !.slots = @ - tempChildren[1][1].slots]
  /\ tempChildren' = <<>> /\ open' = <<>> /\ tokens' = <<>> /\ edit' = NoEdit
  /\ pc' = Return
  /\ UNCHANGED <<tree, loop, reverseGroup, log, ghosts>>

-----------------------------------------------------------------------------
(* The edits.  Each appends its reverse to reverseGroup.  findPositionalID *)
(* finds nothing, so that every reverse is for the root.                   *)

Command(type, text, i, n) ==
  [type |-> type, text |-> text, insertionIndex |-> i, removalCount |-> n,
   parentID |-> 0, lastInGroup |-> FALSE]

(* Faulty variant: a full list of children takes one more.                 *)
TightSlots(n, slots) == IF n > slots + 1 THEN OptimalMaxChildCount(n) ELSE slots

NewSlots(n, slots) == IF n > slots THEN OptimalMaxChildCount(n) ELSE slots

(* Faulty variant: the reverse puts back as many nodes as it removes.      *)
ReverseOfTreeSwapped(removed, added) ==
  Command("EDIT_TREE", generateText(removed), edit.index, edit.count)

ReverseOfTree(removed, added) ==
  Command("EDIT_TREE", generateText(removed), edit.index, added)

(* What is seen of the history from outside while its promises hold: see   *)
(* ImplementsUndoLog.                                                      *)
Seen ==
  IF misread # <<>> THEN misread[1]
  ELSE [doc  |-> IF below \/ running # "client" THEN before ELSE Text(tree),
        base |-> IF below THEN before ELSE base,
        open |-> \/ below \/ running = "cancel"
                 \/ running = "client" /\ reverseGroup # <<>>,
        past |-> past, future |-> future]

(* EditTree, once its text is parsed.                                      *)
EditTree ==
  LET p       == edit.parent
      parsed  == tempChildren[1]
      added   == ChildCount(parsed, 1)
      removed == Children(tree, p, edit.index, edit.count)
      slots   == NewSlots(ChildCount(tree, p) + added - edit.count, tree[p].slots)
  IN
  /\ pc = "parsed"
  /\ reverseGroup' = Append(reverseGroup, ReverseOfTree(removed, added))
  /\ tree' = [Replaced(tree, p, edit.index, edit.count, Deeper(Tail(parsed), tree[p].depth))
                EXCEPT ![p].slots = slots]
  /\ held' = [Less(held, Freed(removed))
                EXCEPT !.slots = @ + slots - tree[p].slots - parsed[1].slots]
  /\ tempChildren' = <<>> /\ edit' = NoEdit
  /\ misread' = IF misread = <<>> /\ ReadsOtherwise(removed) THEN <<Seen>> ELSE misread
  /\ pc' = Return
  /\ UNCHANGED <<tokens, open, loop, log, edits, below, before, base, past, future>>

EditText(p, word) ==
  /\ reverseGroup' = Append(reverseGroup, Command("EDIT_TEXT", <<tree[p].word>>, 0, 0))
  /\ held' = [held EXCEPT !.chars = @ + CharsOf(word) - CharsOf(tree[p].word)]
  /\ tree' = [tree EXCEPT ![p].word = word]

(* The child at place i goes to place j, those between move up or down.    *)
EditPosition(p, i, j) ==
  LET child == Children(tree, p, i, 1) IN
  /\ reverseGroup' = Append(reverseGroup, Command("EDIT_POSITION", <<>>, i, j))
  /\ tree' = IF i < j
       THEN Replaced(tree, p, i, j - i + 1, Children(tree, p, i + 1, j - i) \o child)
       ELSE Replaced(tree, p, j, i - j + 1, child \o Children(tree, p, j, i - j))
  /\ UNCHANGED held

-----------------------------------------------------------------------------
(* What clients do.  They edit objects, within the bounds of their lists.  *)

Objects == {p \in DOMAIN tree : p = RootNode \/ tree[p].braces}

Counted(isBelow) ==
  /\ below' = (below \/ isBelow)
  /\ edits < IF below' THEN MaxEditsBelow ELSE MaxEdits
  /\ edits' = edits + 1
  /\ before' = IF below' /\ ~below THEN base ELSE before
  /\ UNCHANGED <<base, past, future, misread>>

ClientEditsTree ==
  /\ pc = "idle"
  /\ \E p \in Objects, text \in Texts :
       \E i \in 0 .. ChildCount(tree, p) : \E n \in 0 .. (ChildCount(tree, p) - i) :
         /\ text = <<>> => n > 0
         /\ ChildCount(tree, p) - n < MaxChildren
         /\ initiateParse(text, p, i, n)
         /\ Counted(p # RootNode)
  /\ UNCHANGED <<tree, held, loop, reverseGroup, log>>

ClientEditsText ==
  /\ pc = "idle"
  /\ \E p \in DOMAIN tree \ {RootNode}, word \in Words : EditText(p, word)
  /\ Counted(TRUE)
  /\ UNCHANGED <<pc, parsing, loop, log>>

ClientEditsPosition ==
  /\ pc = "idle"
  /\ \E p \in Objects :
       /\ \E i, j \in 0 .. (ChildCount(tree, p) - 1) : i # j /\ EditPosition(p, i, j)
       /\ Counted(p # RootNode)
  /\ UNCHANGED <<pc, parsing, loop, log>>

-----------------------------------------------------------------------------
(* The history.  The first command of a group that can be undone, and the  *)
(* last of one that can be redone, has the flag lastInGroup.               *)

Flagged(group) == [group EXCEPT ![1].lastInGroup = TRUE]
Flags(commands) == {i \in DOMAIN commands : commands[i].lastInGroup}

(* A group is closed.  After an edit below the root, the documents that    *)
(* undo and redo lead to are no longer kept account of.                    *)
Remember(p, f) ==
  /\ base' = Text(tree)
  /\ IF below THEN UNCHANGED <<past, future>> ELSE past' = p /\ future' = f

Remaining ==
  commandCount - Cardinality(Flags(SubSeq(history, redoIndex + 1, Len(history))))

(* Faulty variant: the group dropped for the new one still counts.         *)
CountingDropped(full) == Remaining + 1
CountWithPushed(full) == Remaining + (IF full THEN 0 ELSE 1)

(* What can be redone is dropped, and the first group if there are too     *)
(* many.                                                                   *)
PushGroupCommand ==
  /\ pc = "idle" /\ reverseGroup # <<>>
  /\ LET kept  == SubSeq(history, 1, redoIndex)
         full  == Remaining = MAX_COMMAND_MEMORY
         rest  == IF full THEN SubSeq(kept, Min(Flags(kept) \ {1}), Len(kept)) ELSE kept
     IN  /\ history' = rest \o Flagged(reverseGroup)
         /\ redoIndex' = Len(history')
         /\ commandCount' = CountWithPushed(full)
  /\ reverseGroup' = <<>>
  /\ Remember(Append(IF Len(past) = MAX_COMMAND_MEMORY THEN Tail(past) ELSE past, base), <<>>)
  /\ UNCHANGED <<tree, held, pc, parsing, loop, edits, below, before, misread>>

(* Faulty variant: redoIndex is not reset.                                 *)
ClearCommands ==
  /\ pc = "idle"
  /\ history' = <<>> /\ commandCount' = 0
  /\ IF below THEN UNCHANGED <<past, future>> ELSE past' = <<>> /\ future' = <<>>
  /\ UNCHANGED <<tree, held, pc, parsing, loop, reverseGroup, redoIndex,
                 edits, below, before, base, misread>>

ClearHistory ==
  /\ pc = "idle"
  /\ history' = <<>> /\ redoIndex' = 0 /\ commandCount' = 0
  /\ IF below THEN UNCHANGED <<past, future>> ELSE past' = <<>> /\ future' = <<>>
  /\ UNCHANGED <<tree, held, pc, parsing, loop, reverseGroup, edits, below, before, base, misread>>

Call(who, i) ==
  /\ pc = "idle" /\ pc' = "execute"
  /\ running' = who /\ index' = i
  /\ before' = IF below THEN before ELSE Text(tree)
  /\ UNCHANGED <<tree, held, parsing, reverseGroup, log, edits, below, base, past, future, misread>>

(* Undo and Redo are called with no group open: the code says so.          *)
Undo   == reverseGroup = <<>> /\ redoIndex > 0 /\ Call("undo", redoIndex)
Redo   == reverseGroup = <<>> /\ redoIndex < Len(history) /\ Call("redo", redoIndex + 1)
Cancel == reverseGroup # <<>> /\ Call("cancel", Len(reverseGroup))

Commands == IF running = "cancel" THEN reverseGroup ELSE history

(* ExecuteCommand.  A command for a list it does not fit reads past its    *)
(* end.  CancelGroupCommand passes EditText a text inside reverseGroup,    *)
(* which moves when the vector grows.                                      *)
ExecuteTree ==
  LET c == Commands[index] IN
  /\ pc = "execute" /\ c.type = "EDIT_TREE"
  /\ IF c.insertionIndex + c.removalCount <= ChildCount(tree, RootNode)
       THEN initiateParse(c.text, RootNode, c.insertionIndex, c.removalCount)
       ELSE pc' = "undefined" /\ UNCHANGED parsing
  /\ UNCHANGED <<tree, held, loop, reverseGroup, log, ghosts>>

ExecuteText ==
  LET c == Commands[index] IN
  /\ pc = "execute" /\ c.type = "EDIT_TEXT"
  /\ \/ EditText(RootNode, c.text[1]) /\ pc' = "executed"
     \/ running = "cancel" /\ pc' = "undefined" /\ UNCHANGED <<tree, held, reverseGroup>>
  /\ UNCHANGED <<parsing, loop, log, ghosts>>

ExecutePosition ==
  LET c == Commands[index]
      places == 0 .. (ChildCount(tree, RootNode) - 1)
  IN
  /\ pc = "execute" /\ c.type = "EDIT_POSITION"
  /\ IF {c.insertionIndex, c.removalCount} \subseteq places
       THEN EditPosition(RootNode, c.removalCount, c.insertionIndex) /\ pc' = "executed"
       ELSE pc' = "undefined" /\ UNCHANGED <<tree, held, reverseGroup>>
  /\ UNCHANGED <<parsing, loop, log, ghosts>>

(* Faulty variant: the loop of CancelGroupCommand goes on to index 0.      *)
LoopEndsLate ==
  IF running = "cancel" THEN index = 0 ELSE history[index].lastInGroup

(* Whether the loop of Undo, Redo or CancelGroupCommand ends here.         *)
LoopEnds ==
  IF running = "cancel" THEN index = 1 ELSE history[index].lastInGroup

Continue ==
  LET next == IF running = "redo" THEN index + 1 ELSE index - 1 IN
  /\ pc = "executed" /\ ~LoopEnds
  /\ index' = next
  /\ pc' = IF next \in DOMAIN Commands THEN "execute" ELSE "undefined"
  /\ UNCHANGED <<tree, held, parsing, running, reverseGroup, log, ghosts>>

Done == running' = "client" /\ index' = 0 /\ reverseGroup' = <<>>

Overwritten(from, group) ==
  [i \in DOMAIN history |->
     IF i - from \in DOMAIN group THEN group[i - from] ELSE history[i]]

FinishUndo ==
  /\ pc = "executed" /\ running = "undo" /\ LoopEnds
  /\ redoIndex' = index - 1
  /\ history' = Overwritten(index - 1, Reverse(Flagged(reverseGroup)))
  /\ Done /\ pc' = "idle"
  /\ Remember(Front(past), <<before>> \o future)
  /\ UNCHANGED <<tree, held, parsing, commandCount, edits, below, before, misread>>

FinishRedo ==
  /\ pc = "executed" /\ running = "redo" /\ LoopEnds
  /\ redoIndex' = redoIndex + Len(reverseGroup)
  /\ history' = Overwritten(redoIndex, Flagged(reverseGroup))
  /\ Done /\ pc' = "idle"
  /\ Remember(Append(past, before), Tail(future))
  /\ UNCHANGED <<tree, held, parsing, commandCount, edits, below, before, misread>>

FinishCancel ==
  /\ pc = "executed" /\ running = "cancel" /\ LoopEnds
  /\ Done /\ pc' = "idle"
  /\ UNCHANGED <<tree, held, parsing, log, ghosts>>

-----------------------------------------------------------------------------
Init ==
  /\ tree = <<RootLine>>
  /\ held = [nodes |-> 0, slots |-> 0, chars |-> 0]
  /\ pc = "idle"
  /\ tokens = <<>> /\ tempChildren = <<>> /\ open = <<>> /\ edit = NoEdit
  /\ running = "client" /\ index = 0
  /\ reverseGroup = <<>> /\ history = <<>> /\ redoIndex = 0 /\ commandCount = 0
  /\ edits = 0 /\ below = FALSE
  /\ before = Text(tree) /\ base = Text(tree) /\ past = <<>> /\ future = <<>> /\ misread = <<>>

Parse == \/ PushValue \/ PushObject \/ PushNameless
         \/ CloseObject \/ CloseRoot \/ Mismatch \/ BadToken \/ Rollback \/ EditTree
Execute == \/ ExecuteTree \/ ExecuteText \/ ExecutePosition \/ Continue
           \/ FinishUndo \/ FinishRedo \/ FinishCancel
Client == \/ ClientEditsTree \/ ClientEditsText \/ ClientEditsPosition
          \/ PushGroupCommand \/ ClearHistory \/ Undo \/ Redo \/ Cancel

Next == Client \/ Parse \/ Execute

Spec == Init /\ [][Next]_vars

(* A function once called runs on: there is one thread.  All its steps     *)
(* take a token or lead elsewhere.                                         *)
FairSpec == Spec /\ WF_<<pc, tokens>>(Parse \/ Execute)

-----------------------------------------------------------------------------
(* The types of the variables.                                             *)
TypeOK ==
  /\ tree # <<>> /\ tree[RootNode].depth = 0
  /\ \A i \in DOMAIN tree :
       /\ tree[i] \in [word : Words \cup {""}, braces : BOOLEAN, depth : Nat, slots : Nat]
       /\ i > 1 => tree[i].depth \in 1 .. (tree[i - 1].depth + 1)
  /\ DOMAIN held = {"nodes", "slots", "chars"} /\ \A f \in DOMAIN held : held[f] \in Nat
  /\ pc \in {"idle", "parse", "failed", "parsed", "execute", "executed", "undefined"}
  /\ running \in {"client", "undo", "redo", "cancel"}
  /\ redoIndex \in 0 .. Len(history) /\ commandCount \in 0 .. MAX_COMMAND_MEMORY
  /\ edits \in 0 .. MaxEdits /\ below \in BOOLEAN

(* What the allocators handed out is what the tree and the parse in        *)
(* progress hold, after edits, parses that failed and undos alike: nothing *)
(* is lost or given back twice.  The lists of children are only accounted  *)
(* for exactly as long as all edits are of the root's children.            *)
Accounted ==
  LET lines == tree \o FlattenSeq(tempChildren)
      slots == SlotsOf(lines)
  IN  /\ held.nodes = Cardinality({i \in DOMAIN lines : lines[i].depth > 0})
                        + Cardinality({i \in DOMAIN tempChildren : i > 1})
      /\ held.chars = CharsIn(lines)
      /\ held.slots >= slots
      /\ ~below => held.slots = slots

(* As freeNode has it, "Free the node's children and the pointer block     *)
(* listing them" (EntityParser.cpp:1022): lists of children are given back *)
(* with their nodes.                                                       *)
ListsGivenBack ==
  pc # "undefined" => held.slots = SlotsOf(tree \o FlattenSeq(tempChildren))

(* No list of children is fuller than its block, although EditTree shifts  *)
(* children within it.                                                     *)
ChildrenFit == \A p \in DOMAIN tree : ChildCount(tree, p) <= tree[p].slots

(* The text an edit leaves for its reverse can be parsed: undo, redo and   *)
(* cancel ignore the result of EditTree and rely on it.                    *)
ReversesParse == running # "client" => pc # "failed"

(* Group boundaries: one flag at the start of each group that can be       *)
(* undone, one at the end of each that can be redone, and as many as       *)
(* commandCount says.  The loops of undo and redo stop at these flags.     *)
HistoryShape ==
  pc = "idle" =>
    /\ commandCount = Cardinality(Flags(history))
    /\ redoIndex > 0 => history[1].lastInGroup
    /\ redoIndex < Len(history) => history[Len(history)].lastInGroup
    /\ ~below => Len(past) = Cardinality({i \in Flags(history) : i <= redoIndex})

(* Undo, redo and cancel restore the very documents that were there, for   *)
(* as long as all edits are of the root's children and none takes away a   *)
(* bare word together with the nameless object after it; whatever comes    *)
(* after such an edit is not seen.                                         *)
Log == INSTANCE UndoLog WITH
  Memory <- MAX_COMMAND_MEMORY,
  doc    <- Seen.doc,
  base   <- Seen.base,
  open   <- Seen.open,
  past   <- Seen.past,
  future <- Seen.future

ImplementsUndoLog == Log!Spec

(* "Undoes the results of the current command group" (EntityParser.h:240): *)
(* CancelGroupCommand, whatever nodes the group edited.                    *)
CancelUndoes ==
  [][running = "cancel" /\ running' = "client" => Text(tree') = base]_vars

(* The same, where the group edits the root's children only, so that the   *)
(* reverse is for the right node: the text of what was taken away must     *)
(* read as what it was.                                                    *)
CancelRestores ==
  [][running = "cancel" /\ running' = "client" /\ ~below => Text(tree') = base]_vars

(* Undo, redo and cancel return, and never read outside a list, for as     *)
(* long as all edits are of the root's children and no reverse reads as    *)
(* other nodes; a parse always ends.                                       *)
CallsReturn == pc # "idle" ~> pc = "idle" \/ below \/ misread # <<>>
=============================================================================
