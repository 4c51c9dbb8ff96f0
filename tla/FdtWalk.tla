------------------------------- MODULE FdtWalk ------------------------------
(***************************************************************************)
(* The token stream of a flattened device tree, as validateHeader accepts  *)
(* it (core/deviceTree).  The stream is produced one token at a time; the  *)
(* parsers of the memory map and of devices read it in step.  A stream     *)
(* that validateHeader rejects panics before a parser's result is used.    *)
(***************************************************************************)
EXTENDS Integers, Sequences

CONSTANTS
  NodeNames,  \* names a node below the root may have
  MAX_DEPTH   \* deepest nesting validateHeader accepts

ASSUME FdtAssumption == MAX_DEPTH \in Nat

VARIABLES
  path,    \* names of the open nodes, the root's first
  status   \* "walking", "panic" or "done"

fdtVars == <<path, status>>

FdtInit ==
  /\ path = <<>>
  /\ status = "walking"

Walking == status = "walking"

\* BEGIN_NODE that does not nest too deep.
TokenBegin(name) ==
  /\ Walking
  /\ Len(path) < MAX_DEPTH
  /\ path' = Append(path, IF path = <<>> THEN "" ELSE name)
  /\ UNCHANGED status

\* END_NODE that closes an open node.
TokenEndNode ==
  /\ Walking
  /\ path # <<>>
  /\ path' = SubSeq(path, 1, Len(path) - 1)
  /\ UNCHANGED status

\* PROP or NOP.
TokenStay == Walking /\ UNCHANGED fdtVars

\* END with every node closed.
TokenEnd == Walking /\ path = <<>>

HvPanic == status' = "panic" /\ UNCHANGED path

\* A bad header, nesting beyond MAX_DEPTH, an end without a begin, END inside a
\* node, a truncated or unknown token.
BadToken == Walking /\ HvPanic
=============================================================================
