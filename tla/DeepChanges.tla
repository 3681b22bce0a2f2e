---------------------------- MODULE DeepChanges ----------------------------
(***************************************************************************)
(* Which rows of a collection count as modified: get_modification_checker  *)
(* and DeepChangeChecker (impl/collection_notifier.cpp).  A row is         *)
(* modified if it, or an object that links lead to from it, was; the       *)
(* search is cut at m_current_path's size and remembers, across the rows   *)
(* of one collection, objects from which nothing modified can be reached.  *)
(* The checker is made for two tables or more; for a single one the row    *)
(* itself is all that is looked at.                                        *)
(*                                                                         *)
(* The search is two functions that call each other.  frames is the stack  *)
(* of their calls, one frame for check_row and check_outgoing_links at a   *)
(* depth, and a step looks at one linked object, begins a column, or       *)
(* returns.                                                                *)
(***************************************************************************)
EXTENDS Naturals, Sequences

CONSTANTS
  Rows, Others,   \* objects of the collection's table, and of tables it links to
  OutgoingLinks,  \* for each object the link columns of its table
  Graphs,         \* what may be linked: for each object and column the targets
  Modified,       \* what transactions may modify: sets of objects
  Limits          \* sizes of m_current_path

Objects == Rows \cup Others

\* m_related_tables: the link columns of the object's table, in order
Columns(o) == OutgoingLinks[o]
Column(o, c) == Columns(o)[c]

\* the elements of a sequence
Listed(s) == {s[k] : k \in DOMAIN s}

\* what the constants are
DeepAssumption ==
  /\ Limits \subseteq Nat \ {0}
  /\ Modified \subseteq SUBSET Objects
  /\ \A o \in Objects : Columns(o) \in Seq(STRING)
  /\ \A g \in Graphs : \A o \in Objects : \A c \in Listed(Columns(o)) : g[o][c] \in Seq(Objects)

VARIABLES
  links,       \* for each object and column the linked objects
  modified,    \* objects modified by the transactions
  limit,       \* m_current_path.size()
  cache,       \* m_not_modified
  path,        \* m_current_path
  frames,      \* the calls in progress: the object at each depth, how many of its
               \* columns have been begun, and the targets of the last one still to see
  answers      \* what operator() returned for the rows looked at so far

deepVars == <<links, modified, limit, cache, path, frames, answers>>

DeepInit ==
  /\ links \in Graphs /\ modified \in Modified /\ limit \in Limits
  /\ cache = {}
  /\ path = [d \in 0 .. limit - 1 |-> [obj |-> 0, col |-> "none", exceeded |-> FALSE]]
  /\ frames = <<>> /\ answers = <<>>

----------------------------------------------------------------------------
Frame(o) == [obj |-> o, begun |-> 0, keys |-> <<>>]

Top == frames[Len(frames)]
Depth == Len(frames) - 1
Below == SubSeq(frames, 1, Depth)
Row == frames[1].obj

Answer(row, b) == answers' = Append(answers, [row |-> row, modified |-> b])

Exceed(places) ==
  path' = [d \in DOMAIN path |-> [path[d] EXCEPT !.exceeded = @ \/ d \in places]]

\* operator(): check_row at depth 0 looks at the cache only
Call(row) ==
  /\ frames = <<>> /\ \A k \in DOMAIN answers : answers[k].row # row
  /\ \/ row \in modified /\ Answer(row, TRUE) /\ UNCHANGED frames
     \/ row \notin modified /\ row \in cache /\ Answer(row, FALSE) /\ UNCHANGED frames
     \/ /\ row \notin modified /\ row \notin cache
        /\ frames' = <<Frame(row)>>
        /\ UNCHANGED answers
  /\ UNCHANGED <<links, modified, limit, cache, path>>

\* any_of the linked objects: check_row at the next depth
CheckTarget ==
  LET key  == Head(Top.keys)
      rest == [Top EXCEPT !.keys = Tail(@)]
      d    == Len(frames)
  IN
  /\ frames # <<>> /\ Top.keys # <<>>
  /\ \/ /\ d >= limit
        /\ Exceed(DOMAIN path)
        /\ frames' = Append(Below, rest)
        /\ UNCHANGED answers
     \/ /\ d < limit /\ key \in modified
        /\ frames' = <<>>
        /\ Answer(Row, TRUE)
        /\ UNCHANGED path
     \/ /\ d < limit /\ key \notin modified
        /\ frames' = IF key \in cache THEN Append(Below, rest)
                     ELSE Append(Append(Below, rest), Frame(key))
        /\ UNCHANGED <<path, answers>>
  /\ UNCHANGED <<links, modified, limit, cache>>

\* any_of the columns; a link that is on the path already is not followed again
BeginColumn ==
  LET c     == Top.begun + 1
      col   == Column(Top.obj, c)
      match == {d \in 0 .. Depth - 1 : path[d].obj = Top.obj /\ path[d].col = col}
  IN
  /\ frames # <<>> /\ Top.keys = <<>> /\ Top.begun < Len(Columns(Top.obj))
  /\ \/ /\ match # {}
        /\ Exceed({d \in 0 .. Depth - 1 : \E m \in match : m <= d})
        /\ frames' = Append(Below, [Top EXCEPT !.begun = c])
     \/ /\ match = {}
        /\ path' = [path EXCEPT ![Depth] = [obj |-> Top.obj, col |-> col, exceeded |-> FALSE]]
        /\ frames' = Append(Below, [Top EXCEPT !.begun = c, !.keys = links[Top.obj][col]])
  /\ UNCHANGED <<links, modified, limit, cache, answers>>

\* mutant: what lies behind an object is forgotten although the search was cut
NotModifiedAnyway == cache' = cache \cup {Top.obj}

\* an object is remembered only if the search behind it was not cut
NotModified ==
  cache' = IF Depth > 0 /\ path[Depth - 1].exceeded THEN cache ELSE cache \cup {Top.obj}

\* nothing was found behind the object
Return ==
  /\ frames # <<>> /\ Top.keys = <<>> /\ Top.begun = Len(Columns(Top.obj))
  /\ NotModified
  /\ frames' = Below
  /\ IF Depth = 0 THEN Answer(Row, FALSE) ELSE UNCHANGED answers
  /\ UNCHANGED <<links, modified, limit, path>>

DeepNext == (\E row \in Rows : Call(row)) \/ CheckTarget \/ BeginColumn \/ Return

DeepSpec == DeepInit /\ [][DeepNext]_deepVars

----------------------------------------------------------------------------
Targets(o) == UNION {Listed(links[o][c]) : c \in Listed(Columns(o))}

\* n links lead from one object to another
Leads(o, n, t) ==
  \E walk \in [0 .. n -> Objects] :
    /\ walk[0] = o /\ walk[n] = t
    /\ \A i \in 0 .. n - 1 : walk[i + 1] \in Targets(walk[i])

\* Every row is reported as modified if and only if an object within reach of the
\* search was modified: what was remembered from rows looked at before, with
\* searches cut at the limit and at cycles, never changes the answer.
RowsModifiedExactly ==
  \A k \in DOMAIN answers :
    answers[k].modified <=>
      \E n \in 0 .. limit - 1, t \in modified : Leads(answers[k].row, n, t)
============================================================================
