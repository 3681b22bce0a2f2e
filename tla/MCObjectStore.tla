--------------------------- MODULE MCObjectStore ---------------------------
(***************************************************************************)
(* The parts that a notification is made of, for TLC, side by side: the    *)
(* index sets that changes consist of, the changes of a list, of query     *)
(* results and of single objects, the rows that count as modified, the     *)
(* callbacks that are called, and those that are told of the progress of a *)
(* transfer.  A behaviour is about one part; the others stay as they are   *)
(* at first.                                                               *)
(***************************************************************************)
EXTENDS NotifierCallbacks, SyncProgress, ListChanges, ObjectChanges, DeepChanges

VARIABLES part,
          m_data, ref,                                    \* ChunkedIndexSet
          query, first, m_previous, collected, touched,   \* ResultsChanges
          last, attached, runs

\* Chunks of two ranges; sets that join, split and outrun ranges.
Sets == INSTANCE ChunkedIndexSet WITH
          MaxSize <- 2, MaxIndex <- 8, MayOverfill <- FALSE,
          Batches <- {{}, {0}, {1, 2}, {0, 2, 4}, {3, 5}}

\* Two runs of up to three rows, one of four in table order or in any order.
Queries ==
    {[kind |-> "sorted",      keys |-> {1, 2, 3},       start |-> <<1, 2, 3>>,    runs |-> 2],
     [kind |-> "sorted",      keys |-> {0, 1, 2, 3},    start |-> <<3, 0, 2, 1>>, runs |-> 1],
     [kind |-> "table order", keys |-> {1, 2, 3},       start |-> <<2, 3>>,       runs |-> 2],
     [kind |-> "table order", keys |-> {1, 2, 3, 4},    start |-> <<2, 3, 4>>,    runs |-> 1],
     [kind |-> "list",        keys |-> {0, 1, 2},       start |-> <<2, 0, 1>>,    runs |-> 1]}

Results == INSTANCE ResultsChanges WITH base <- first, accumulated <- collected

\* Two rows that link to two objects, in every way.  A row links to one of the
\* others; those have a link back and a list of their own kind.  The others only
\* differ in their names: the first row's link leads to 3 or nowhere.
LinkColumns == [o \in Rows \cup Others |-> IF o \in Rows THEN <<"link">> ELSE <<"back", "list">>]

AtMostOne(S) == {<<>>} \cup {<<o>> : o \in S}
ListsOf(S) == AtMostOne(S) \cup {s \in S \X S : s[1] # s[2]}

LinkGraphs ==
    {[o \in Rows \cup Others |-> IF o \in Rows THEN [link |-> f[o]]
                                ELSE [back |-> g[o], list |-> h[o]]] :
       f \in {row \in [Rows -> AtMostOne(Others)] : row[1] # <<4>>}, g \in [Others -> AtMostOne(Rows)],
       h \in [Others -> ListsOf(Others)]}

NoLinks == [o \in Rows \cup Others |-> IF o \in Rows THEN [link |-> <<>>]
                                       ELSE [back |-> <<>>, list |-> <<>>]]

OneObject == {{o} : o \in Rows \cup Others}

ASSUME CallbackConstants == CallbacksAssumption

ASSUME ProgressConstants == ProgressAssumption

ASSUME ObjectConstants == ObjectsAssumption

ASSUME DeepConstants == DeepAssumption

ASSUME ListConstants == ListAssumption

setVars == <<m_data, ref>>
resultVars == <<query, first, m_previous, collected, touched, last, attached, runs>>

storeVars == <<part, setVars, listVars, resultVars, vars, objectVars, deepVars, progressVars>>

StoreInit ==
    /\ part \in {"sets", "lists", "results", "callbacks", "objects", "deep", "progress"}
    /\ part = "results" \/ query = CHOOSE q \in Queries : TRUE
    /\ part = "objects" \/ reuse = FALSE
    /\ part = "deep" \/ (links = NoLinks /\ modified = {1} /\ limit = 4)
    /\ Sets!Init /\ ListsInit /\ Results!Init /\ Init
    /\ ObjectsInit /\ DeepInit /\ ProgressInit

StoreNext ==
    /\ UNCHANGED part
    /\ \/ part = "sets" /\ Sets!Next
       \/ part # "sets" /\ UNCHANGED setVars
    /\ \/ part = "lists" /\ ListsNext
       \/ part # "lists" /\ UNCHANGED listVars
    /\ \/ part = "results" /\ Results!Next
       \/ part # "results" /\ UNCHANGED resultVars
    /\ \/ part = "callbacks" /\ Next
       \/ part # "callbacks" /\ UNCHANGED vars
    /\ \/ part = "objects" /\ ObjectsNext
       \/ part # "objects" /\ UNCHANGED objectVars
    /\ \/ part = "deep" /\ DeepNext
       \/ part # "deep" /\ UNCHANGED deepVars
    /\ \/ part = "progress" /\ ProgressNext
       \/ part # "progress" /\ UNCHANGED progressVars

StoreSpec == StoreInit /\ [][StoreNext]_storeVars

\* the changes of single objects alone
ObjectsOnlySpec == part = "objects" /\ StoreSpec

----------------------------------------------------------------------------
(* The properties of the parts that are instantiated                       *)

\* The chunks of an IndexSet (index_set.cpp) hold exactly the indexes that its
\* operations were asked for, their bounds and counts follow (verify()), and
\* shift, unshift, add_shifted and erase_or_unshift translate every position the
\* way the set says, however chunks were split and joined before.
IndexSetsExact ==
    part = "sets" => Sets!DenotesRef /\ Sets!ChunksVerify /\ Sets!PositionsExact

\* The change that calculate() finds between two runs of a query, and the merged
\* change of several runs, take the old rows to the new ones, do not report rows
\* as moved that kept their order, and report as modified what was.
ResultChangesExact ==
    part = "results" =>
      Results!DiffTakes /\ Results!NothingMovedReported /\ Results!ModifiedExact
=============================================================================
