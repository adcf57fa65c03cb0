----------------------------- MODULE GraphFiles -----------------------------
(***************************************************************************)
(* AKBSM: every node (NFP) is a file of its own, the edges are one more    *)
(* file (AKBSM_CRUD).  No operation keeps anything in memory: each reads   *)
(* the files it needs.  Deleting a node writes twice, the process may end  *)
(* in between, and files are written in place.  Ids are the smallest free  *)
(* ones, so those of deleted nodes come back.  WL_CRUD keeps one text file *)
(* of lines.                                                               *)
(***************************************************************************)
EXTENDS Naturals, Sequences, FiniteSets, FiniteSetsExt, SequencesExt

CONSTANTS
    Torn,           \* a file that does not parse
    NoDelete,       \* no deletion is under way
    MaxId,          \* bound on ids
    MaxBirths,      \* bound on the nodes ever made
    MaxHits,        \* bound on the counter of an edge
    MaxFaults,      \* bound on writes that fail and processes that end
    MaxText         \* bound on the text

VARIABLES
    nodes,          \* the node files, by id: which birth, and is it torn
    edges,          \* the edge file
    deleting,       \* the node whose file is gone while its edges are not
    births,         \* history: nodes made
    halfDeleted,    \* history: ids whose deletion never finished
    text,           \* the text file: lines, other words and newlines
    faults          \* bound

graph == <<nodes, edges, deleting, births, halfDeleted>>
vars == <<graph, text, faults>>

Ids == 1 .. MaxId
With(f, id, r) == [i \in DOMAIN f \cup {id} |-> IF i = id THEN r ELSE f[i]]
Without(f, ids) == [i \in DOMAIN f \ ids |-> f[i]]
NoFiles == [i \in {} |-> 0]

(* _next_id: the smallest free id, not the highest plus one.               *)
NextId(f) == Min((1 .. MaxId + 1) \ DOMAIN f)
Prepared(f, given) == IF given = 0 THEN NextId(f) ELSE given

Idle == deleting = NoDelete
(* _require_nfp asks only that the file exists.                            *)
Exists(n) == n \in DOMAIN nodes
Fault == faults < MaxFaults /\ faults' = faults + 1

\* Mutant: the edges that arrive at the node are forgotten.
Connected_Out(n) == {e \in DOMAIN edges : edges[e].from = n}

(* find_edges from the node and to it.                                     *)
Connected(n) == {e \in DOMAIN edges : n \in {edges[e].from, edges[e].to}}

(* save_edges: the file may be left without its end.                       *)
SaveEdges(new) ==
    \/ edges' = new /\ UNCHANGED faults
    \/ edges' = Torn /\ Fault

-----------------------------------------------------------------------------
Init ==
    /\ nodes = NoFiles /\ edges = NoFiles /\ deleting = NoDelete
    /\ births = 0 /\ halfDeleted = {}
    /\ text = << >>
    /\ faults = 0

WriteNode(n, birth) ==
    \/ nodes' = With(nodes, n, [birth |-> birth, torn |-> FALSE]) /\ UNCHANGED faults
    \/ nodes' = With(nodes, n, [birth |-> birth, torn |-> TRUE]) /\ Fault

CreateNfp(given) ==
    LET n == Prepared(nodes, given)
    IN  /\ Idle /\ n \in Ids /\ ~Exists(n) /\ births < MaxBirths
        /\ births' = births + 1
        /\ WriteNode(n, births + 1)
        /\ UNCHANGED <<edges, deleting, halfDeleted, text>>

(* update_nfp reads the node first: it can change one, and not mend it.    *)
UpdateNfp(n) ==
    /\ Idle /\ Exists(n) /\ ~nodes[n].torn
    /\ WriteNode(n, nodes[n].birth) /\ nodes' # nodes
    /\ UNCHANGED <<edges, deleting, births, halfDeleted, text>>

(* delete_nfp up to the unlink; with delete_edges = False it ends there,   *)
(* and only a node without edges is deleted.                               *)
Unlink(n) ==
    /\ Idle /\ Exists(n) /\ ~nodes[n].torn /\ edges # Torn
    /\ nodes' = Without(nodes, {n})
    /\ \/ deleting' = [node |-> n, edges |-> Connected(n)]
       \/ Connected(n) = {} /\ UNCHANGED deleting
    /\ UNCHANGED <<edges, births, halfDeleted, text, faults>>

(* the rest of it: the edges found before are taken out.                   *)
DropEdges ==
    /\ ~Idle
    /\ deleting' = NoDelete
    /\ \/ edges' = Without(edges, deleting.edges) /\ UNCHANGED <<halfDeleted, faults>>
       \/ edges' = Torn /\ Fault /\ UNCHANGED halfDeleted
       \* the process ends, or the file cannot be opened
       \/ Fault /\ halfDeleted' = halfDeleted \cup {deleting.node} /\ UNCHANGED edges
    /\ UNCHANGED <<nodes, births, text>>

(* create_edge; an edge remembers which births it was made between.        *)
CreateEdge(from, to, given) ==
    /\ Idle /\ edges # Torn
    /\ LET e == Prepared(edges, given)
       IN  /\ e \in Ids /\ e \notin DOMAIN edges
           /\ Exists(from) /\ Exists(to)
           /\ SaveEdges(With(edges, e, [from |-> from, to |-> to, hits |-> 0,
                                        born |-> <<nodes[from].birth, nodes[to].birth>>]))
    /\ UNCHANGED <<nodes, deleting, births, halfDeleted, text>>

(* update_edge with other ends or none: both must exist, changed or not.   *)
UpdateEdge(e, from, to, hit) ==
    /\ Idle /\ edges # Torn /\ e \in DOMAIN edges
    /\ Exists(from) /\ Exists(to)
    /\ LET old == edges[e]
           Born(n, before, birth) == IF n = before THEN birth ELSE nodes[n].birth
       IN  /\ hit => from = old.from /\ to = old.to /\ old.hits < MaxHits
           /\ SaveEdges([edges EXCEPT ![e] =
                [from |-> from, to |-> to, hits |-> old.hits + (IF hit THEN 1 ELSE 0),
                 born |-> <<Born(from, old.from, old.born[1]), Born(to, old.to, old.born[2])>>]])
    /\ edges' # edges
    /\ UNCHANGED <<nodes, deleting, births, halfDeleted, text>>

(* record_edge_hit, record_edge_miss: through update_edge, with the fields *)
(* just read.                                                              *)
CountEdge(e) == edges # Torn /\ e \in DOMAIN edges /\ UpdateEdge(e, edges[e].from, edges[e].to, TRUE)

DeleteEdge(e) ==
    /\ Idle /\ edges # Torn /\ e \in DOMAIN edges
    /\ SaveEdges(Without(edges, {e}))
    /\ UNCHANGED <<nodes, deleting, births, halfDeleted, text>>

-----------------------------------------------------------------------------
EndsLine(t) == t = << >> \/ Last(t) = "newline"

\* Mutant: no newline is put before the line.
AppendLine_Raw ==
    /\ Len(text) < MaxText
    /\ text' = text \o <<"line", "newline">>
    /\ UNCHANGED <<graph, faults>>

(* append_line begins a line of its own when the text does not end one.    *)
AppendLine ==
    /\ Len(text) < MaxText
    /\ text' = text \o (IF EndsLine(text) THEN << >> ELSE <<"newline">>) \o <<"line", "newline">>
    /\ UNCHANGED <<graph, faults>>

(* append takes the text as it comes; write, create and clear replace it.  *)
AppendText ==
    /\ Len(text) < MaxText
    /\ text' = Append(text, "word")
    /\ UNCHANGED <<graph, faults>>

WriteText ==
    /\ text # << >>
    /\ text' = << >>
    /\ UNCHANGED <<graph, faults>>

-----------------------------------------------------------------------------
GraphNext ==
    \/ \E n \in Ids : CreateNfp(n) \/ UpdateNfp(n) \/ Unlink(n)
    \/ CreateNfp(0)
    \/ DropEdges
    \/ \E e \in Ids, from, to \in Ids : CreateEdge(from, to, e) \/ UpdateEdge(e, from, to, FALSE)
    \/ \E from, to \in Ids : CreateEdge(from, to, 0)
    \/ \E e \in Ids : CountEdge(e) \/ DeleteEdge(e)

TextNext == AppendLine \/ AppendText \/ WriteText

Next == GraphNext \/ TextNext

Spec == Init /\ [][Next]_vars

-----------------------------------------------------------------------------
(***************************************************************************)
(* Properties                                                              *)
(***************************************************************************)
\* An edge joins the two nodes it was made for, though ids are used again,
\* unless the deletion of one of them was cut short; while a deletion runs,
\* only its own node may be missing.
EdgesJoinTheirNodes ==
    edges # Torn =>
        \A e \in DOMAIN edges :
            LET Holds(n, birth) ==
                    \/ n \in halfDeleted
                    \/ ~Idle /\ n = deleting.node
                    \/ Exists(n) /\ nodes[n].birth = birth
            IN  Holds(edges[e].from, edges[e].born[1]) /\ Holds(edges[e].to, edges[e].born[2])

\* A line appended as a line stands alone, whatever text came before or after.
LinesStandAlone ==
    \A i \in DOMAIN text : text[i] = "line" =>
        /\ i = 1 \/ text[i - 1] = "newline"
        /\ i < Len(text) /\ text[i + 1] = "newline"
=============================================================================
