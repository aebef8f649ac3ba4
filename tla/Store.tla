------------------------------- MODULE Store -------------------------------
(***************************************************************************)
(* The tables of the SQLite backend and the statements its operations are  *)
(* made of.  A database is a record of its tables:                         *)
(*                                                                         *)
(*   versions   the heads with a version                                   *)
(*   roots      rows <<head, key, node>> (version_namespaces)              *)
(*   nodes      id -> [kind, leaf], the leaf's value for a "Leaf"          *)
(*   edges      rows [parent, at, child] (map_edges and array_edges)       *)
(*   rows       head -> the row of the envelope log                        *)
(*                                                                         *)
(* Every statement maps a database to the next one; what an insertion      *)
(* yields is the database with the new row's id.                           *)
(***************************************************************************)
EXTENDS Rules

EmptyDb == [versions |-> {}, roots |-> {}, nodes |-> <<>>, edges |-> {}, rows |-> <<>>]

Yield(db, id) == [db |-> db, id |-> id]

-----------------------------------------------------------------------------
(* Rows.                                                                   *)

\* INTEGER PRIMARY KEY without AUTOINCREMENT: one past the largest id there
\* is, so the ids of swept rows come back.
insert_node(db, kind, leaf) ==
  LET row == [kind |-> kind, leaf |-> leaf]
      id == 1 + Max({0} \cup DOMAIN db.nodes)
  IN Yield([db EXCEPT !.nodes = [n \in DOMAIN @ \cup {id} |-> IF n = id THEN row ELSE @[n]]],
           id)

insert_edge(db, parent, at, child) ==
  [db EXCEPT !.edges = @ \cup {[parent |-> parent, at |-> at, child |-> child]}]

node_kind(db, id) == db.nodes[id].kind

EdgesOf(db, id) == {e \in db.edges : e.parent = id}

\* map_child, array_child: the child an edge at this segment leads to.
Child(db, id, seg) == {e.child : e \in {e \in EdgesOf(db, id) : e.at = seg}}

\* The one member of a set.
The(S) == CHOOSE x \in S : TRUE

\* The segment's shape is the node's.
SegmentFits(db, id, seg) ==
  \/ node_kind(db, id) = "Map" /\ "key" \in DOMAIN seg
  \/ node_kind(db, id) = "Array" /\ "index" \in DOMAIN seg

-----------------------------------------------------------------------------
(* Trees.                                                                  *)

RECURSIVE insert_value(_, _)
RECURSIVE InsertEntries(_, _)
\* Stores a value as fresh rows, the container's before its entries'.
insert_value(db, v) ==
  CASE IsMap(v) ->
         InsertEntries(insert_node(db, "Map", Nothing),
                       [i \in 1 .. Cardinality(DOMAIN v.map) |->
                          LET k == SetToSeq(DOMAIN v.map)[i] IN <<Key(k), v.map[k]>>])
    [] IsArray(v) ->
         InsertEntries(insert_node(db, "Array", Nothing),
                       [i \in 1 .. Len(v.array) |-> <<Index(i - 1), v.array[i]>>])
    [] OTHER -> insert_node(db, "Leaf", v)

InsertEntries(new, entries) ==
  IF entries = <<>> THEN new
  ELSE LET entry == insert_value(new.db, Head(entries)[2])
       IN InsertEntries(Yield(insert_edge(entry.db, new.id, Head(entries)[1], entry.id), new.id),
                        Tail(entries))

\* An array's children ORDER BY idx.
ByIndex(edges) ==
  LET order == SetToSortSeq({e.at.index : e \in edges}, LAMBDA a, b : a < b)
  IN [i \in DOMAIN order |-> The({e.child : e \in {x \in edges : x.at.index = order[i]}})]

RECURSIVE value_of(_, _)
\* Materialises the subtree rooted at id.
value_of(db, id) ==
  CASE node_kind(db, id) = "Map" ->
         LET edges == EdgesOf(db, id)
         IN Map([k \in {e.at.key : e \in edges} |-> value_of(db, The(Child(db, id, Key(k))))])
    [] node_kind(db, id) = "Array" ->
         LET order == ByIndex(EdgesOf(db, id))
         IN Array([i \in DOMAIN order |-> value_of(db, order[i])])
    [] OTHER -> db.nodes[id].leaf

-----------------------------------------------------------------------------
(* Path copies.                                                            *)

\* A new container node with these edges of an old one copied under it.
CopyEdges(db, kind, edges) ==
  LET new == insert_node(db, kind, Nothing)
  IN Yield([new.db EXCEPT !.edges = @ \cup {[e EXCEPT !.parent = new.id] : e \in edges}],
           new.id)

\* Slip: the row is edited where it stands.
new_map_in_place(db, old, key) ==
  Yield([db EXCEPT !.edges = {e \in @ : e.parent # old \/ e.at # Key(key)}], old)

new_map_without(db, old, key) ==
  CopyEdges(db, "Map", {e \in EdgesOf(db, old) : e.at # Key(key)})

new_array_replacing(db, old, idx, child) ==
  LET new == CopyEdges(db, "Array", {e \in EdgesOf(db, old) : e.at # Index(idx)})
  IN Yield(insert_edge(new.db, new.id, Index(idx), child), new.id)

new_array_removing(db, old, idx) ==
  CopyEdges(db, "Array",
            {[e EXCEPT !.at = IF @.index > idx THEN Index(@.index - 1) ELSE @] :
               e \in {x \in EdgesOf(db, old) : x.at # Index(idx)}})

\* The new entry's index is the number of edges there are.
new_array_appending(db, old, child) ==
  LET new == CopyEdges(db, "Array", EdgesOf(db, old))
  IN Yield(insert_edge(new.db, new.id, Index(Cardinality(EdgesOf(db, old))), child), new.id)

increment_leaf(db, old, inc) ==
  insert_node(db, "Leaf", Integer(The(Summed(inc, db.nodes[old].leaf.int))))

\* Slip: the entries that stay keep the indices they had.
new_container_retaining_gaps(db, old, conds) ==
  CopyEdges(db, node_kind(db, old),
            {e \in EdgesOf(db, old) : ~Matches(conds, value_of(db, e.child))})

\* What stays of an array is numbered afresh.
new_container_retaining(db, old, conds) ==
  LET kept == {e \in EdgesOf(db, old) : ~Matches(conds, value_of(db, e.child))}
      rank(at) == Cardinality({e \in kept : e.at.index < at.index})
  IN CopyEdges(db, node_kind(db, old),
               {[e EXCEPT !.at = IF "key" \in DOMAIN @ THEN @ ELSE Index(rank(@))] : e \in kept})

amend_node(db, id, op) ==
  CASE "append" \in DOMAIN op ->
         LET entry == insert_value(db, op.append)
         IN new_array_appending(entry.db, id, entry.id)
    [] "increment" \in DOMAIN op -> increment_leaf(db, id, op.increment)
    [] OTHER -> new_container_retaining(db, id, op.delete)

NoNode == 0

\* What the last segment comes to lead to: for a set the new value, or no
\* node at all, for an amendment the amended one, or an append's fresh array.
terminal(db, old, m) ==
  IF m.type = "SetNamespaceKey"
  THEN IF m.value = Nothing THEN Yield(db, NoNode) ELSE insert_value(db, m.value)
  ELSE IF old # {} THEN amend_node(db, The(old), m.op)
  ELSE LET entry == insert_value(db, m.op.append)
           array == insert_node(entry.db, "Array", Nothing)
       IN Yield(insert_edge(array.db, array.id, Index(0), entry.id), array.id)

RECURSIVE replace_child(_, _, _, _)
\* Clones every node on the path; the terminal is handed what the last
\* segment addresses, if anything.
replace_child(db, id, path, m) ==
  LET seg == Head(path)
      old == Child(db, id, seg)
      new == IF Len(path) > 1 THEN replace_child(db, The(old), Tail(path), m)
             ELSE terminal(db, old, m)
  IN IF node_kind(db, id) = "Map"
     THEN LET copy == new_map_without(new.db, id, seg.key)
          IN IF new.id = NoNode THEN copy
             ELSE Yield(insert_edge(copy.db, copy.id, seg, new.id), copy.id)
     ELSE IF new.id = NoNode THEN new_array_removing(new.db, id, seg.index)
     ELSE new_array_replacing(new.db, id, seg.index, new.id)

-----------------------------------------------------------------------------
(* The operations of the backend.                                          *)

Roots(db, h) == {r \in db.roots : r[1] = h}

namespace_root(db, h, key) == {r[3] : r \in {x \in Roots(db, h) : x[2] = key}}

set_root(db, h, key, id) ==
  [db EXCEPT !.roots = {r \in @ : r[1] # h \/ r[2] # key} \cup {<<h, key, id>>}]

replace_version(db, h) ==
  [db EXCEPT !.versions = @ \cup {h}, !.roots = {r \in @ : r[1] # h}]

\* One commit, in one transaction.
commit(db, parent, h, m) ==
  LET fresh == replace_version(db, h)
      tx    == [fresh EXCEPT !.roots = @ \cup {<<h, r[2], r[3]>> : r \in Roots(db, parent)}]
      root  == The(namespace_root(tx, h, m.key))
      new   == CASE m.type = "SetNamespace" -> insert_value(tx, m.value)
                 [] m.path = <<>> -> amend_node(tx, root, m.op)
                 [] OTHER -> replace_child(tx, root, m.path, m)
  IN IF m.type = "DeleteNamespace"
     THEN [tx EXCEPT !.roots = {r \in @ : r[1] # h \/ r[2] # m.key}]
     ELSE set_root(new.db, h, m.key, new.id)

install(db, h, state) ==
  FoldSet(LAMBDA key, d : LET new == insert_value(d, state[key])
                          IN set_root(new.db, h, key, new.id),
          replace_version(db, h), DOMAIN state)

RECURSIVE Reach(_, _)
\* WITH RECURSIVE walk: every node a surviving root leads to.
Reach(db, ids) ==
  LET next == ids \cup {e.child : e \in {x \in db.edges : x.parent \in ids}}
  IN IF next = ids THEN ids ELSE Reach(db, next)

Reachable(db) == Reach(db, {r[3] : r \in db.roots})

\* Mark and sweep.
retain(db, keep) ==
  LET kept == [db EXCEPT !.versions = @ \cap keep, !.roots = {r \in @ : r[1] \in keep}]
      live == Reachable(kept)
  IN [kept EXCEPT !.edges = {e \in @ : e.parent \in live},
                  !.nodes = [n \in DOMAIN @ \cap live |-> @[n]]]

-----------------------------------------------------------------------------
(* Reads.                                                                  *)

RECURSIVE resolve_from(_, _, _, _)
resolve_from(db, id, path, depth) ==
  IF path = <<>> THEN Node(node_kind(db, id))
  ELSE IF ~SegmentFits(db, id, Head(path)) THEN Mismatch(depth)
  ELSE IF Child(db, id, Head(path)) = {} THEN Missing(depth, node_kind(db, id))
  ELSE resolve_from(db, The(Child(db, id, Head(path))), Tail(path), depth + 1)

\* SqliteStorage::resolve, for a namespace the version holds.
resolve(db, h, key, path) == resolve_from(db, The(namespace_root(db, h, key)), path, 0)

RECURSIVE walk_from(_, _, _)
walk_from(db, id, path) ==
  IF path = <<>> THEN id
  ELSE IF SegmentFits(db, id, Head(path)) /\ Child(db, id, Head(path)) # {}
       THEN walk_from(db, The(Child(db, id, Head(path))), Tail(path))
       ELSE NoNode

\* SqliteStorage::walk.
walk(db, h, key, path) ==
  IF namespace_root(db, h, key) = {} THEN NoNode
  ELSE walk_from(db, The(namespace_root(db, h, key)), path)

value_at(db, h, key, path) ==
  LET id == walk(db, h, key, path) IN IF id = NoNode THEN Nothing ELSE value_of(db, id)

\* An array's length, a map's keys.
meta_at(db, h, key, path) ==
  LET id == walk(db, h, key, path)
  IN IF id = NoNode THEN Nothing
     ELSE CASE node_kind(db, id) = "Array" -> [len |-> Cardinality(EdgesOf(db, id))]
            [] node_kind(db, id) = "Map" -> [keys |-> {e.at.key : e \in EdgesOf(db, id)}]
            [] OTHER -> [leaf |-> TRUE]

\* namespace_keys and namespaces: a version's content.
namespace_keys(db, h) == {r[2] : r \in Roots(db, h)}
namespaces(db, h) ==
  [key \in namespace_keys(db, h) |-> value_of(db, The(namespace_root(db, h, key)))]

-----------------------------------------------------------------------------
(* The envelope log.                                                       *)

\* A status as the columns beside the envelope's bytes; a column that is not
\* NULL is a set of one.
status_columns(s) ==
  CASE "failed" \in DOMAIN s -> [status |-> 1, weight |-> {}, bad_keys |-> {s.failed}]
    [] "weight" \in DOMAIN s -> [status |-> 2, weight |-> {s.weight}, bad_keys |-> {}]
    [] OTHER -> [status |-> 0, weight |-> {}, bad_keys |-> {}]

status_from(row) ==
  CASE row.status = 1 -> Failed(The(row.bad_keys))
    [] row.status = 2 -> AllMatched(The(row.weight))
    [] OTHER -> [unchecked |-> TRUE]

\* The upsert leaves stored_at as it is.
put_envelope(db, h, s, now) ==
  [db EXCEPT !.rows = [r \in DOMAIN @ \cup {h} |->
     IF r # h THEN @[r]
     ELSE [columns |-> status_columns(s),
           stored_at |-> IF h \in DOMAIN @ THEN @[h].stored_at ELSE now]]]

remove_envelope(db, h) == [db EXCEPT !.rows = [r \in DOMAIN @ \ {h} |-> @[r]]]

logged_envelope(db, h) ==
  [status |-> status_from(db.rows[h].columns), stored_at |-> db.rows[h].stored_at]

\* The rows whose prev is p.
children_of(db, p) == {h \in DOMAIN db.rows : Len(h) > 1 /\ Front(h) = p}
=============================================================================
