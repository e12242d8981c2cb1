----------------------------- MODULE DeviceTree -----------------------------
(***************************************************************************)
(* The trees of core/boot/apple/dtre.c: what its functions make of a tree  *)
(* and of a blob.                                                          *)
(*                                                                         *)
(* A node is reached by its path, the places of the nodes on the way down  *)
(* to it in the lists of children, and a tree is a function from paths to  *)
(* nodes, its root at <<>>.  What is added to a list comes behind its last *)
(* place, what is removed leaves a gap.  A node has a name and its         *)
(* properties in order; a property's size is what its value takes in the   *)
(* structure block, in cells of four bytes.  The value of "compatible" is  *)
(* a list of names, each the set of the known device names it contains.    *)
(***************************************************************************)
EXTENDS Integers, Sequences, SequencesExt

CONSTANTS StructCells,  \* struct_size of apple_dt_serialize, in cells
          StrNames,     \* str_size, in property names
          NoNode

NodeNew(name) == [name |-> name, props |-> <<>>]
Prop(name, value, cells) == [name |-> name, value |-> value, cells |-> cells]

\* The first property of a name.
Called(node, name) == {k \in DOMAIN node.props : node.props[k].name = name}
HasProp(node, name) == Called(node, name) # {}
PropValue(node, name) == node.props[Min(Called(node, name))].value

\* A property that is there already is appended a second time.
SetPropTwice(node, p) == [node EXCEPT !.props = Append(@, p)]
SetProp(node, p) ==
    IF HasProp(node, p.name) THEN [node EXCEPT !.props[Min(Called(node, p.name))] = p]
    ELSE [node EXCEPT !.props = Append(@, p)]

Children(tree, path) == {q \in DOMAIN tree : q # <<>> /\ Front(q) = path}
NewPath(tree, path) == Append(path, Max({Last(q) : q \in Children(tree, path)} \cup {0}) + 1)
AddChild(tree, path, node) ==
    [q \in DOMAIN tree \cup {NewPath(tree, path)} |->
        IF q = NewPath(tree, path) THEN node ELSE tree[q]]

\* apple_dt_find_node for a path of one name: the first child called so, or
\* a new one at the end.
Named(tree, path, name) == {q \in Children(tree, path) : tree[q].name = name}
HasChild(tree, path, name) == Named(tree, path, name) # {}
ChildAt(tree, path, name) == Append(path, Min({Last(q) : q \in Named(tree, path, name)}))
WithChild(tree, path, name) ==
    IF HasChild(tree, path, name) THEN tree ELSE AddChild(tree, path, NodeNew(name))

-----------------------------------------------------------------------------
(* apple_dt_filter_nodes: unsupported properties go everywhere, the root's *)
(* included; below the root a node stays when it has no "compatible" or    *)
(* one the machine implements, and goes with all that is below it.         *)
RemoveProps ==
    {"content-protect", "encryptable", "pmp", "nand-debug", "nvme-coastguard", "baseband-chipset"}
KeepComp ==
    {"aic,1", "aic,v1", "uart-1,samsung", "uart,samsung", "dart,s8000", "dart,t8010",
     "dart,t8020", "dart", "wdt", "nvram", "virtio,mmio", "apple-silicon"}
RemoveUnsupported(node) ==
    LET kept == {k \in DOMAIN node.props : node.props[k].name \notin RemoveProps}
    IN  [node EXCEPT !.props = Restrict(@, kept)]
\* The search ends with the first name of the list.
ShouldKeep(node) ==
    HasProp(node, "compatible") =>
        LET names == PropValue(node, "compatible")
        IN  names # <<>> /\ names[1] \cap KeepComp # {}

Above(path) == {SubSeq(path, 1, k) : k \in 1..Len(path)}
Remaining(tree) == {path \in DOMAIN tree : \A q \in Above(path) : ShouldKeep(tree[q])}
FilterNodes(tree) == [path \in Remaining(tree) |-> RemoveUnsupported(tree[path])]

\* apple_dt_populate_runtime: /chosen says where the memory is, how the
\* kernel was started and that the device is not in production.
Runtime(node, base, size, bootArgs) ==
    LET started == IF bootArgs.cells = 0 THEN node
                   ELSE SetProp(node, Prop("boot-args", bootArgs.text, bootArgs.cells))
        located == SetProp(SetProp(started, Prop("dram-base", base, 2)),
                           Prop("dram-size", size, 2))
    IN  SetProp(SetProp(located, Prop("random-seed", 0, 8)), Prop("security-domain", 0, 1))
PopulateRuntime(root, base, size, bootArgs) ==
    LET tree == WithChild(root, <<>>, "chosen")
        chosen == ChildAt(tree, <<>>, "chosen")
    IN  WithChild([tree EXCEPT ![chosen] = Runtime(@, base, size, bootArgs)],
                  chosen, "manifest-properties")

-----------------------------------------------------------------------------
(* The binary form.  apple_dt_serialize gives the structure block a fixed  *)
(* size, pads it to four cells and closes it; it fails when either block   *)
(* overflows.                                                              *)
NodeCells(node) ==   \* BEGIN_NODE, the name, END_NODE and the properties
    3 + MapThenSumSet(LAMBDA k : 3 + node.props[k].cells, DOMAIN node.props)
Serializes(tree) ==
    LET cells == MapThenSumSet(LAMBDA path : NodeCells(tree[path]), DOMAIN tree)
        names == MapThenSumSet(LAMBDA path : Cardinality(DOMAIN tree[path].props), DOMAIN tree)
        padded == ((cells + 3) \div 4) * 4
    IN  cells <= StructCells /\ padded + 1 <= StructCells /\ names <= StrNames

\* The blob.  dt_node_serialize writes the properties' names, which belong
\* into the strings block, over the structure block from its first cell on,
\* and into the strings block nothing: a tree that has a property begins with
\* a name where its reader expects the root.
Serialized(tree) ==
    [magic |-> TRUE, inside |-> TRUE,
     cells |-> <<IF \E path \in DOMAIN tree : DOMAIN tree[path].props # {}
                 THEN [token |-> "name"]
                 ELSE [token |-> "begin", name |-> tree[<<>>].name]>>]

\* dt_parse_node, a token at a time, in the node at the path.  The end of the
\* root ends the parsing, and so does a cell that is no token, which the
\* nodes around it do not take either.
ParseToken(state, cell) ==
    LET path == state.path
    IN  CASE state.ended -> state
          [] ~state.ended /\ cell.token = "prop" ->
               [state EXCEPT !.tree[path] = SetProp(@, cell.prop)]
          [] ~state.ended /\ cell.token = "begin" ->
               [state EXCEPT !.tree = AddChild(@, path, NodeNew(cell.name)),
                             !.path = NewPath(state.tree, path)]
          [] ~state.ended /\ cell.token = "end" /\ path # <<>> ->
               [state EXCEPT !.path = Front(path)]
          [] ~state.ended /\ cell.token = "nop" -> state
          [] OTHER -> [state EXCEPT !.ended = TRUE]
ParseRoot(cell) ==
    [tree |-> [p \in {<<>>} |-> NodeNew(cell.name)], path |-> <<>>, ended |-> FALSE]
Parsed(cells) ==   \* the state behind each cell
    LET parsed[k \in DOMAIN cells] ==
            IF k = 1 THEN ParseRoot(cells[1]) ELSE ParseToken(parsed[k - 1], cells[k])
    IN  parsed
ParseNode(cells) == Parsed(cells)[Len(cells)].tree

\* apple_dt_load: a header with the magic and offsets inside the data, and a
\* structure that begins with a node.
LoadTree(blob) ==
    IF /\ blob.magic /\ blob.inside
       /\ blob.cells # <<>> /\ blob.cells[1].token = "begin"
    THEN ParseNode(blob.cells) ELSE NoNode
=============================================================================
