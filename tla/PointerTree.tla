------------------------------ MODULE PointerTree ------------------------------
(***************************************************************************)
(* manager<Mem>::read (detail/mem/pfr/manager.hpp): one call reads a struct *)
(* of another process and everything its pointer_t fields lead to.  Which   *)
(* fields there are, where they lie and how many regions one vm_read may    *)
(* need is computed from the types (max_field_count.hpp, get_offset.hpp);   *)
(* at run time read fills two arrays of regions and calls vm_read once per  *)
(* level of the tree, following the pointers that the level above brought.  *)
(*                                                                         *)
(* vm_read (src/read_write.cpp) hands the regions to the kernel in calls of *)
(* at most UIO_MAXIOV.  The target runs on meanwhile, and a call stops at    *)
(* the first region it cannot read without anybody looking at its result.    *)
(*                                                                         *)
(* A node of the tree is the path of pointer fields that leads to it; a     *)
(* field is a node and an index, 0 for a node that is a scalar.             *)
(***************************************************************************)
EXTENDS Integers, SequencesExt

CONSTANTS Struct,     \* Struct[t]: the fields of the aggregate type t
          SizeOf,     \* SizeOf[t]: size of a type used as a value, in words
          Roots,      \* the types read is called with
          RootAddr,   \* the address read is called with
          Memories,   \* what the target's memory may hold at first
          Hot,        \* the cells the target writes while it runs
          HotValues,  \* the values it writes there
          UIO_MAXIOV, \* regions that one system call takes
          MaxCalls,   \* bound: calls of read into one object
          MaxWrites   \* bound: writes of the target

ASSUME BatchAssumption == UIO_MAXIOV \in Nat \ {0}

ASSUME MemoryAssumption ==
    /\ RootAddr \in Nat /\ HotValues \subseteq Nat
    /\ MaxCalls \in Nat /\ MaxWrites \in Nat
    /\ \A m \in Memories : DOMAIN m \subseteq Nat /\ m \in [DOMAIN m -> Nat] /\ Hot \subseteq DOMAIN m

Null == 0
PointerSize == 1
Types == DOMAIN Struct \cup DOMAIN SizeOf
Aggregate(t) == t \in DOMAIN Struct
FieldsOf(t) == IF Aggregate(t) THEN Struct[t] ELSE <<>>

\* What a member is: an offset_t or a pointer_t (told by their semantics tag),
\* or of any other type.
Kinds == {"value", "pointer", "plain"}

\* pointer_t and offset_t declare where they lie; a plain member does not.
Declared(f) == f.kind \in {"value", "pointer"}

ASSUME MembersHaveKinds ==
    /\ SizeOf \in [DOMAIN SizeOf -> Nat]
    /\ \A t \in DOMAIN Struct :
          /\ Struct[t] \in Seq(Range(Struct[t]))
          /\ \A f \in Range(Struct[t]) :
                /\ f.kind \in Kinds
                /\ IF f.kind = "pointer" THEN f.type \in Types ELSE f.type \in DOMAIN SizeOf
                /\ Declared(f) => f.offset \in Nat
FieldSize(f) == IF f.kind = "pointer" THEN PointerSize ELSE SizeOf[f.type]

\* A plain member follows the one before it; the first one lies at 0.
OffsetsBy(t, sizes) ==
    LET off[i \in DOMAIN Struct[t]] == IF Declared(Struct[t][i]) THEN Struct[t][i].offset
                                       ELSE IF i = 1 THEN 0
                                       ELSE off[i - 1] + sizes[i - 1]
    IN  off
FieldSizes(t) == [i \in DOMAIN Struct[t] |-> FieldSize(Struct[t][i])]

\* get_offset: a plain first member inherits from field_size<void, 0>, whose
\* size is 0, so that the second member, if plain too, lies on top of it.
Offsets == [t \in DOMAIN Struct |->
              OffsetsBy(t, [i \in DOMAIN Struct[t] |-> IF i = 1 /\ ~Declared(Struct[t][1]) THEN 0
                                                       ELSE FieldSizes(t)[i]])]

\* The layout the struct describes.
Layout == [t \in DOMAIN Struct |-> OffsetsBy(t, FieldSizes(t))]

\* layout_validator: what a type must pass, at compile time, to be read.  The
\* types its pointers lead to are not validated.
Validated(t) == \A i \in DOMAIN Struct[t] \ {1} : Offsets[t][i] > Offsets[t][i - 1]

ASSUME RootsValidated == \A t \in Roots : Aggregate(t) /\ Validated(t)

\* max_pointer_depth: it looks into plain members too.
Depth == LET depth[t \in Types] ==
               Max({0} \cup {CASE f.kind = "pointer" -> 1 + depth[f.type]
                               [] f.kind = "plain" -> depth[f.type]
                               [] f.kind = "value" -> 0 : f \in Range(FieldsOf(t))})
         IN  depth

\* The templates come to an end: no root leads back to itself.
ASSUME RootsAreDeep == \A t \in Roots : Depth[t] \in Nat

\* pointer_list_t: the indices of the pointer fields, in order.
PointersOf(t) ==
    LET upTo[i \in 0 .. Len(FieldsOf(t))] ==
          IF i = 0 THEN <<>>
          ELSE IF FieldsOf(t)[i].kind = "pointer" THEN Append(upTo[i - 1], i) ELSE upTo[i - 1]
    IN  upTo[Len(FieldsOf(t))]

\* The sum of a sequence of numbers.
Total(s) == LET sum[i \in 0 .. Len(s)] == IF i = 0 THEN 0 ELSE sum[i - 1] + s[i]
            IN  sum[Len(s)]

\* max_field_count: how many fields the aggregates of each level have, and the
\* most of any level.  A pointer to a scalar adds nothing here.
LevelCount(t, n) ==
    LET count[x \in Types \X (0 .. n)] ==
          IF x[2] = 0 THEN Len(FieldsOf(x[1]))
          ELSE Total([i \in DOMAIN PointersOf(x[1]) |->
                        count[<<Struct[x[1]][PointersOf(x[1])[i]].type, x[2] - 1>>]])
    IN  count[<<t, n>>]
MaxFieldCount(t) == Max({LevelCount(t, n) : n \in 0 .. Depth[t]})

\* The places of the arrays local and remote (max_field_count_v<T>).
Capacity == [t \in Roots |-> MaxFieldCount(t)]

\* The type of a node of the tree of a root.
TypeAt(t, p) ==
    LET type[n \in 0 .. Len(p)] == IF n = 0 THEN t ELSE Struct[type[n - 1]][p[n]].type
    IN  type[Len(p)]

\* The nodes of each level, in the order in which read_level visits them.
Children(t, p) == [m \in DOMAIN PointersOf(TypeAt(t, p)) |->
                     Append(p, PointersOf(TypeAt(t, p))[m])]
Levels ==
    [t \in Roots |->
       LET nodes[n \in 0 .. Depth[t]] ==
             IF n = 0 THEN << <<>> >>
             ELSE FlattenSeq([j \in DOMAIN nodes[n - 1] |-> Children(t, nodes[n - 1][j])])
       IN  nodes]

\* The fields of the tree of a root, with their sizes.
Indices(t) == IF Aggregate(t) THEN DOMAIN Struct[t] ELSE {0}
SizeAt(t, i) == IF i = 0 THEN SizeOf[t] ELSE FieldSize(Struct[t][i])
Sizes ==
    [t \in Roots |->
       LET nodes == UNION {Range(Levels[t][n]) : n \in 0 .. Depth[t]}
           fields == UNION {{<<p, i>> : i \in Indices(TypeAt(t, p))} : p \in nodes}
       IN  [k \in fields |-> SizeAt(TypeAt(t, k[1]), k[2])]]

--------------------------------------------------------------------------------

VARIABLES root,     \* the type of the object that is read into
          mem,      \* the target's memory
          object,   \* the words of every field of the object's tree
          level,    \* the level being read; -1 before the first call
          regions,  \* the regions handed to vm_read at this level
          next,     \* the region vm_read copies next
          calls, writes,
          source,   \* history: where this call has read each field from
          quiet     \* history: the target has not written during this call

vars == <<root, mem, object, level, regions, next, calls, writes, source, quiet>>

NodeType(p) == TypeAt(root, p)
TreeFields == DOMAIN Sizes[root]
NoAddr == -1

\* Mutant: the node's regions are based on the first pointer of its parent.
PointerToFirst(p) == object[<<Front(p), PointersOf(NodeType(Front(p)))[1]>>][1]

\* The remote address a node's pointer field holds (pointer_offset::get).
PointerTo(p) == object[<<Front(p), Last(p)>>][1]

\* fill_array for one node: one region per field, or one for a scalar.  It writes
\* them one after the other, however many places there are: see Fits.
Fill(p, base) ==
    IF Aggregate(NodeType(p))
    THEN [i \in DOMAIN Struct[NodeType(p)] |->
            [to |-> <<p, i>>, addr |-> base + Offsets[NodeType(p)][i],
             size |-> Sizes[root][<<p, i>>]]]
    ELSE << [to |-> <<p, 0>>, addr |-> base, size |-> Sizes[root][<<p, 0>>]] >>

FillLevel(n) == FlattenSeq([j \in DOMAIN Levels[root][n] |->
                              Fill(Levels[root][n][j], PointerTo(Levels[root][n][j]))])

\* Where fill_array has written behind the ends of the arrays, what the program
\* does is undefined: no step of read follows, and the properties say nothing of
\* what it would bring.
Fits == Len(regions) <= Capacity[root]

Words(addr, size) == [k \in 1 .. size |-> mem[addr + k - 1]]
Readable(addr, size) == addr .. addr + size - 1 \subseteq DOMAIN mem

\* Mutant: the regions that do not fill a system call are left out.
FullCallsRead == Fits /\ next > UIO_MAXIOV * (Len(regions) \div UIO_MAXIOV)

\* vm_read has gone through the regions of the level.
LevelRead == Fits /\ next > Len(regions)
Finished == level = Depth[root] /\ LevelRead

Init == /\ root \in Roots
        /\ mem \in Memories
        /\ object = [k \in TreeFields |-> [j \in 1 .. Sizes[root][k] |-> Null]]
        /\ level = -1
        /\ regions = <<>>
        /\ next = 1
        /\ calls = 0
        /\ writes = 0
        /\ source = [k \in TreeFields |-> NoAddr]
        /\ quiet = TRUE

\* manager::read: the regions of the root, for the first vm_read.
Call == /\ level = -1 \/ Finished
        /\ calls < MaxCalls
        /\ calls' = calls + 1
        /\ level' = 0
        /\ regions' = Fill(<<>>, RootAddr)
        /\ next' = 1
        /\ source' = [k \in TreeFields |-> NoAddr]
        /\ quiet' = TRUE
        /\ UNCHANGED <<root, mem, object, writes>>

\* process_vm_readv copies one region, while the target runs.
Copy == /\ Fits /\ next \in DOMAIN regions
        /\ Readable(regions[next].addr, regions[next].size)
        /\ object' = [object EXCEPT ![regions[next].to] =
                        Words(regions[next].addr, regions[next].size)]
        /\ source' = [source EXCEPT ![regions[next].to] = regions[next].addr]
        /\ next' = next + 1
        /\ UNCHANGED <<root, mem, level, regions, calls, writes, quiet>>

\* _process_vm: the last region of the system call that region n belongs to.
\* First count / UIO_MAXIOV calls that are full, then one with what remains.
CallEnd(n) == LET processes == Len(regions) \div UIO_MAXIOV
                  full == UIO_MAXIOV * processes
              IN  IF n <= full THEN UIO_MAXIOV * ((n - 1) \div UIO_MAXIOV + 1)
                  ELSE full + (Len(regions) % UIO_MAXIOV)

\* Mutant: a failed call is the last one.
FaultEndsLevel ==
    /\ Fits /\ next \in DOMAIN regions
    /\ ~Readable(regions[next].addr, regions[next].size)
    /\ next' = Len(regions) + 1
    /\ UNCHANGED <<root, mem, object, level, regions, calls, writes, source, quiet>>

\* A call stops at a region it cannot read, the rest of its regions stay as they
\* were, and the next call is made.
Fault == /\ Fits /\ next \in DOMAIN regions
         /\ ~Readable(regions[next].addr, regions[next].size)
         /\ next' = CallEnd(next) + 1
         /\ UNCHANGED <<root, mem, object, level, regions, calls, writes, source, quiet>>

\* Mutant: read_pointer goes on from the last level's count.
DescendWithoutReset == /\ LevelRead /\ level \in 0 .. Depth[root] - 1
                       /\ level' = level + 1
                       /\ regions' = regions \o FillLevel(level')
                       /\ next' = 1
                       /\ UNCHANGED <<root, mem, object, calls, writes, source, quiet>>

\* read_pointer: the next level's regions, from the pointers just read.
Descend == /\ LevelRead /\ level \in 0 .. Depth[root] - 1
           /\ level' = level + 1
           /\ regions' = FillLevel(level')
           /\ next' = 1
           /\ UNCHANGED <<root, mem, object, calls, writes, source, quiet>>

\* The target changes a cell.
TargetWrites == \E a \in Hot, v \in HotValues :
                  /\ writes < MaxWrites
                  /\ mem[a] # v
                  /\ mem' = [mem EXCEPT ![a] = v]
                  /\ writes' = writes + 1
                  /\ quiet' = FALSE
                  /\ UNCHANGED <<root, object, level, regions, next, calls, source>>

Next == Call \/ Copy \/ Fault \/ Descend \/ TargetWrites
Spec == Init /\ [][Next]_vars

--------------------------------------------------------------------------------
(* Properties *)

TypeOK == /\ root \in Roots
          /\ level \in -1 .. Depth[root]
          /\ DOMAIN object = TreeFields
          /\ \A k \in TreeFields : Len(object[k]) = Sizes[root][k]
          /\ \A r \in Range(regions) : r.to \in TreeFields
          /\ next \in 1 .. Len(regions) + 1
          /\ calls \in 0 .. MaxCalls /\ writes \in 0 .. MaxWrites

\* What the walk over the object writes into the arrays of a level is what the
\* count over the types, which sized the arrays, allowed for, and one region more
\* for each pointer to a scalar: these the count leaves out.  So a level without
\* them keeps to the arrays, and a level with them is written behind their ends
\* exactly where the fields counted leave too few places free for them.
RegionsCounted ==
    LET scalars == Cardinality({i \in DOMAIN regions : regions[i].to[2] = 0})
        free == Capacity[root] - LevelCount(root, level)
    IN  level >= 0 => /\ Len(regions) = LevelCount(root, level) + scalars
                      /\ free >= 0
                      /\ Fits <=> scalars <= free

\* get_offset and plain members that a struct begins with: from the second on
\* they are read from below where they lie, by the size of the first.  Only roots
\* are validated, so the structs behind pointers may have such members.
Shift(t, i) == IF i > 1 /\ \A j \in 1 .. i : ~Declared(Struct[t][j])
               THEN FieldSize(Struct[t][1]) ELSE 0

\* Where a field is read, relative to its node.
ReadAt(k) == IF k[2] = 0 THEN 0
             ELSE Layout[NodeType(k[1])][k[2]] - Shift(NodeType(k[1]), k[2])

\* However the target's writes and the faults fall, and as long as the arrays
\* hold the regions, a struct's members are read from the struct that the pointer
\* now in the object leads to, never from one it led to before: the object is one
\* tree, not pieces of two.
Coherent ==
    /\ TypeOK
    /\ Fits => \A k \in TreeFields :
         source[k] # NoAddr /\ k[1] # <<>> =>
           source[k] = object[<<Front(k[1]), Last(k[1])>>][1] + ReadAt(k)

\* What the tree is in the target now: the address of each node, and whether
\* one of its fields can be read.
AddrOf(p) ==
    LET addr[n \in 0 .. Len(p)] ==
          IF n = 0 THEN RootAddr
          ELSE LET a == addr[n - 1] + Layout[NodeType(SubSeq(p, 1, n - 1))][p[n]]
               IN  IF a \in DOMAIN mem THEN mem[a] ELSE Null
    IN  addr[Len(p)]
FieldAddr(k) == AddrOf(k[1]) + (IF k[2] = 0 THEN 0 ELSE Layout[NodeType(k[1])][k[2]])
Reachable(k) == Readable(FieldAddr(k), Sizes[root][k])
Exact(k) == object[k] = Words(AddrOf(k[1]) + ReadAt(k), Sizes[root][k])

\* README.md:20, one read for the whole tree: where the target has not written
\* meanwhile, all of the tree can be read and its regions have found places in
\* the arrays, the object is the tree, but for the members that Shift is about:
\* these hold the words that far below their own.
ReadsTree == Finished /\ quiet /\ (\A k \in TreeFields : Reachable(k))
               => \A k \in TreeFields : Exact(k)

\* A region that cannot be read, as a null pointer's, costs no more than the
\* rest of its system call: of every UIO_MAXIOV regions, the ones before the
\* first unreadable one have been read at the end of the level, and no others.
\* It speaks of levels whose regions have places in the arrays (LevelRead).
Batch(i) == (i - 1) \div UIO_MAXIOV
FailureContained ==
    LevelRead => \A i \in DOMAIN regions :
        source[regions[i].to] # NoAddr <=>
            \A j \in 1 .. i : Batch(j) = Batch(i) => Readable(regions[j].addr, regions[j].size)
================================================================================
