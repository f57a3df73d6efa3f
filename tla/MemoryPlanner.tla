--------------------------- MODULE MemoryPlanner ----------------------------
(***************************************************************************)
(* memory_planner_t of graph/backend/dnnl/passes/memory_planning.cpp and   *)
(* the executions that use its plan.  A subgraph is built first, operation *)
(* by operation in topological order; then the passes of run follow one    *)
(* another, each an action; then the compiled subgraph is executed twice,  *)
(* the second time with its constants in the cache.                        *)
(*                                                                         *)
(* What a memory descriptor, an operation kind and its attributes mean to  *)
(* the planner is a record of bound.kinds: whether the output is the input *)
(* seen differently (is_preprocess_op), which input may be computed in     *)
(* place (get_op_inplace_pairs), and the sizes.                            *)
(***************************************************************************)
EXTENDS Integers, FiniteSets, SequencesExt

CONSTANTS
    Inputs,        \* number of external inputs, the values 1..Inputs
    Constant,      \* those with the property constant
    InputSize,     \* the size of each
    Bounds,        \* bounds on the subgraphs: kinds of operations, how many
                   \* operations, and how many results nothing consumes
    match_range_,  \* of the buffer assigners
    Alignment,     \* of the pieces of the scratchpad
    Sharing,       \* ENABLE_MEM_REUSE
    ConstantOutputs,  \* whether constants may depend on the buffer of an output
    MaxRuns        \* bound on the executions

ASSUME PlannerAssumption ==
    /\ Constant \subseteq 1..Inputs
    /\ InputSize \in [1..Inputs -> Nat]
    /\ match_range_ \in Nat /\ Alignment \in Nat \ {0}
    /\ \A b \in Bounds :
        /\ b.ops \in Nat /\ b.outputs \in Nat
        /\ b.kinds \subseteq [alias : BOOLEAN, arity : {1, 2}, pair : 0..2, size : Nat,
                              extra : {"none", "scratchpad", "stats"}, bytes : Nat]

VARIABLES
    bound,   \* the member of Bounds that holds for the subgraph
    ops,     \* the subgraph, in topological order
    pass,    \* where memory_planner_t::run is
    at,      \* the next operation of a topo_order_visit
    asn,     \* buffer_assignments_
    refs,    \* temporary_buffer_ref_count
    temp,    \* temporary_buffer_assigner_
    pers,    \* persistent_buffer_assigner_
    hints,   \* inplace_pairs_
    booked,  \* temporary_registry_ and persistent_registry_
    run,     \* the number of the execution
    shared,  \* the pairs whose buffers the caller has merged
    todo,    \* the operations still to be executed
    memory   \* what the buffers hold

plan == <<asn, refs, temp, pers, hints, booked>>
execution == <<run, shared, todo, memory>>
vars == <<bound, ops, pass, at, plan, execution>>

-----------------------------------------------------------------------------
(* The subgraph.                                                            *)

Op == DOMAIN ops
Out(i) == Inputs + 2 * i - 1  \* the value operation i computes
Extra(i) == Inputs + 2 * i    \* its scratchpad or its statistics
Outs(i) == IF ops[i].kind.extra = "none" THEN <<Out(i)>> ELSE <<Out(i), Extra(i)>>
Readable == 1..Inputs \cup {Out(i) : i \in Op}
Produced == UNION {ToSet(Outs(i)) : i \in Op}
Values == 1..Inputs \cup Produced
Producer(v) == (v - Inputs + 1) \div 2
IsOut(v) == v > Inputs /\ v = Out(Producer(v))
Uses(v) == UNION {{<<i, j>> : j \in {n \in DOMAIN ops[i].ins : ops[i].ins[n] = v}} : i \in Op}
Unread == {i \in Op : Uses(Out(i)) = {}}

InPair(i) == ops[i].ins[ops[i].kind.pair]

Size(v) ==
    IF v <= Inputs THEN InputSize[v]
    ELSE IF IsOut(v) THEN ops[Producer(v)].size ELSE ops[Producer(v)].kind.bytes

\* alias_analyzer_t: values with the same root are views of it
Root(v) == IF IsOut(v) THEN ops[Producer(v)].root ELSE v
AliasOutputs(v) == {Out(i) : i \in {j \in Op : ops[j].kind.alias /\ ops[j].ins[1] = v}}
Aliases(v) == {w \in Values : Root(w) = Root(v)} \ {v}

IsScratchpad(v) == v > Inputs /\ ~IsOut(v) /\ ops[Producer(v)].kind.extra = "scratchpad"

\* constant_propagation, from inputs to outputs
Const(v) == IF v <= Inputs THEN v \in Constant ELSE ~IsScratchpad(v) /\ ops[Producer(v)].const

\* sg->outs_: what nothing in the subgraph consumes, except scratchpads
IsOutput(v) == Uses(v) = {} /\ ~IsScratchpad(v)
ExternalOutputs == {v \in Produced : IsOutput(v)}

\* is_constant_, with "Special handle for constant external output"
IsConstant(i) == ops[i].const /\ \A v \in ToSet(Outs(i)) : ~IsOutput(v)

\* edge_ref_count of memory_planner_t::run
EdgeRefs(v) ==
    Cardinality(Uses(v)) + (IF v \in Produced /\ Uses(v) = {} THEN 1 ELSE 0)
    + (IF Sharing THEN 0 ELSE 1)

-----------------------------------------------------------------------------
(* buffer_assigner_t: bytes[id] is max_bytes_ of a buffer, free the list of  *)
(* released ones in the order of their release.                              *)

Empty == [bytes |-> <<>>, free |-> <<>>]
None == 0  \* the id of a buffer of no bytes

\* The buffer to reuse for n bytes, as a position in the free list: the smallest
\* that is large enough, else the largest of those too small, in the range.
Candidate(a, n) ==
    LET bytes(p) == a.bytes[a.free[p]]
        fits == {p \in DOMAIN a.free : bytes(p) >= n /\ bytes(p) <= n * match_range_}
        less == {p \in DOMAIN a.free : bytes(p) < n /\ bytes(p) >= n \div match_range_}
    IN  IF fits # {}
        THEN {p \in fits : \A q \in fits : bytes(p) < bytes(q) \/ (bytes(p) = bytes(q) /\ p <= q)}
        ELSE {p \in less : \A q \in less : bytes(p) > bytes(q) \/ (bytes(p) = bytes(q) /\ p >= q)}

\* Mutant of Request: a buffer that is reused keeps its size.
RequestAsIs(a, n) ==
    IF n = 0 THEN <<None, a>>
    ELSE IF match_range_ # 0 /\ Candidate(a, n) # {}
    THEN LET p == CHOOSE q \in Candidate(a, n) : TRUE IN
         <<a.free[p], [a EXCEPT !.free = RemoveAt(@, p)]>>
    ELSE <<Len(a.bytes) + 1, [a EXCEPT !.bytes = Append(@, n)]>>

\* request: the id, and the assigner afterwards
Request(a, n) ==
    IF n = 0 THEN <<None, a>>
    ELSE IF match_range_ # 0 /\ Candidate(a, n) # {}
    THEN LET p == CHOOSE q \in Candidate(a, n) : TRUE IN
         <<a.free[p], [bytes |-> [a.bytes EXCEPT ![a.free[p]] = IF n > @ THEN n ELSE @],
                       free |-> RemoveAt(a.free, p)]>>
    ELSE <<Len(a.bytes) + 1, [a EXCEPT !.bytes = Append(@, n)]>>

Release(a, id) == IF id = None THEN a ELSE [a EXCEPT !.free = Append(@, id)]
QuerySize(a, id) == IF id = None THEN 0 ELSE a.bytes[id]

-----------------------------------------------------------------------------
(* assign_internal_temporary_buffer: s.asn, s.refs and s.pool are            *)
(* buffer_assignments_, temporary_buffer_ref_count and the assigner.         *)

Temporary(id) == [kind |-> "internal_temporary", index |-> id]
Refs(s, id) == IF id \in DOMAIN s.refs THEN s.refs[id] ELSE 0
AddRefs(s, id, n) == (id :> Refs(s, id) + n) @@ s.refs
IsTemporary(info) == info.kind = "internal_temporary"

\* "Handle alias first", for one input
HandleAlias(s, in) ==
    LET new == AliasOutputs(in) \ DOMAIN s.asn
        info == s.asn[in]
    IN  IF new = {} THEN s
        ELSE [s EXCEPT !.asn = [v \in new |-> info] @@ @,
                       !.refs = AddRefs(s, info.index, MapThenSumSet(EdgeRefs, new))]

\* "Handle inplace"
HandleInplace(s, i) ==
    IF \/ ops[i].kind.pair = 0 \/ Out(i) \in DOMAIN s.asn
       \/ ~IsTemporary(s.asn[InPair(i)]) \/ Refs(s, s.asn[InPair(i)].index) # 1
    THEN s
    ELSE LET info == s.asn[InPair(i)] IN
         [s EXCEPT !.asn = (Out(i) :> info) @@ @,
                   !.refs = AddRefs(s, info.index, EdgeRefs(Out(i)))]

\* "Allocate outputs", for one output
Allocate(s, out) ==
    IF out \in DOMAIN s.asn THEN s
    ELSE LET r == Request(s.pool, Size(out)) IN
         [asn |-> (out :> Temporary(r[1])) @@ s.asn,
          refs |-> (r[1] :> EdgeRefs(out)) @@ s.refs,
          pool |-> r[2]]

\* "Free inputs", for one input
FreeInput(s, in, sharing) ==
    LET id == s.asn[in].index IN
    IF ~IsTemporary(s.asn[in]) THEN s
    ELSE [s EXCEPT !.refs = AddRefs(s, id, -1),
                   !.pool = IF sharing /\ Refs(s, id) = 1 THEN Release(@, id) ELSE @]

\* Mutant of FreeOutput: whether it has consumers or not.
FreeOutputAny(s, out, sharing) ==
    LET id == s.asn[out].index IN
    IF ~IsTemporary(s.asn[out]) THEN s
    ELSE [s EXCEPT !.refs = AddRefs(s, id, -1),
                   !.pool = IF sharing THEN Release(@, id) ELSE @]

\* "Free outputs that have no consumer (such as scratchpad)", for one output
FreeOutput(s, out, sharing) ==
    LET id == s.asn[out].index IN
    IF ~IsTemporary(s.asn[out]) \/ Uses(out) # {} THEN s
    ELSE [s EXCEPT !.refs = AddRefs(s, id, -1),
                   !.pool = IF sharing THEN Release(@, id) ELSE @]

\* Mutant of Visit: the inputs are freed before the outputs are allocated.
VisitFreesFirst(s, i, sharing) ==
    LET inplace == HandleInplace(FoldLeft(HandleAlias, s, ops[i].ins), i)
        freed == FoldLeft(LAMBDA t, v : FreeInput(t, v, sharing), inplace, ops[i].ins)
        assigned == FoldLeft(Allocate, freed, Outs(i))
    IN  FoldLeft(LAMBDA t, v : FreeOutput(t, v, sharing), assigned, Outs(i))

\* func of assign_internal_temporary_buffer
Visit(s, i, sharing) ==
    LET inplace == HandleInplace(FoldLeft(HandleAlias, s, ops[i].ins), i)
        assigned == FoldLeft(Allocate, inplace, Outs(i))
        freed == FoldLeft(LAMBDA t, v : FreeInput(t, v, sharing), assigned, ops[i].ins)
    IN  FoldLeft(LAMBDA t, v : FreeOutput(t, v, sharing), freed, Outs(i))

-----------------------------------------------------------------------------
(* The passes that replace temporary buffers.                                *)

\* Everything that shares the buffer of v, found by following views and inputs
\* computed in place, except through skip.
SameBuffer(a, v, skip) ==
    LET inPlace(w) == IF IsOut(w) /\ ops[Producer(w)].kind.pair # 0
                      THEN {InPair(Producer(w))} ELSE {}
        next(S) == UNION {Aliases(w) \cup {x \in inPlace(w) : a[x] = a[v]} : w \in S}
        reach[n \in 0..2 * Len(ops)] ==
            IF n = 0 THEN {v}
            ELSE LET S == reach[n - 1] IN S \cup (next(S) \ skip)
    IN  reach[2 * Len(ops)]

\* assign_external_outputs_buffer, for one value
AssignOutput(a, v) ==
    IF ~IsOutput(v) THEN a
    ELSE [w \in SameBuffer(a, v, {x \in Values : a[x].kind = "external_input"}) |->
             [kind |-> "external_output", index |-> v]] @@ a

\* Mutant of IsBlockOutput: no consumer is constant.
IsBlockOutputOnly(v) == Const(v) /\ \A u \in Uses(v) : ~IsConstant(u[1])

\* get_constant_block_output_values
IsBlockOutput(v) == Const(v) /\ \E u \in Uses(v) : ~IsConstant(u[1])

\* assign_internal_persistent_buffer, for one value
AssignConstant(s, v) ==
    IF ~IsBlockOutput(v) \/ ~IsTemporary(s.asn[v]) THEN s
    ELSE LET r == Request(s.pool, Size(v)) IN
         [asn |-> [w \in SameBuffer(s.asn, v, 1..Inputs) |->
                      [kind |-> "internal_persistent", index |-> r[1]]] @@ s.asn,
          pool |-> r[2]]

AllOuts == FlattenSeq([i \in Op |-> Outs(i)])

\* prepare_subgraph_inplace_pairs, for one value
Hint(h, v) ==
    LET in == InPair(Producer(v))
        pair == <<asn[in].index, asn[v].index>>
    IN  IF /\ IsOut(v) /\ ops[Producer(v)].kind.pair # 0
           /\ asn[v].kind = "external_output" /\ asn[in].kind = "external_input"
           /\ \A q \in h : q[1] # pair[1] /\ q[2] # pair[2]
           /\ pair[1] \notin Constant
        THEN h \cup {pair} ELSE h

\* registry_t::book
Book(r, key, n) ==
    LET offset == ((r.size + Alignment - 1) \div Alignment) * Alignment IN
    IF key \in DOMAIN r.offset THEN r
    ELSE [offset |-> (key :> offset) @@ r.offset, size |-> offset + n]

\* registry_t::size, and the address grantor_t::get gives in a block at base
TotalSize(r) == IF r.size = 0 THEN 0 ELSE r.size + Alignment
Address(r, base, key) ==
    ((base + Alignment - 1) \div Alignment) * Alignment
    + (IF r.size = 0 THEN 0 ELSE r.offset[key])

\* book_buffers, for the buffers of one kind and their assigner
BookBuffers(kind, pool) ==
    FoldLeft(LAMBDA r, v : IF asn[v].kind # kind THEN r
                           ELSE Book(r, asn[v].index, QuerySize(pool, asn[v].index)),
             [offset |-> <<>>, size |-> 0],
             FlattenSeq([i \in Op |-> ops[i].ins \o Outs(i)]))

-----------------------------------------------------------------------------
(* The state machine.                                                        *)

Init ==
    /\ bound \in Bounds
    /\ ops = <<>> /\ pass = "build" /\ at = 1
    /\ asn = <<>> /\ refs = <<>> /\ temp = Empty /\ pers = Empty
    /\ hints = {} /\ booked = <<>>
    /\ run = 0 /\ shared = {} /\ todo = <<>> /\ memory = <<>>

\* The next operation of the subgraph, with its size, its root and whether it is
\* constant.  The operand of a post-sum is no other operand ("alias_ins == 1").
AddOp(k, ins) ==
    /\ pass = "build" /\ Len(ops) < bound.ops
    /\ k.pair = 2 => ins[1] # ins[2]
    /\ ops' = Append(ops,
           [kind |-> k, ins |-> ins,
            size |-> IF k.size # 0 THEN k.size ELSE Size(ins[IF k.pair = 0 THEN 1 ELSE k.pair]),
            root |-> IF k.alias THEN Root(ins[1]) ELSE Out(Len(ops) + 1),
            const |-> \A j \in 1..k.arity : Const(ins[j])])
    /\ Cardinality(Unread') <= bound.outputs + bound.ops - Len(ops')  \* the rest can read
    /\ UNCHANGED <<bound, pass, at, plan, execution>>

\* assign_external_inputs_buffer, on a subgraph whose outputs are not views of
\* each other
AssignInputs ==
    /\ pass = "build" /\ Cardinality(Unread) \in 1..bound.outputs
    /\ \A v, w \in ExternalOutputs : Root(v) = Root(w) => v = w
    /\ asn' = [v \in {w \in Values : Root(w) <= Inputs} |->
                  [kind |-> "external_input", index |-> Root(v)]]
    /\ pass' = "first"
    /\ UNCHANGED <<bound, ops, at, refs, temp, pers, hints, booked, execution>>

\* assign_internal_temporary_buffer at one operation, without sharing the first
\* time and with it the second
VisitOp ==
    /\ pass \in {"first", "second"} /\ at \in Op
    /\ LET s == Visit([asn |-> asn, refs |-> refs, pool |-> temp], at, pass = "second") IN
       asn' = s.asn /\ refs' = s.refs /\ temp' = s.pool
    /\ at' = at + 1
    /\ UNCHANGED <<bound, ops, pass, pers, hints, booked, execution>>

\* assign_external_outputs_buffer
AssignOutputs ==
    /\ pass = "first" /\ at \notin Op
    /\ asn' = FoldLeft(AssignOutput, asn, AllOuts)
    /\ pass' = "constants"
    /\ UNCHANGED <<bound, ops, at, refs, temp, pers, hints, booked, execution>>

\* assign_internal_persistent_buffer, and "Reset the unreplaced internal
\* temporary buffer"
AssignPersistent ==
    /\ pass = "constants"
    /\ LET s == FoldLeft(AssignConstant, [asn |-> asn, pool |-> Empty], AllOuts) IN
        /\ pers' = s.pool
        /\ asn' = [v \in {w \in Values : ~IsTemporary(s.asn[w])} |-> s.asn[v]]
        /\ ConstantOutputs \/ \A i \in Op : IsConstant(i) =>
               /\ s.asn[Out(i)].kind # "external_output"
               /\ \A v \in ToSet(ops[i].ins) : v > Inputs => IsConstant(Producer(v))
    /\ refs' = <<>> /\ temp' = Empty
    /\ pass' = "second" /\ at' = 1
    /\ UNCHANGED <<bound, ops, hints, booked, execution>>

\* prepare_subgraph_inplace_pairs and book_buffers
Finish ==
    /\ pass = "second" /\ at \notin Op
    /\ hints' = FoldLeft(Hint, {}, AllOuts)
    /\ booked' = [internal_temporary |-> BookBuffers("internal_temporary", temp),
                  internal_persistent |-> BookBuffers("internal_persistent", pers)]
    /\ pass' = "ready"
    /\ UNCHANGED <<bound, ops, at, asn, refs, temp, pers, execution>>

\* What value v is in execution e; a constant is the same in all of them.
Data(v, e) == <<Root(v), IF Const(Root(v)) THEN 0 ELSE e>>
Nothing == <<0, 0>>  \* what a buffer holds before anything is written to it

\* The caller may give the output of a pair the buffer of its input; it is
\* relied upon to do so only if nothing reads the input once it is overwritten,
\* and the operation that overwrites it reads no view of it.
Shareable ==
    {h \in hints :
        LET first == {i \in Op : ops[i].kind.pair # 0 /\ Root(InPair(i)) = h[1]
                          /\ asn[Out(i)] = [kind |-> "external_output", index |-> h[2]]}
        IN  \A i \in first, v \in Values : Root(v) = h[1] =>
                \A u \in Uses(v) : u[1] < i \/ (u[1] = i /\ v = InPair(i))}

\* The buffer of a value, as prepare_args_set hands it to the operations
Buffer(v) ==
    LET same == {h \in shared : asn[v] = [kind |-> "external_output", index |-> h[2]]} IN
    IF same = {} THEN asn[v]
    ELSE [kind |-> "external_input", index |-> (CHOOSE h \in same : TRUE)[1]]

\* Mutant of Order: a constant output is computed with the constants.
OrderWithOutputs(hit) ==
    LET all == [i \in Op |-> i] IN
    (IF hit THEN <<>> ELSE SelectSeq(all, LAMBDA i : ops[i].const))
    \o SelectSeq(all, LAMBDA i : ~ops[i].const)

\* The operations execute_impl executes: the constant ones only to fill the cache
Order(hit) ==
    LET all == [i \in Op |-> i] IN
    (IF hit THEN <<>> ELSE SelectSeq(all, IsConstant))
    \o SelectSeq(all, LAMBDA i : ~IsConstant(i))

\* execute_impl begins: the caller's buffers, a scratchpad, and the constants
\* from the cache (hit) or a new buffer and the operations to compute them.
Execute(s, hit) ==
    /\ pass = "ready" /\ todo = <<>> /\ run < MaxRuns
    /\ hit => run > 0
    /\ run' = run + 1
    /\ shared' = s
    /\ todo' = Order(hit)
    /\ memory' = [b \in {asn[v] : v \in Values} |->
                     IF b.kind = "external_input" THEN Data(b.index, run')
                     ELSE IF b.kind = "internal_persistent" /\ hit THEN memory[b]
                     ELSE Nothing]
    /\ UNCHANGED <<bound, ops, pass, at, plan>>

\* One operation is executed: a view whose buffers differ is copied
\* (memory_reparser_t), every other operation computes its outputs.
ExecuteOp ==
    /\ todo # <<>>
    /\ LET i == Head(todo)
           outs == ToSet(Outs(i))
           written == IF ops[i].kind.alias
                      THEN Buffer(Out(i)) :> memory[Buffer(ops[i].ins[1])]
                      ELSE [b \in {Buffer(v) : v \in outs} |->
                               Data(CHOOSE v \in outs : Buffer(v) = b, run)]
       IN  memory' = written @@ memory
    /\ todo' = Tail(todo)
    /\ UNCHANGED <<bound, ops, pass, at, plan, run, shared>>

Next ==
    \/ \E k \in bound.kinds : \E ins \in [1..k.arity -> Readable] : AddOp(k, ins)
    \/ AssignInputs
    \/ VisitOp
    \/ AssignOutputs
    \/ AssignPersistent
    \/ Finish
    \/ \E s \in SUBSET Shareable, hit \in BOOLEAN : Execute(s, hit)
    \/ ExecuteOp

Spec == Init /\ [][Next]_vars

-----------------------------------------------------------------------------
Sized(S) == {v \in S : Size(v) # 0}

\* Every variable has its type, and no buffer of the assigners is released twice.
TypeOK ==
    /\ pass \in {"build", "first", "constants", "second", "ready"} /\ at \in 1..bound.ops + 1
    /\ run \in 0..MaxRuns /\ shared \subseteq hints /\ ToSet(todo) \subseteq Op
    /\ \A v \in DOMAIN asn :
        /\ v \in Values
        /\ IsTemporary(asn[v]) => asn[v].index \in 0..Len(temp.bytes)
        /\ asn[v].kind = "internal_persistent" => asn[v].index \in 1..Len(pers.bytes)
    /\ pass = "ready" => DOMAIN asn = Values
    /\ IsInjective(temp.free) /\ pers.free = <<>>

\* When an operation is executed its inputs still hold what their producers
\* computed: neither a computation in place, nor a reused buffer, nor the
\* execution of the constant operations before all others, nor a second execution
\* that finds the constants in the cache, nor an output the caller gave the
\* buffer of an input, has overwritten them.
InputsIntact ==
    todo # <<>> => \A v \in Sized(ToSet(ops[Head(todo)].ins)) :
                       memory[Buffer(v)] = Data(v, run)

\* An operation never writes to a buffer it reads or writes otherwise, except to
\* the one input it computes in place or is a view of; its scratchpad is its own.
OutputsApart ==
    pass = "ready" => \A i \in Op : \A o \in Sized(ToSet(Outs(i))) :
        /\ \A v \in Sized(ToSet(Outs(i)) \ {o}) : Buffer(v) # Buffer(o)
        /\ \A v \in Sized(ToSet(ops[i].ins)) : Buffer(v) = Buffer(o) =>
               /\ o = Out(i)
               /\ ops[i].kind.alias \/ (ops[i].kind.pair # 0 /\ v = InPair(i))

\* When an execution has ended every output of the partition is in its buffer.
OutputsDelivered ==
    run > 0 /\ todo = <<>> =>
        \A v \in Sized(ExternalOutputs) : memory[Buffer(v)] = Data(v, run)

\* In a scratchpad or constant buffer of the size the planner asked for, wherever
\* it begins, every value has room at its place and no two buffers overlap.
PiecesFit ==
    pass = "ready" /\ run = 0 => \A kind \in DOMAIN booked :
        LET r == booked[kind]
            pool == IF kind = "internal_temporary" THEN temp ELSE pers
            end(base, id) == Address(r, base, id) + QuerySize(pool, id)
        IN  /\ \A v \in Values : asn[v].kind = kind => Size(v) <= QuerySize(pool, asn[v].index)
            /\ \A base \in 1..Alignment, id \in DOMAIN r.offset \ {None} :
                /\ Address(r, base, id) >= base /\ end(base, id) <= base + TotalSize(r)
                /\ \A other \in DOMAIN r.offset \ {None, id} :
                       end(base, id) <= Address(r, base, other)
                       \/ end(base, other) <= Address(r, base, id)
=============================================================================
