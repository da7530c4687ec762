------------------------------ MODULE Selection ------------------------------
(***************************************************************************)
(* From the test functions to the list of tests that runs: a function with *)
(* #[dimension] parameters is compiled to a generator of one test per      *)
(* combination of cases (test-r-macro), apply_suite_props_to_tests         *)
(* multiplies tests over the matrix suites they are in and gives them the  *)
(* tags and timeouts of their suites, filter_registered_tests selects      *)
(* among them (internal.rs).                                               *)
(*                                                                         *)
(* A test is a record: its function, its module, whether it is a           *)
(* benchmark, the cases in its name, its tags, its timeout, its dependency *)
(* list, `variants`: what its #[dimension] parameters get, and `view`: for *)
(* every other name its body was compiled to look up, the name that the    *)
(* chain of AliasedDependencyViews asks for.                               *)
(***************************************************************************)
EXTENDS Naturals, Sequences, SequencesExt

CONSTANTS
    LongerNames,  \* pairs of names of which the first begins the second
    Functions,    \* per test function: the dependencies it takes untagged, `uses`,
                  \* and the dimensions of its #[dimension] parameters, `dims`
    Cases,        \* per dependency with a matrix dimension: its cases
    SuiteTag,     \* the tag that suites give
    NoTimeout     \* a test without a timeout

Dimensions == DOMAIN Cases

(* A case is a tagged variant of the dependency; its name also stands for   *)
(* its label and for its automatic tag.                                     *)
CasesOf(dep) == ToSet(Cases[dep])

Tags == {SuiteTag} \cup UNION {CasesOf(dep) : dep \in Dimensions}

(* crate_and_module().starts_with(prefix), on the text of the two paths.    *)
StartsWith(prefix, path) ==
    \/ IsPrefix(prefix, path)
    \/ /\ prefix # <<>>
       /\ Len(prefix) <= Len(path)
       /\ Front(prefix) = SubSeq(path, 1, Len(prefix) - 1)
       /\ <<Last(prefix), path[Len(prefix)]>> \in LongerNames

Name(t) == <<t.id>> \o t.cases

-----------------------------------------------------------------------------
(* The parameters of a function, sorted by the macro.                       *)
Untagged(x)       == Functions[x].uses
DimensionParms(x) == Functions[x].dims

(* The test of function x for one variant per #[dimension] parameter; the   *)
(* names it is shown with are in the order of the loops, s.                 *)
TestOf(x, module, bench, s) ==
    [id |-> x, module |-> module, bench |-> bench, cases |-> s, tags |-> ToSet(s),
     timeout |-> NoTimeout, deps |-> Untagged(x) \cup ToSet(s),
     variants |-> Reverse(s), view |-> [d \in Untagged(x) |-> d]]

(* The stacks with which the innermost of the generated loops is reached: a *)
(* loop is put around those of the parameters before it.                    *)
Stacks(dims) ==
    FoldLeft(LAMBDA inside, dim :
                FlattenSeq([i \in DOMAIN Cases[dim] |->
                    [j \in DOMAIN inside |-> <<Cases[dim][i]>> \o inside[j]]]),
             << <<>> >>, dims)

(* The generator that matrix_test_impl makes of a function.                 *)
MatrixTest(x, module) ==
    LET stacks == Stacks(DimensionParms(x))
    IN  [i \in DOMAIN stacks |-> TestOf(x, module, FALSE, stacks[i])]

(* REGISTERED_TESTS: the functions without #[dimension] parameters.         *)
RegisteredTests(module, benches) ==
    LET single == SelectSeq([x \in DOMAIN Functions |-> x],
                            LAMBDA x : DimensionParms(x) = <<>>)
    IN  [i \in DOMAIN single |->
            TestOf(single[i], module[single[i]], single[i] \in benches, <<>>)]

(* generate_tests: what the generators of the other functions return.       *)
GeneratedTests(module) ==
    LET generators == SelectSeq([x \in DOMAIN Functions |-> x],
                                LAMBDA x : DimensionParms(x) # <<>>)
    IN  FlattenSeq([i \in DOMAIN generators |->
            MatrixTest(generators[i], module[generators[i]])])

AllTests(module, benches) == RegisteredTests(module, benches) \o GeneratedTests(module)

-----------------------------------------------------------------------------
\* Mutation: only the lookup of the last dimension is redirected.
LastAlias(t, dep, case) == [x \in DOMAIN t.view |-> IF x = dep THEN case ELSE x]

(* What the body asks for goes through the view of each multiplication, the *)
(* first one first.                                                         *)
Aliased(t, dep, case) ==
    [x \in DOMAIN t.view |-> IF t.view[x] = dep THEN case ELSE t.view[x]]

MultipliedForCase(t, dep, case) ==
    [t EXCEPT !.cases = Append(@, case),
              !.tags  = @ \cup {case},
              !.deps  = (@ \ {dep}) \cup {case},
              !.view  = Aliased(t, dep, case)]

(* A test that does not take the dependency, or takes one of its variants,  *)
(* stays as it is.                                                          *)
Multiplied(t, dep) ==
    IF dep \in t.deps /\ Cases[dep] # <<>>
    THEN [i \in DOMAIN Cases[dep] |-> MultipliedForCase(t, dep, Cases[dep][i])]
    ELSE <<t>>

Expanded(t, matrices) ==
    FoldLeft(LAMBDA ts, p : FlattenSeq([i \in DOMAIN ts |-> Multiplied(ts[i], p.dep)]),
             <<t>>, matrices)

WithProp(t, p) ==
    CASE p.kind = "Tag"        -> [t EXCEPT !.tags = @ \cup {SuiteTag}]
      [] p.kind = "Timeout"    -> [t EXCEPT !.timeout = IF @ = NoTimeout THEN p.suite ELSE @]
      [] p.kind = "Sequential" -> t

WithProps(t, props) == FoldLeft(WithProp, t, props)

(* apply_suite_props_to_tests: the properties in the order of their         *)
(* registration, the matrices before the others.                            *)
SuitePropsApplied(ts, props) ==
    FlattenSeq([i \in DOMAIN ts |->
        LET reach    == SelectSeq(props, LAMBDA p : StartsWith(p.suite, ts[i].module))
            matrices == SelectSeq(reach, LAMBDA p : p.kind = "Matrix")
            others   == SelectSeq(reach, LAMBDA p : p.kind # "Matrix")
            expanded == Expanded(ts[i], matrices)
        IN  [k \in DOMAIN expanded |-> WithProps(expanded[k], others)]])

-----------------------------------------------------------------------------
(* filter_test.  A filter by tags is a disjunction of conjunctions, the     *)
(* empty one asks for no tags.  A name contains another one if that is its  *)
(* name without (some of) its cases.                                        *)
FilterTest(t, f, exact) ==
    CASE f.by = "tag" ->
            IF f.any = {} THEN t.tags = {} ELSE \E all \in f.any : all \subseteq t.tags
      [] f.by = "name" ->
            IF exact THEN Name(t) = f.name ELSE IsPrefix(f.name, Name(t))

(* filter_registered_tests for a command line; should_panic is left out.    *)
Filtered(ts, args) ==
    SelectSeq(ts, LAMBDA t :
        /\ ~ \E f \in args.skip : FilterTest(t, f, args.exact)
        /\ args.filter # {} => \E f \in args.filter : FilterTest(t, f, args.exact)
        /\ CASE args.only = "bench" -> t.bench
             [] args.only = "test"  -> ~t.bench
             [] args.only = "all"   -> TRUE)
=============================================================================
