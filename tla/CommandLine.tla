----------------------------- MODULE CommandLine -----------------------------
(***************************************************************************)
(* How the processes of a run come to one list of tests: the parent        *)
(* replaces --shuffle by a seed, renders its arguments for the workers,    *)
(* and each worker parses them and selects and shuffles the tests again    *)
(* (args.rs).                                                              *)
(*                                                                         *)
(* Arguments are what the selection depends on: name and tag filters, the  *)
(* choice of tests or benchmarks, --exact, --shuffle and --shuffle-seed.   *)
(* Filters that begin with a dash are left out.                            *)
(***************************************************************************)
EXTENDS Selection, FiniteSets

CONSTANTS
    Seeds,   \* what a process may draw, and what --shuffle-seed may say
    NoSeed   \* no --shuffle-seed

ASSUME SeedsAssumption == Seeds \subseteq Nat /\ NoSeed \notin Seeds

\* Mutation: --shuffle stays beside the seed.
SeedBeside(a, random) ==
    IF a.shuffle /\ a.seed = NoSeed THEN [a EXCEPT !.seed = random] ELSE a

(* from_args, in a process that draws `random`.                            *)
FromArgs(a, random) ==
    IF a.shuffle /\ a.seed = NoSeed
    THEN [a EXCEPT !.seed = random, !.shuffle = FALSE]
    ELSE a

(* A word of the command line, and the one that is its value: a filter, or  *)
(* a number.                                                               *)
Word(name, value) == [name |-> name, value |-> value]
Flag(name)        == Word(name, NoSeed)

If(given, words) == IF given THEN words ELSE <<>>

Each(name, values) ==
    LET vs == SetToSeq(values) IN [i \in DOMAIN vs |-> Word(name, vs[i])]

ToArgs(a) ==
    If(a.only = "test", <<Flag("--test")>>)
    \o If(a.only = "bench", <<Flag("--bench")>>)
    \o Each("--skip", a.skip)
    \o If(a.exact, <<Flag("--exact")>>)
    \o If(a.shuffle, <<Flag("--shuffle")>>)
    \o If(a.seed # NoSeed, <<Word("--shuffle-seed", a.seed)>>)
    \o Each("FILTER", a.filter)

(* What clap makes of the words, unless two of them exclude each other.     *)
Accepts(words) ==
    LET Has(name) == \E i \in DOMAIN words : words[i].name = name
    IN  ~(Has("--test") /\ Has("--bench")) /\ ~(Has("--shuffle") /\ Has("--shuffle-seed"))

Parsed(words) ==
    LET Values(name) == {words[i].value : i \in {k \in DOMAIN words : words[k].name = name}}
        Has(name)    == Values(name) # {}
    IN  [filter  |-> Values("FILTER"),
         skip    |-> Values("--skip"),
         exact   |-> Has("--exact"),
         only    |-> CASE Has("--test") -> "test" [] Has("--bench") -> "bench" [] OTHER -> "all",
         shuffle |-> Has("--shuffle"),
         seed    |-> IF Has("--shuffle-seed")
                     THEN CHOOSE s \in Values("--shuffle-seed") : TRUE ELSE NoSeed]

(* The generator of random numbers gives an order for each seed.            *)
Shuffled(ts, a) ==
    IF a.seed = NoSeed THEN ts
    ELSE [i \in DOMAIN ts |-> ts[1 + ((i - 1 + a.seed) % Len(ts))]]

(* What a process with arguments `a` selects, in its order.                *)
Selected(all, props, a) == Shuffled(Filtered(SuitePropsApplied(all, props), a), a)
=============================================================================
