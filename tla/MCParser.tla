------------------------------ MODULE MCParser ------------------------------
(***************************************************************************)
(* Small parse trees that satisfy the rules of the default validator, each *)
(* with the words that make its cases happen.                              *)
(***************************************************************************)
EXTENDS ParserProperties, LeafNodes

Tree(children, words) == [children |-> children, words |-> words]

FlagOf(long)       == Flag(<<Word(long)>>)
FlagAs(long, c)    == Flag(<<Word(long), Char(c)>>)
ArgOf(long)        == Arg(<<Word(long)>>)
Listed(id, m, n)   == Counts(PositionalArg(<<Word(id)>>), m, n)

\* Collapsed flags, a counted one with a limit, a label with its value in the
\* next word, and a positional argument.
Cat == Tree(<<Anonymous(<<FlagAs("all", "a"),
                          [CountingFlag(<<Word("verbose"), Char("v")>>) EXCEPT
                             !.high = {<<Given, Given, Given>>}],
                          Default(ArgOf("num"), <<<<"0">>>>),
                          Listed("file", 0, 1)>>)>>,
            {<<"--", "all">>, <<"-", "a", "v">>, <<"-", "v">>, <<"-", "v", "x">>,
             <<"--", "num">>, <<"7">>, <<"-">>})

\* Separated values, a range of values, a required node, and a positional
\* argument of exactly two values
Pairs == Tree(<<Anonymous(<<With([ArgOf("lines") EXCEPT !.unparsable = {<<"x">>},
                                                      !.low = {<<<<"1">>>>}, !.high = {<<<<"9">>>>}],
                                 {"value_separator", "required"}),
                            Listed("pair", 2, 2)>>)>>,
              {<<"--", "lines", "=", "7">>, <<"--", "lines", "=", "9">>,
               <<"--", "lines", "=", "1">>, <<"--", "lines", "=", "x">>,
               <<"--", "lines">>, <<"--", "lines", "=">>, <<"p">>})

\* A default that is out of the range of its node's values
Width == Tree(<<Anonymous(<<[Default(ArgOf("width"), <<<<"9">>>>) EXCEPT !.high = {<<<<"9">>>>}],
                            FlagOf("all")>>)>>,
              {<<"--", "width">>, <<"--", "all">>, <<"9">>, <<"7">>})

\* Lists of values that a marker ends: one behind a label, two positional.
Launcher == Tree(<<Anonymous(<<Marked(Counts(MultiArg(<<Word("env")>>), 1, 2), "--"),
                               With(Marked(Listed("progs", 1, Unbounded), "--"), {"required"}),
                               Listed("rest", 0, Unbounded)>>)>>,
                 {<<"--", "env">>, <<"p">>, <<"q">>, <<"--">>})

\* No mode: an argument and a flag of the root, each with its own router
Solo == Tree(<<[With([ArgOf("lines") EXCEPT !.unparsable = {<<"x">>}, !.high = {<<<<"9">>>>}],
                     {"value_separator"}) EXCEPT !.router = TRUE],
               [FlagAs("version", "v") EXCEPT !.router = TRUE]>>,
             {<<"--", "lines", "=", "7">>, <<"--", "lines", "=", "9">>,
              <<"--", "lines", "=", "x">>, <<"--", "lines">>, <<"--", "version">>,
              <<"-", "v">>, <<"p">>})

\* A flag and an argument that stand for others, a node that depends on two
\* others, and two disabled nodes, one of which is required when enabled
Aliases == Tree(<<Anonymous(<<AliasOf(FlagAs("both", "b"), {"x", "y"}),
                              FlagAs("x", "x"), FlagAs("y", "y"),
                              AliasOf(ArgOf("al"), {"m", "n"}),
                              ArgOf("m"), ArgOf("n"),
                              DependsOn(FlagAs("z", "z"), {"x", "m"}),
                              Disabled(FlagOf("w")),
                              With(Disabled(ArgOf("lic")), {"runtime_enable_required"})>>)>>,
                {<<"-", "b">>, <<"-", "x", "z">>, <<"-", "z">>, <<"--", "al">>,
                 <<"--", "m">>, <<"--", "w">>, <<"7">>})

\* An argument of two values that stands for two others
Doubles == Tree(<<Anonymous(<<AliasOf(Fixed(MultiArg(<<Word("to")>>), 2), {"x", "y"}),
                              Fixed(MultiArg(<<Word("x")>>), 2), Fixed(MultiArg(<<Word("y")>>), 2),
                              FlagAs("v", "v")>>)>>,
                {<<"--", "to">>, <<"--", "x">>, <<"-", "v">>, <<"7">>, <<"8">>})

\* One of two nodes that depend on a third, and two ways to say the same
Groups == Tree(<<Anonymous(<<FlagAs("len", "l"),
                             Default(Group("one_of", "how",
                                           <<FlagAs("skip", "s"),
                                             DependsOn(FlagAs("cut", "c"), {"len"})>>),
                                     <<<<"dots">>>>),
                             With(Group("alias_group", "level",
                                        <<ArgOf("mb"), With(ArgOf("kb"), {"value_separator"})>>),
                                  {"required"})>>)>>,
               {<<"-", "l">>, <<"-", "s">>, <<"-", "c">>, <<"-", "l", "c">>,
                <<"--", "mb">>, <<"--", "kb", "=", "7">>, <<"7">>})

\* A flag of the root, a mode with a child mode, one whose only children are
\* modes, a disabled one, and the anonymous one
Modes == Tree(<<[FlagAs("version", "v") EXCEPT !.router = TRUE],
                ModeOf("add", <<"add">>, <<ModeOf("deep", <<"deep">>, <<Listed("what", 0, 1)>>),
                                           FlagAs("force", "f")>>),
                [ModeOf("remote", <<"remote">>, <<ModeOf("rm", <<"rm">>, <<FlagOf("all")>>)>>)
                   EXCEPT !.router = FALSE],
                Disabled(ModeOf("pro", <<"pro">>, <<FlagAs("turbo", "f")>>)),
                Anonymous(<<FlagAs("bar", "f"), Listed("args", 1, 2)>>)>>,
              {<<"add">>, <<"deep">>, <<"remote">>, <<"rm">>, <<"pro">>,
               <<"-", "f">>, <<"-", "v">>})

Leaves    == {Cat, Pairs, Width, Launcher, Solo, Doubles}
Relations == {Aliases, Doubles, Groups, Modes}
-----------------------------------------------------------------------------
\* One tree for each disagreement of the code with its documentation
OneOf == {Tree(<<Anonymous(<<Default(Group("one_of", "how", <<FlagOf("skip"), FlagOf("cut")>>), <<>>)>>)>>,
               {<<"--", "skip">>, <<"--", "cut">>})}

MarkedFirst == {Tree(<<Anonymous(<<Marked(Listed("progs", 0, 2), "--"), Listed("rest", 0, Unbounded)>>)>>,
                     {<<"p">>, <<"--">>})}

Dash == {Tree(<<Anonymous(<<FlagAs("all", "a"), Listed("file", 0, 1)>>)>>, {<<"-", "a">>, <<"-">>})}
-----------------------------------------------------------------------------
\* The nodes of the trees, and the atoms of their words
Below(nodes) == nodes \cup UNION {ToSet(n.children) : n \in nodes}
AllNodes     == Below(Below(Below(UNION {ToSet(t.children) : t \in Trees})))
Atom         == UNION {UNION {ToSet(word) : word \in t.words} : t \in Trees}

\* The theorems are about these trees too.  (MarkedFirst breaks the rules of
\* marked lists: the run of it shows what for.)
ASSUME TreesAssumption ==
  /\ TreesOf(AllNodes, Atom)
  /\ DistinctIds(AllNodes)
  /\ LimitsAreChecked(AllNodes)
  /\ DisabledByPolicy(AllNodes)
  /\ AliasesOfEnabled(AllNodes)
  /\ LeavesInGroups(AllNodes)
  /\ AliasesExist(AllNodes)
  /\ ModesApart(AllNodes)
  /\ AliasesOfIndependent(AllNodes)
  /\ DependsOnSingle(AllNodes)
  /\ ModeRules(AllNodes)
  /\ SplitOnce(AllNodes)
  /\ CountRules(AllNodes)
  /\ AliasCounts(AllNodes)
  /\ AliasValues(AllNodes)
  /\ ShortLines
  /\ Trees # MarkedFirst => MarkerRules(AllNodes)
=============================================================================
