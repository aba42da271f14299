------------------------------ MODULE Examples ------------------------------
(***************************************************************************)
(* The parse trees of the programs in examples/, with words for them, and  *)
(* the rules each is compiled under.                                       *)
(***************************************************************************)
EXTENDS Validator

Example(children, words) == [children |-> children, words |-> words]

\* help_t takes all words behind its label.
Help(strings) ==
  [Labelled("help", strings) EXCEPT !.policies = {"no_result_value", "min_max_count"},
                                    !.max = Unbounded, !.router = TRUE]

HelpNode == Help(<<Word("help"), Char("h"), Word("Display this help and exit")>>)

VersionFlag == Routed(Flag(<<Word("version"), Word("Output version information and exit")>>))

BasicCat ==
  Example(
    <<HelpNode, VersionFlag,
      Anonymous(
        <<AliasOf(Flag(<<Word("show-all"), Word("Equivalent to -nE"), Char("A")>>),
                  {"show-ends", "show-nonprinting"}),
          Flag(<<Word("show-ends"), Word("Display $ at end of each line"), Char("E")>>),
          Flag(<<Word("show-nonprinting"), Word("Use ^ and M- notation"), Char("n")>>),
          Default(Separated(Arg(<<Word("max-lines"), Word("Maximum lines")>>)), <<<<"-1">>>>),
          Default(Separated(Arg(<<Word("max-line-length"), Word("Maximum length")>>)), <<<<"none">>>>),
          Default(Group("one_of", "one of",
                        <<DependsOn(Flag(<<Word("skip-line"), Char("s"), Word("Skips line")>>),
                                    {"max-line-length"}),
                          DependsOn(Separated(Arg(<<Word("line-suffix"), Word("Shortens line")>>)),
                                    {"max-line-length"})>>),
                  <<<<"...">>>>),
          Default(Separated(Arg(<<Word("theme"), Word("Set the output colour theme")>>)), <<<<"none">>>>),
          Default([Group("alias_group", "alias group",
                         <<CountingFlag(<<Char("v")>>),
                           Separated(Arg(<<Word("verbose"), Word("Verbosity level")>>))>>)
                     EXCEPT !.high = {<<<<"7">>>>, <<<<"true">>, <<"true">>, <<"true">>>>}],
                  <<<<"info">>>>),
          Counts(Required(PositionalArg(<<Word("FILES"), Word("Files to read")>>)), 1, Unbounded)>>)>>,
    {<<"--", "version">>, <<"-", "A">>, <<"-", "n">>, <<"-", "v">>, <<"-", "s">>,
     <<"--", "max-line-length", "=", "7">>, <<"--", "verbose", "=", "7">>, <<"f">>})

Launch ==
  Example(
    <<HelpNode, VersionFlag,
      Anonymous(
        <<Flag(<<Word("dry-run"), Word("Just print launch invocations"), Char("d")>>),
          Counts(Marked(Required(PositionalArg(<<Word("PROGS"), Word("Programs to run")>>)), "--"),
                 1, Unbounded),
          Counts(PositionalArg(<<Word("ARGS"), Word("Arguments to pass to programs")>>),
                 0, Unbounded)>>)>>,
    {<<"--", "version">>, <<"-", "d">>, <<"--">>, <<"p">>})

JustCats ==
  Example(<<HelpNode>> \o [k \in 1 .. 5 |->
             Routed(Flag(<<Word(<<"cat", "neko", "emoji", "maeo", "kit">>[k]), Word("cat")>>))],
          {<<"--", "cat">>, <<"--", "kit">>, <<"-", "h">>, <<"x">>})

RuntimeNodeEnable(advanced) ==
  LET licensed(node) == IF advanced THEN node ELSE Disabled(node)
  IN  Example(
        <<HelpNode, VersionFlag,
          licensed(ModeOf("advanced", <<"advanced">>,
                          <<Flag(<<Word("feature1"), Word("First feature")>>),
                            Default(Arg(<<Word("feature2"), Word("Second feature")>>), <<<<"42">>>>)>>)),
          Anonymous(<<Flag(<<Word("foo"), Word("Foo flag"), Char("f")>>),
                      Flag(<<Word("bar"), Word("Bar flag"), Char("b")>>),
                      licensed(With(Arg(<<Word("advance-foo"), Word("Licensed foo")>>),
                                    {"runtime_enable_required"}))>>)>>,
        {<<"advanced">>, <<"--", "feature1">>, <<"-", "f">>, <<"--", "advance-foo">>, <<"x">>})

CommonArgs ==
  ListOf(<<Flag(<<Word("force"), Char("f"), Word("Force overwrite existing files")>>),
           Fixed(Required(PositionalArg(<<Word("DST"), Word("Destination directory")>>)), 1)>>)

Source(m, n) == Counts(Required(PositionalArg(<<Word("SRC"), Word("Source file paths")>>)), m, n)

Simple ==
  Example(<<HelpNode,
            ModeOf("copy", <<"copy">>, Expanded(<<CommonArgs, Source(1, Unbounded)>>)),
            ModeOf("move", <<"move">>, Expanded(<<CommonArgs, Source(1, 1)>>))>>,
          {<<"copy">>, <<"move">>, <<"-", "f">>, <<"a">>})

\* custom_policy_and_node: a description policy of its own, which the node may
\* have only one of, and a node that is a positional_arg of one value.
Smiley(node) == With(node, {"smiley_description"})

SinglePositionalArg(strings) ==
  [Smiley(Fixed(PositionalArg(strings), 1)) EXCEPT !.type = "single_positional_arg",
                                                   !.description = <<>>]

IsEven ==
  Example(<<Smiley(Help(<<Word("help"), Char("h")>>)), Routed(Smiley(Flag(<<Word("version")>>))),
            Anonymous(<<[Required(SinglePositionalArg(<<Word("Value"), Word("Value to read")>>))
                           EXCEPT !.unparsable = {<<"3">>}]>>)>>,
          {<<"--", "version">>, <<"3">>, <<"4">>})

SmileyRules ==
  AddToTypesOf(InsertRule(DefaultRules, 1,
                          Rule({"smiley_description"}, {OwnerLacks("description")})),
               {"positional_arg"}, "single_positional_arg")
-----------------------------------------------------------------------------
UnderDefaultRules == {BasicCat, Launch, JustCats, Simple} \cup {RuntimeNodeEnable(b) : b \in BOOLEAN}

\* The example programs compile: each tree passes its rules, and the tree with
\* a node and a policy of its own passes only its extended rules, which a node
\* with two descriptions does not.
ASSUME ExamplesCompile ==
  /\ \A e \in UnderDefaultRules : Validates(DefaultRules, RootOf(e.children))
  /\ Validates(SmileyRules, RootOf(IsEven.children))
  /\ ~Validates(DefaultRules, RootOf(IsEven.children))
  /\ ~Validates(SmileyRules, RootOf(<<Smiley(HelpNode)>>))
=============================================================================
