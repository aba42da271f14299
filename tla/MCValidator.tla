---------------------------- MODULE MCValidator ----------------------------
(***************************************************************************)
(* The parser on the trees the validator accepts: what its rules are for.  *)
(***************************************************************************)
EXTENDS ParserProperties, Examples

Label(c) == <<"--", c>>

\* Every mode of up to three of these nodes, alone in the root
Members == {Flag(<<Word("x")>>),
            Default(Arg(<<Word("x")>>), <<<<"0">>>>),
            Counts(MultiArg(<<Word("y")>>), 1, 2),
            Fixed(PositionalArg(<<Word("one")>>), 1),
            Counts(PositionalArg(<<Word("few")>>), 0, 2),
            Required(Counts(PositionalArg(<<Word("some")>>), 1, 2))}

Arrangements(S, n) == UNION {{s \in [1 .. k -> S] : IsInjective(s)} : k \in 1 .. n}

LoneModes == {Example(<<Anonymous(s)>>, {Label("x"), Label("y"), <<"p">>}) : s \in Arrangements(Members, 3)}

\* Every root of up to three of these
Outer == {Routed(Flag(<<Word("x")>>)),
          ModeOf("add", <<"add">>, <<Flag(<<Word("x")>>), ModeOf("add.deep", <<"deep">>,
                                       <<Flag(<<Word("x")>>)>>)>>),
          ModeOf("rm", <<"rm">>, <<Flag(<<Word("x")>>)>>),
          Anonymous(<<Fixed(PositionalArg(<<Word("one")>>), 1)>>),
          ModeOf("other", <<>>, <<Flag(<<Word("x")>>)>>)}

\* A mode behind an anonymous one is accepted, and never entered.
NamedBehindAnonymous(s) == \E j, k \in DOMAIN s : j < k /\ IsAnonymousMode(s[j]) /\ IsMode(s[k])

Roots == {Example(s, {Label("x"), <<"add">>, <<"deep">>, <<"rm">>}) :
            s \in {r \in Arrangements(Outer, 3) : ~NamedBehindAnonymous(r)}}

Accepted(trees) == {t \in trees : Validates(DefaultRules, RootOf(t.children))}

Validated == Accepted(LoneModes \cup Roots) \cup UnderDefaultRules \cup {IsEven}

\* Two modes of one name
SameNamed ==
  Accepted({Example(<<ModeOf("add", <<"add">>, <<Flag(<<Word("x")>>)>>),
                      ModeOf("also add", <<"add">>, <<Flag(<<Word("y")>>)>>)>>,
                    {<<"add">>, Label("x"), Label("y")})})
-----------------------------------------------------------------------------
\* A child of the root or the mode takes the front of the line.
Takes == \/ phase = "root" /\ phase' \in {"leaf", "submode", "loop"}
         \/ phase = "submode" /\ phase' = "submode" /\ path' # path
         \/ phase = "loop" /\ phase' = "loop" /\ matched' # {} /\ i' = 1

\* A name of the node, and nothing else
IsNameOf(word, node) ==
  /\ node.kind \notin {"one_of", "alias_group"}
  /\ word \in {<<LongPrefix>> \o n : n \in {node.long} \ {<<>>}}
         \cup {<<ShortPrefix>> \o n : n \in {node.short} \ {<<>>}} \cup ({node.none} \ {<<>>})

FrontWord == (IF Head(args).pre = "short" THEN <<ShortPrefix>> ELSE <<>>) \o Head(args).name

\* In a tree that compiles a name stands for one node: the child that takes a
\* word is the one whose name the word is, if any enabled child has that name.
\* Unique names, positional arguments at the end and the anonymous mode behind
\* the root's other children make it so (validator.hpp:602-609, 697, 733-734).
OneNodeOfAName ==
  [][Takes /\ args # <<>> =>
       \A c \in ToSet(Children) : c.enabled /\ IsNameOf(FrontWord, c) => Child = c]_vars

Positionals == {k \in DOMAIN Children : Children[k].type = "positional_arg"}

Total(count(_)) == FoldFunction(LAMBDA n, sum : n + sum, 0, [k \in DOMAIN Children |-> count(Children[k])])

\* A mode of positional arguments alone takes every line of plain words whose
\* length is in the range of its arguments' counts together, and each argument
\* gets its share: no variable-length one comes before another
\* (validator.hpp:698).
EachGetsItsShare ==
  /\ phase = "idle" /\ path # <<>> /\ IsAnonymousMode(Mode)
  /\ Positionals = DOMAIN Children
  /\ \A k \in DOMAIN Children : Children[k].marker = ""
  /\ Len(line) \in Total(LAMBDA c : c.min) .. Total(LAMBDA c : c.max)
  => /\ answer = "routed"
     /\ \A k \in DOMAIN Children : Len(results[k].list) >= Children[k].min
=============================================================================
