------------------------------- MODULE MCHelp -------------------------------
(***************************************************************************)
(* The trees of the examples and trees with any of their nodes disabled,   *)
(* asked about by every short path, on narrow and wide terminals.          *)
(***************************************************************************)
EXTENDS HelpProperties, Examples

Maybe(off, n) == IF n.id \in off THEN Disabled(n) ELSE n

\* Options of a mode, one of them in a mode below it, and a group
Sizes == Group("one_of", "Size", <<Separated(Arg(<<Word("bytes"), Word("In bytes")>>)),
                                   Flag(<<Word("huge")>>),
                                   Counts(MultiArg(<<Word("parts"), Word("In parts")>>), 1, 3)>>)

OffInGroup(off, group) ==
  [group EXCEPT !.children = [k \in DOMAIN group.children |-> Maybe(off, group.children[k])]]

Nested(off) ==
  <<HelpNode,
    Maybe(off, [ModeOf("copy", <<"copy">>,
                       <<Maybe(off, Flag(<<Word("force"), Char("f"), Word("Overwrite existing files")>>)),
                         OffInGroup(off, Sizes),
                         Maybe(off, ModeOf("deep", <<"deep">>,
                                           <<Flag(<<Word("follow-links")>>)>>))>>)
                  EXCEPT !.description = <<"Copies">>])>>

Case(tree, kind, asking, flatten, colour, columns) ==
  [tree |-> tree, kind |-> kind, words |-> asking, flatten |-> flatten,
   colour |-> colour, columns |-> columns]

Asking == SeqOf({<<"copy">>, <<"deep">>, <<"--", "force">>, <<"-", "f">>, <<"f">>}, 3)

\* Searches, on a terminal of unknown width
Searches == {Case(tree, "help", asking, FALSE, FALSE, 0) :
               tree \in {Nested(off) : off \in SUBSET {"copy", "force", "deep"}}, asking \in Asking}

\* Layouts, from too narrow for any description to wide enough for all
Layouts ==
  {Case(tree, kind, asking, flatten, colour, columns) :
     tree \in {Nested(off) : off \in SUBSET {"deep", "bytes", "parts"}},
     kind \in {"help", "method"}, asking \in {<<>>, <<<<"copy">>>>},
     flatten \in BOOLEAN, colour \in BOOLEAN, columns \in {33, 40, 41}}
ExampleLayouts ==
  {Case(e.children, "method", <<>>, flatten, FALSE, columns) :
     e \in UnderDefaultRules, flatten \in BOOLEAN, columns \in {0, 48, 80}}
-----------------------------------------------------------------------------
\* Names by their letters
Spelt(text) == [text |-> text, many |-> TRUE]
Identified(n, id) == [n EXCEPT !.id = id]

Typos(off) ==
  <<Maybe(off, Identified(Flag(<<Spelt(<<"a", "b">>), Char("c")>>), "ab")),
    Maybe(off, ModeOf("ac", <<"a", "c">>,
      <<Maybe(off, Identified(Flag(<<Spelt(<<"b", "b", "a">>)>>), "bba")),
        Maybe(off, ModeOf("ba", <<"b", "a">>,
                          <<Identified(Flag(<<Spelt(<<"c", "c">>)>>), "cc")>>)),
        Group("one_of", "either", <<Identified(Flag(<<Spelt(<<"b", "c", "b">>)>>), "bcb"),
                                    Identified(Flag(<<Spelt(<<"a", "a">>)>>), "aa")>>)>>))>>

Letters == UNION {[1 .. n -> {"a", "b", "c"}] : n \in 1 .. 3}
Typed == {prefix \o name : prefix \in {<<>>, <<LongPrefix>>, <<ShortPrefix>>}, name \in Letters}

ChildrenAt(tree, asking) ==
  IF asking = <<>> THEN tree ELSE ModeNamed(RootOf(tree), asking[1]).children

\* The word is unknown to the node, and the node could be reached.
Mistyped ==
  {c \in {Case(tree, "typo", <<word>> \o asking, FALSE, FALSE, 0) :
            tree \in {Typos(off) : off \in SUBSET {"ab", "ac", "ba"}},
            word \in Typed, asking \in {<<>>, <<<<"a", "c">>>>}} :
     /\ Len(c.words) = 2 => ~RuntimeDisabled(c.tree[2])
     /\ \A n \in ToSet(ChildrenAt(c.tree, Tail(c.words))) :
          RuntimeDisabled(n) \/ ~Match(n, GetTokenTypeFor(n, c.words[1]))}

AllCases == Searches \cup Layouts \cup ExampleLayouts \cup Mistyped

\* A path through a disabled node
ToDisabled == {Case(Nested({"copy"}), "help", <<<<"copy">>>>, FALSE, FALSE, 0)}
=============================================================================
