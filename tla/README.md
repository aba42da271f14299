# A verification of arg_router

arg_router is a C++17 header-only library.  A program describes its command line
as a tree of node types; the compiler checks the tree against the rules of a
validator; `root_t::parse` matches the words of a command line against it,
converts them, and calls one router (a function of the program) with the values;
`help_t` and `root_t::help` print the tree for a terminal of some width.  All of
this is modelled here in TLA+, model-checked with TLC on small trees, command
lines and texts, and, where a theorem is listed, proved with TLAPS for every
value of the constants.

All paths below are relative to `src/include/arg_router/`.

## 1. Inventory

One thread runs everything; there is no persistence and no clock.  What is hard
in this code is the *order* of things: policies that edit one list of words
through iterators, errors that must be held back until it is clear whose word
it was, nodes that set other nodes, one piece of state that outlives a call,
a layout computed at compile time over nodes that are gone at run time, and
break rules that look back through a window of limited size.

| Component | State it keeps | Operations | What must be true of it |
|---|---|---|---|
| `parsing/dynamic_token_adapter.hpp` | two vectors, processed and unprocessed tokens | `insert` (2), `erase`, `transfer`, `iterator::set`, direct edits of either vector | it looks like one list: no token is lost, moved, or given back |
| `parsing/token_type.hpp`, `parsing/parsing.hpp` | none | `get_token_type` (2), `match` | a word names at most the nodes that carry its name and prefix |
| policies with a pre-parse phase (7, in `policy/`) | constructor arguments | `pre_parse_phase` | each claims exactly the tokens of its node; whatever a node rejects stays as it was |
| `tree_node.hpp` | none | `pre_parse`, `parse` | a policy's error stops the parse only if the front word names the node |
| `dependency/one_of.hpp`, `dependency/alias_group.hpp` | `last_typeid_` (mutable, `one_of` only) | `pre_parse` | two children of a `one_of` never both set; one alone is never refused |
| `mode.hpp` | locals of a call: `matched`, `target`, `results` | `pre_parse`, `parse` | every word reaches the right child; no node is set twice; every value passed to the router is validated; the loop ends |
| `root.hpp` | none | `parse` (4 forms), `help` (2) | exactly one router call, or one error and no router call |
| leaf nodes (`flag.hpp`, `arg.hpp`, ...) | none | the factory functions, `parse`, `merge` | the policies a factory adds are those its node needs; the value is made of the node's own tokens, in order |
| value policies (`default_value`, `required`, `min_max_value`, `multi_stage_value`, `router`) | constructor arguments | missing, validation and routing phases | a default is validated like a typed value |
| `policy/validator.hpp` | none (compile time) | `validate`, and the utilities that change its rules | on every tree it accepts, the words can be shared out and a name stands for one node |
| `help.hpp`, `policy/*help_formatter.hpp` | locals of a call | `find_help_target`, `generate_help`, the two line formatters | finds the node that the words name; shows every enabled node once; descriptions are in one column within the terminal |
| `utility/utf8/levenshtein_distance.hpp`, `utility/tree_recursor.hpp` | best match so far | the walk for a suggestion | suggests the nearest name that can be typed |
| `utility/utf8*`, `utility/utf8/*` | members of the two iterators | `size`, `decode`, `find_range`, `terminal_width`, the iterators' increment | clusters and lines are those of the Unicode rules, no code point is lost, no line is too wide |
| `multi_lang/` | the chosen root | construction, `parse`, `help` | the root of the locale is used |
| exceptions, compile-time strings, metaprogramming | none | | |

They interact by calls only.  `root_t::parse` offers the words to each child;
a mode hands the front of the words to each of its children in turn; a child
(through a group, if it is in one) runs its policies over a token adapter built
on a copy of the words; a match becomes a `parse_target`, collected by the mode;
at the end each target is invoked, and the mode's router gets the values.
`alias` reaches sideways, to other children of the mode, and `dependent` reads
the targets collected so far.  `help_t` is a leaf whose router walks the same
tree; its formatter cuts the descriptions with `utf8::line_iterator`, which asks
the terminal width and the line break class of every code point.  A word nobody
knows makes the mode walk its children for the nearest name.

The hazards of this code are listed in `PROJECT.json`, each with its line and
the properties that watch it.

## 2. Modules

| Module | What it models | Uses |
|---|---|---|
| `SeqOps` | edits of a vector at a position (the C++ library's) | |
| `DynamicTokenAdapter` | the adapter's operations as functions of its two containers | `SeqOps` |
| `TokenList` | the abstract list: claim, insert, leave, remove, rewrite, consume | `SeqOps` |
| `TokenAdapter` | a state machine that calls the operations in any order; refines `TokenList` | `DynamicTokenAdapter` |
| `Tokens` | words, tokens, names, `get_token_type`, `match` | |
| `Policies` | the seven pre-parse phases and the loop that runs them | `Tokens`, `DynamicTokenAdapter` |
| `TreeNode` | `pre_parse_impl` after the policies, and the two groups | `Policies` |
| `Parser` | `root_t::parse` and `mode_t` step by step | `TreeNode` |
| `ParseCall` | the abstract call: one router once, or one error | |
| `ParserProperties` | what the parser must guarantee; `Parser` refines `ParseCall`; the premises of the theorems | `Parser` |
| `LeafNodes` | the factory functions: the policies each node type comes with | `Policies` |
| `Validator` | the validator's rules as predicates of trees, and how they are chosen and changed | `LeafNodes` |
| `Examples` | the trees of the programs in `examples/` and the rules they are compiled under | `Validator` |
| `HelpData` | what the help says of a node: label, description, rows, columns | `LeafNodes` |
| `Suggestion` | the edit distance and the score of a name | `HelpData` |
| `Help` | the search, the output and the walk for a suggestion, step by step | `Suggestion` |
| `HelpProperties` | what the user may rely on | `Help` |
| `RangeTable` | the packed tables of code point ranges and the search in them | |
| `GraphemeClusterBreak`, `LineBreak` | the break rules, one operator per rule, over a trailing window | `RangeTable` |
| `Utf8` | `grapheme_cluster::iterator` and `line_iterator` step by step | both |
| `Utf8Properties` | what the iterators owe their users | `Utf8` |
| `CodePoint` | size and decoding of a code point | `RangeTable` |
| `TerminalWidth` | `terminal_width`: decoding and the binary search step by step | `CodePoint` |
| `MCTokenAdapter`, `MCParser`, `MCValidator`, `MCHelp`, `MCUtf8`, `MCTerminalWidth` | instances for TLC | |
| `BasicProofs`, `TokenAdapterProofs` | cutting and splicing sequences, counting up to a number; theorems on the adapter | `TokenAdapter` |
| `TreeProofs` | what one node makes of the words | `TreeNode` |
| `ResultProofs`, `WordProofs`, `LineProofs` | theorems on a call, its result and its errors; on where its words go and how they are used up; and on the whole line | `ParserProperties` |
| `TerminalWidthProofs`, `Utf8Proofs` | theorems on the search and on the iterators | |

### State and actions

`TokenAdapter`: `processed` and `unprocessed` are the two vectors; each action
is one method (`DoTransfer`, `DoInsert`, `DoErase`, `DoSet`) or one edit a
policy makes of a container (`InsertUnprocessed` by `short_form_expander`,
`EraseProcessed` by `alias`).  `returned` is the index in the iterator the last
`insert` or `erase` returned.  `end()` is the constant `End`, because the
iterator it returns has no owner: `end() - 1` is still `end()`.

`Parser`: `line` is the command line, `args` the unprocessed tokens, `path` the
modes entered, `targets` the mode's sub-targets, `matched` its bitset, `results`
its tuple of optionals (a child that is a mode or an alias has no place in it,
`HasResult`, and stays `Unset`), `selected` the `last_typeid_` of each `one_of`, `routed`
the router calls of this call, `answer` how it ended and `thrown` the error code
if it threw.  `phase` and `i` say where the thread is:

    idle --Call--> root --RootLeaf--> leaf --RouteLeaf--> idle
                    |RootMode
                    v
    submode --NoSubMode--> loop --LoopEnd--> run --RunEnd--> missing --MissingEnd--> stages --Route--> idle

and every phase may end with an error (`Fail`), which is the exception leaving
`parse`.  `TryChild` is one round of one child in the mode's loop: all the
policies of that child (and of its siblings in a group), the label check, the
validator, and the update of `args`, `targets`, `matched` and `last_typeid_`.

`Help`: `asked` is what the user asked for, and on which terminal.  A question
to the help node searches (`find`): `Descend` enters the child the next word
names, `Refuse` is the error of a disabled node, `NoTarget` that of a word
nobody has, `Arrive` hands the node found to the formatter.  `Generate` collects
the rows and computes `desc_column`; then each row is left out (`SkipRow`) or
printed, label first (`PrintLabel`), then one line of its description at a time
(`PrintDescription`), until `Shows`.  A mistyped word walks the tree (`Visit`),
which keeps the best name and ends with the error (`Throws`);
`AskAboutSuggestion` is the user's next step, `help` with the suggested path.

`Utf8`: `text` is the string as code points, `at` those removed from the front
of `str_`, `scan` those looked at behind them, `window` the trailing window,
`mark` the last line break opportunity.  `ScanCluster` and `ScanLine` are one
round of the loops in the two `operator++`; `LineFull` and `LastLine` are the
ways a line ends; `Increment` gives the piece to the user and goes on.

`TerminalWidth`: `DecodeNext` takes a code point off the string and starts the
binary search of `find_range` in the table of wide ones; `Below`, `Above` and
`Inside` are its three outcomes, `Missing` its failure, which moves on to the
table of empty ones; `Done` is the end of the string.

### Abstractions

* Text is a sequence of atoms: a prefix, a separator, or a piece that nothing
  in the parser splits.  In a collapsed word every grapheme cluster is an atom.
  Long and short prefix differ (the library's default; `short_form_expander`
  asserts it).  In `Utf8` and `TerminalWidth` text is code points and bytes.
* A value is the texts it is made of.  Conversion is reduced to which texts
  fail, comparison with limits to which values fail.
* An error is its `error_code`, in `Help` also the words it names.  The two
  unknown-argument codes are one.
* A node is a record; the nodes of a group or mode are its `children`, its type
  is its `id`.  The validator's paths are lists of types, as in the code.
* `std::size_t` has 8 bits (`SizeMax` = 255) in `min_max_count`, where its
  arithmetic wraps around; the token counts involved stay below ten, so wider
  integers behave the same.
* In `Help` a label is its columns, a description the columns that are left of
  it, cut anywhere: where it may be cut is the subject of `Utf8`.
* The tables of code points (`RangeTable`, `GraphemeClusterBreak`, `LineBreak`)
  are a selection of the rows of the real ones: every class that a rule of the
  runs tells apart, and every kind of boundary.

## 3. Runs

| Run | Question | Bounds |
|---|---|---|
| `token_adapter` | Do the two vectors act as one list under any sequence of operations, and does `insert` put tokens where its caller asked? | 2 tokens, runs of 1 or 2, at most 4 tokens in all |
| `leaves` | Do the words reach the right leaf, in order, in the right number, validated? | trees `Cat`, `Pairs`, `Width`, `Launcher`, `Solo`, `Doubles`; lines of up to 4 words of 4 to 7 |
| `relations` | Do aliases, dependencies, groups, disabled nodes and nested modes keep their promises, and does a call end in one of its two ways? | trees `Aliases`, `Doubles`, `Groups`, `Modes`; lines of up to 4 words of 7 |
| `validated` | What are the validator's rules for: can the parser be trusted on every tree they let through? | every mode of up to 3 of 6 leaves and every root of up to 3 of 5 nodes that the rules accept, and the example programs; lines of up to 3 words |
| `help` | Does the help find, show and lay out what the user asks for, and is the suggestion for a mistyped word the nearest and of use? | paths of up to 3 words; nodes disabled in every combination; 0, 33, 40, 41, 48 and 80 columns; names of up to 3 letters of 3 |
| `utf8` | Are the clusters and lines those of the rules applied to the whole text, though the iterators see a window of it? | texts of up to 3 to 6 code points; 0 to 4 columns; a window of 4 |
| `terminal_width` | Do the decoder and the binary search agree with UTF-8 and the tables? | texts of up to 2 of 23 code points at the boundaries of encoding and tables |

The bounds are enough for the cases that matter.  Four tokens put a position
before, at and behind the cut of the two vectors with tokens on either side.
Four words give a label, its value, a second use of the same node and a word
left over, or two nested modes with an option and a value; three words give
each of three positional arguments its own, or one of them all.  Three levels of
tree have a mode in a mode and a group beside it.  The descriptions begin at
column 17, 29 or 33: 33 columns leave the last no room at all, 40 are one too
few for it to be wrapped, and 41 are enough.  A window of four code points holds
what every rule looks at, and texts of five and six run out of it.  A binary search of up to six rows turns both
ways at an odd and at an even length.  A call has no state to carry to the next,
`last_typeid_` apart, so one call is checked, except in the run about
`last_typeid_`, which makes two.

What each property says is in the comment above it.  In short:

* `ImplementsTokenList`, `InsertedWhereAsked`: the adapter.
* `Explained`: the command line can be read back from the targets, text by text
  and in order, each target's behind a name of its node (prefixes, separators and
  end markers aside; a mode with aliases is left to `AliasDelivered`).
  `Delivered`: a mode's router gets one value of each child that has one, which
  modes and aliases do not: the texts of the child's targets, or its default.
  `CountsWithin`, `InRange`: numbers and values are within limits.
* `OwnErrors`, `AlreadySetIsTrue`, `MismatchIsTrue`: an error is about the node
  whose word is at the front, and what it says is so.
* `SetOnce`: no node is set twice, by whatever mixture of names and aliases.
* `DependenciesMet`, `DisabledUntouched`, `DisabledModesClosed`,
  `AliasDelivered`, `ModeIsDeepest`: nodes that refer to each other, and modes.
* `RoundsConsume`: a round of the loop leaves less of the line, although a
  collapsed word becomes several tokens.  `MarkerEndsList`: an end marker ends
  the list of values.
* `ImplementsParseCall`: the refinement of `ParseCall`.
* `EachGetsItsShare`: plain words that fit the counts of the positional
  arguments are shared out among them, which is why the validator wants all but
  the last of them to have a fixed count.  `OneNodeOfAName`: a word is the name
  of one node.
* `FoundIsTrue`: the search finds the node its words lead to, although it enters
  the first child that matches for good.  `ShownOnce`: every enabled node that
  belongs in the output is shown once, behind its parent.  `Aligned`: all
  descriptions begin in one column, whatever is disabled, and none is wider than
  a terminal with room for it.
* `NearestSuggested`: no enabled name is nearer than the one suggested.
  `SuggestionCanBeAsked`: `help` with the suggested path finds it.
* `NothingLost`: the pieces are the text, but for the space a line starts with.
  `ClustersAsRuled`, `LinesAsRuled`: the pieces end where the rules, looking at
  all of the text, say.  `LinesFit`: no line is wider than asked for.
* `NeverLeftBehind`: the row looked for is among those that are left.  `Halves`:
  each turn leaves at most half of them.  `InStep`: what is left of the string
  begins with a whole code point.  `WidthIsRight`: the result is the columns of
  the text.

Deadlock is checked in `token_adapter` only, whose operations never end.  In the
others the system rests at the end: a call has returned, an output is complete,
an iterator is at its end.

### Fairness

`Parser` is fair in the steps of a running call only (`WF_vars(Step)`): it is one
thread that does not block.  Nothing forces a call.  Under it every call returns
or throws (`EveryCallEnds`, in `relations`); the reason is `RoundsConsume`, which
`leaves` checks.  `Utf8` and `Help` are loops of one thread that waits for
nothing, so they are fair in all their steps: `IterationEnds`, `HelpEnds`.
`TerminalWidth` states no fairness; `Halves` bounds its search instead.

### Disagreements of the code with its documentation

Each is a run that expects a violation; `PROJECT.json` quotes the text.

| Run | What happens |
|---|---|
| `lone_dash` | The word `-`, last on the line and tried by a flag with short-form expansion (`cat -`), ends the call with `std::length_error`: the size passed to `reserve` is 0 + 0 - 1. |
| `one_of_second_call` | `last_typeid_` survives the call: a second `parse` that names the other child fails. |
| `marker_first` | An end marker before any value of a bounded positional argument does not end its list: `num_tokens - 1` wraps around. |
| `same_named_modes` | Two sibling modes of one name compile: the rule looks for other names within each mode, not beside it.  The second can never be entered. |
| `help_of_disabled_node` | `find_help_target` has erased the word when it meets that its node is disabled, and names the front of what is left, which may be nothing. |

Met while modelling, without a run.  In the parser:

* `insert(end(), v)` returns an iterator to the first token
  (`parsing/dynamic_token_adapter.hpp:394`).
* An alias sets a disabled node (`policy/alias.hpp:137`), and a disabled
  anonymous mode works as if it were enabled (`mode.hpp:251`), against
  `policy/runtime_enable.hpp:15-21`.
* An alias that stands for another alias is accepted, by the check for cycles
  (`policy/alias.hpp:212-241`), too, and sets nothing, against
  `policy/alias.hpp:16`: the other alias has no result (`mode.hpp:82-89`), so what
  its target brings is dropped (`mode.hpp:469`).
* A dependency that stands behind the node that needs it counts as missing
  (`policy/dependent.hpp:86`), and one on an alias can never be met.
* A `one_of`'s or `alias_group`'s own policies never run (`src/README.md:244`
  makes a `one_of` dependent).
* `too_few_values_for_alias` is shadowed by `minimum_count_not_reached`
  (`policy/alias.hpp:91`).
* An empty first word is reported as `no_arguments_passed` (`root.hpp:169`).
* A cluster of a collapsed word that no flag knows reaches a positional argument
  without its dash.
* A named mode behind an anonymous one is accepted and never entered
  (`policy/validator.hpp:486-501`); `child_must_not_have_policy` fails only if
  all children have the policy (`:391`).

In the help and the text utilities:

* The colour formatter prints one blank too many in front of rows of depth 0
  (`policy/colour_help_formatter.hpp:89` against `:124`).
* A suggestion inside a group or an anonymous mode has the parent's display name
  in its path, which `help` does not know; the prefix that
  `levenshtein_distance.hpp` says it considers is not compared.
* `size` misjudges the code points U+07C0 to U+07FF and U+F000 to U+FFFF
  (`utility/utf8/code_point.hpp:165,170`).
* A line starts with the window the line before it left, so a regional indicator
  at the end of one splits a flag at the start of the next
  (`utility/utf8.hpp:539`, `utility/utf8/line_break.hpp:633`), and a Hebrew letter
  at the end of one binds a hyphen at the start of the next to what follows it,
  although a space was between the two (`utility/utf8/line_break.hpp:342-359`).
* A code point wider than the terminal makes the line loop endless
  (`utility/utf8.hpp:516`).
* One lambda of the multi-language root's `help()` lacks a `return`.

The passing runs use trees and texts that avoid these cases where a property
would trip over them, and only there: no alias of a disabled node or of an alias, no bounded
positional argument with a marker, one call, no named mode behind an anonymous
one, no suggestion asked about below a parent without a name, no misjudged code
point, in `LinesAsRuled` no flag and no hyphen behind a space where there are
Hebrew letters, no terminal narrower than a code point.

## 4. Proofs

Every theorem holds for all values of the constants.  The premises it names are
assumptions of the modules, or are stated of the trees and texts of the runs as
assumptions of their MC modules; TLC evaluates both.

### The adapter

`TokenAdapterProofs`, for every set of tokens, every set of runs over it and
every bound:

* `TypeCorrect`: `Spec => []TypeOK`.
* `Refinement`: `Spec => ImplementsTokenList`, every operation of the adapter is
  a step of `TokenList` under `tokens = processed \o unprocessed`,
  `claimed = Len(processed)`, or a stutter.
* `InsertionIsRead`: `Spec => InsertedWhereAsked`, an inserted run is read at the
  index that `insert` returns, and what is before it stays.

`TypeOK` is inductive as it stands, and it is all the refinement needs: the
mapping is a function of the two vectors.  The argument is one lemma per
operation about what it does to the concatenation: `TransferFacts` moves the
cut and nothing else; `Insert`, `Erase` and `SetAt` are a transfer followed by
one edit, at a position inside the first part or at the cut.  `BasicProofs`
holds the facts about cutting and splicing sequences that this rests on; every
one is proved from the axioms of sequences.  The assumptions are
`EndAssumption` (`end()` is no index), `RunsAssumption` (runs are sequences of
tokens) and `MaxTokensAssumption`.

### The parser

`ResultProofs`, for every set of parse trees, every command line and any number
of calls:

* `OneEnding`: `Spec => ImplementsParseCall`.  The invariant it needs is
  `Running`: while a call runs it has called no router and has no answer.  What
  a child makes of the words (`PreParse`) is not opened, so the result does not
  depend on any policy.

`TreeProofs` opens it: one lemma per phase follows the types of a node's outcome
(its tokens, targets and the words left over) through the seven phases, the
label check, and the two groups.  `FlattenSeq` and the search of a group are
recursive functions of a position; what they compute is shown by counting up to
it (`UpTo`: a set of numbers that has 0 and the successors of its members
up to `n` has all of them, because otherwise there were a least one missing).

`ResultProofs` has nine theorems on the result, too, for every command line and
any number of calls.  The invariant of the first, `Typing`, is the ground of all
others; the rest of what each needs is this:

| Theorem | Property | Premises on the trees | Invariant, and why the property is not inductive |
|---|---|---|---|
| `TypeCorrect` | `TypeOK` | `TreesOf` | `Typing`: what each phase may hold; `TypeOK` does not say what tokens a target has, nor that nothing has matched while modes are entered |
| `NodesAreSetOnce` | `SetOnce` | `DistinctIds` | `SetSoFar`: a child with a target that was parsed has a value already, so that a second target of it is merged or refused; `SetOnce` speaks of the end only |
| `LimitsHold` | `InRange` | `DistinctIds`, `LimitsAreChecked` | `RangeSoFar`: after each phase a value is within limits, or its validation is still to come |
| `DisabledAreUntouched` | `DisabledUntouched` | `DistinctIds`, `DisabledByPolicy`, `AliasesOfEnabled` | `EnabledOnly`: no target is of a disabled node |
| `DisabledModesAreClosed` | `DisabledModesClosed` | `DisabledByPolicy` | `Open`: every mode entered is one of the tree's enabled modes |
| `RouterGetsAll` | `Delivered` | `DistinctIds`, `ModesApart` | `DeliveredSoFar`: a value is made of the targets of its child that were parsed so far, of all if they merge and of the last if they do not; where there is none it is the default, or missing.  With `NoneOfModes`: no target is of a node of a child mode; and `RoutedSoFar`: what was routed is the results of the children that have one |
| `ErrorsAreOwn` | `OwnErrors` | `LeavesInGroups` | `OwnSoFar`: a call that runs has not failed.  The work is in the phases: each keeps, of a word of another node, enough that the label check still refuses it |
| `AlreadySetHolds` | `AlreadySetIsTrue` | `DistinctIds`, `LeavesInGroups`, `AliasesExist` | `Known`: a child whose bit is in `matched` has a leaf all of whose targets are there (`InLoop`); a value met while the targets parse is of one before (`InRun`) |
| `MismatchHolds` | `MismatchIsTrue` | those of `AlreadySetHolds`, and `MaxCalls <= 1` | `FirstCall`: what a `one_of` has selected is set |

The premises are operators of `ParserProperties`, and `TreesAssumption` of
`MCParser` states them of the trees of every run of it.  None is for the
prover's convenience.  `TreesOf` gives the trees types.  `DistinctIds`: the
library tells nodes apart by their type, and two equal types among siblings
share a slot of the result.  `LimitsAreChecked`: limits are looked at where a
leaf parses or where the value is validated in the end, nowhere else.
`DisabledByPolicy` and `AliasesOfEnabled`: a disabled anonymous mode works
(`mode.hpp:251`) and an alias sets a disabled node (`policy/alias.hpp:137`).
`ModesApart`: an alias looks for its nodes in the whole of its mode, child modes
included (`policy/alias.hpp:137`), and a child mode has no slot in the results of
its parent (`mode.hpp:340`): a target of one of its nodes would be of no child.

The errors follow the first word through the phases of a node's policies
(`Foreign`: what a state of the adapter keeps of a first word that does not name
the node).  `LeavesInGroups`: groups hold leaves, in a mode
(`policy/validator.hpp:690-703`).  `AliasesExist`: an alias's nodes are there
(`policy/alias.hpp:204`).  `MaxCalls <= 1`: what a `one_of` has selected outlives
the call, and the run `one_of_second_call` shows a later one fail for it.

`WordProofs` has five, on where the words go and how they are used up.

| Theorem | Property | Premises on the trees | Invariant, and why the property is not inductive |
|---|---|---|---|
| `DependenciesAreMet` | `DependenciesMet` | those of `AlreadySetHolds`, `ModesApart`, `AliasesOfIndependent`, `DependsOnSingle` | `DependsSoFar`: the targets of a dependent node are behind those it needs; `ByTarget`: each value is a default or that of the target it came from |
| `DeepestModeIsFound` | `ModeIsDeepest` | `ModeRules` | `EnteredSoFar`: the leading words are the names of the modes entered, the tokens are the words behind them, and the next word is not the name of an enabled child that was passed over |
| `LoopConsumes` | `RoundsConsume` | those of `AlreadySetHolds`, `CountRules`, `AliasCounts`, `ShortLines` | `LineFits`: no step makes the line heavier, so that it stays as short as the command line was |
| `CountsHold` | `CountsWithin` | the same | `InCounts` of every target: its own tokens are as many as its node's counts allow, and so are those an alias gave it |
| `MarkersEnd` | `MarkerEndsList` | the same, `MarkerRules` | `LineFits`, and `ListMatch` of a step: no phase between edits the tokens in front of the marker, and the counts leave just these |

`AliasesOfIndependent`: an alias makes its targets without asking for what they
depend on, so a dependent node that has one may be set alone.  `DependsOnSingle`:
the value of a group whose nodes merge carries the name of its last node only, and
an alias has no value (`mode.hpp:82-89`): a target another alias made for it is
there, but nothing is set.
`ModeRules`: a mode's name is a word and its policies leave the words alone; an
anonymous mode is the last of the root's and has no child modes
(`mode.hpp:212,244`, `policy/validator.hpp:511-539`).

The weight of a token is the length of its text.  Phases add tokens:
`short_form_expander` makes several of one word, and `value_separator` cuts its
value off.  Weight tells that this is progress where the number of tokens does
not.  One lemma per phase says that a state of the adapter weighs no more behind
it than before it (`Light`), and what it does to the tokens that are claimed.
That something *was* claimed is then a matter of the counts: the phase of
`min_max_count` takes a label, or a value where there is no label, unless the
marker or the alias had used up a word before it (`CountClaims`, `MatchUses`).

`CountRules` and `AliasCounts` are what the factory functions, `static_assert`s
and the validator give (`policy/min_max_count.hpp:34-40`,
`policy/value_separator.hpp:79-86`, `policy/alias.hpp:163-253`), and two things
that nothing enforces: a node without a name may have a value (where its maximum
is 0, `min_max_count` takes one off it, which wraps, and the node gets every
word there is), and a node with a separator has a name.  `ShortLines` is there
because `min_max_count` computes in `size_t`: on a command line half as long as
there are sizes its sums would wrap, in the code at 2^63, in the model at 2^7.

`MarkerRules` is what `policy/token_end_marker.hpp:75-83` asserts, and two things
that nothing enforces: a node with a marker does not expand short forms (the
flags of a collapsed word would be taken for its values), and a positional list
that may be empty has no maximum (the run `marker_first` shows one with a maximum
take words from behind a marker that comes first).

`LineProofs` has the two theorems that say most about a parse: nothing of the
command line is lost, invented or reordered, and what a named node gets stood
behind its name, or behind that of an alias.

| Theorem | Property | Premises on the trees | Invariant, and why the property is not inductive |
|---|---|---|---|
| `LineIsExplained` | `Explained` | `LineRules`: those of `AlreadySetHolds`, `ModeRules`, `SplitOnce` | `ToldSoFar`: the names of the modes, the targets so far, each with a name of its node, and the tokens that are left say what the command line says, and once the loop is over no token is left; the property speaks of the end, where there are only targets |
| `AliasesDeliver` | `AliasDelivered` | those of `AlreadySetHolds`, `ModeRules`, `ModesApart`, `AliasValues` | `LineLeft`: while the loop runs, the tokens that are left are the last words of the line, except for flags in front that a collapsed word became; `AliasSoFar`: every alias matched so far has brought a target of each node it stands for, with the words behind its label; the property speaks of the end, where neither the tokens nor the order in which the targets came is left |

What a text says is its atoms without prefixes, separators and markers (`Said`),
and it is a homomorphism: two sequences of tokens say one after the other what
each says (`FlattenConcat`, counted up with `UpTo`).  Then each phase is a
lemma of one equation: a cut label and its value (`SplitSays`), the flags of a
collapsed word (`ExpanderSays`), a list without its marker (`MarkSays`), the
counts (`CountSays`) leave tokens that say the same; a match says the front of
the line, a name of its node and its values (`MatchSaid`), and its rest is the
rest of the line.  `SplitOnce`: a node does not have both a separator and the
short form expander.  The factories give the expander to flags only
(`flag.hpp:136-149`, `counting_flag.hpp:148-164`), and a flag has no value to
separate; but nothing refuses a node that is given both, whose value would stand
behind the flags that the expander puts in front.

`LineIsExplained` leaves modes with aliases aside, because an alias's words come
back several times, or not at all.  `AliasesDeliver` is about these.  A match of
an alias finds its label at the front of the tokens; `LineLeft` says at which word
of the line that is, so that the tokens behind it are the words behind that word
(`ValuesOnLine`, `AliasAdds`).  From there each target keeps its tokens until the
router of its node is called: a node that an alias gives values to is set once
(`SetSoFar`, `ByTarget`), so the target the router is given is the alias's, and
`DeliveredSoFar` says that the router got its values (`BroughtIsDelivered`).
`AliasValues` is what this needs of the trees:

* an alias with values is not split by a separator, not expanded and has no end
  marker, since then its values are not the words behind its label, and a node it
  gives values to is no flag (`flag.hpp:30-32`: a flag has none);
* an alias with values and a short name has no sibling that expands short forms:
  in a collapsed word its label would be one letter of a word, and the property,
  which looks for a word that is its name, would not find it;
* an alias stands for no alias, whose value would be dropped;
* a value an alias gives is not merged with others (`multi_stage_value`).  Then
  the router gets the alias's values and others, which the property does not say.

Groups have no aliases of their own: a group runs no phases.

### Text

`TerminalWidthProofs`, for every pair of sorted tables (`RowsAssumption`) and
every text (`InputsAssumption`): `TypeCorrect`, the bounds of the search stay in
its table; `SearchComplete`, `[]NeverLeftBehind`; `Halving`, `[][...]` of
`Halves`.  The argument is that of a binary search, but over rows packed in 64
bits (`PackedRow`: unpacking gives the fields back) and decoded from bytes
(`DecodesEncoded`: what UTF-8 encodes, `Decode` returns, for every code point
`size` does not misjudge).  On the whole string, under the premise `WellEncoded`
(`StringsAssumption` of `MCTerminalWidth`: each string is the encoding of its
text, without a misjudged code point): `DecoderInStep`, `[]InStep`, and
`ResultIsRight`, `[]WidthIsRight`.  Their invariant is `Placed`: some number of
code points has been taken off the text, the bytes that are left encode the
others, and the width is that of those taken, the one looked up apart; what is
known of that one is `NeverLeftBehind`.

`Utf8Proofs`, for every text, number of columns and size of the window:
`TypeCorrect`, `TextKept` (`[]NothingLost`) and `NoLineTooWide` (`[]LinesFit`).
The inductive invariant is `TypeOK /\ NothingLost /\ Measured /\ LinesFit`, where
`Measured` says that `width` is the columns between `at` and the end of the scan,
and `mark` and a line that is ready are measured alike.  The break rules are not opened: whatever
they allow, nothing is lost and every line fits.

`ClustersRight` (`[]ClustersAsRuled`) and `LinesRight` (`[]LinesAsRuled`) open
them, but only as far as what each rule looks at: the class next to the place, the
nearest class that is not an extension, the one behind the spaces, the Hebrew
letter behind a hyphen, and how many regional indicators there are in a row
(`ClusterRules`, `LineRules`).  If two contexts agree on these, the rules say the
same of both, and if no run of extensions, spaces or indicators is longer than the
window (`WindowSuffices`), the window and the whole text agree on them.  The
invariant adds to the one above: the window holds the code points in front of the
place that is scanned (`Seen`), no place scanned since the piece began allows a
break (`ClusterSoFar`), a line's mark is the last place that allows one, and no
place behind it does (`LineSoFar`).  `LineBegun` and `HebrewSeen` say what a line's
window still holds of the line before, which the whole text does not show there.
Hence the premise of `LinesAsRuled`, `NothingCarried`: without it `HebrewSeen`
fails on the text named under "Met while modelling".

### Only model-checked

* Liveness (`EveryCallEnds`, `HelpEnds`, `IterationEnds`): beyond this prover.
* The properties of `validated` and `help`: their modules walk trees with
  recursive operators, which the prover does not take.

## 5. Not modelled

* `multi_lang/`: it chooses one of several roots once, when it is constructed, by
  comparing names, and hands every call to it.  It has no state that changes; a
  property would repeat the comparison.
* Conversion of one text to one C++ value (`parsing/global_parser.hpp`,
  `policy/custom_parser.hpp`): a call of `std::from_chars` or of the program's
  function.  The parser's model asks only whether it fails.
* Compile-time strings, string policies, `traits.hpp`, `algorithm.hpp`,
  `tuple_iterator.hpp` and the like: template metaprogramming with no behaviour
  at run time.  The validator runs in the compiler too, but decides which trees
  there are, so its rules are modelled.
* The wording of errors and its translation (`utility/exception_formatter.hpp`):
  an error is its code and the words it names.
* The program's name and version above the help output, the addendum below it,
  and colours.
* Most rows of the Unicode tables: data generated from the standard's files.

## 6. What could be added

* `AliasDelivered` for values that are merged and for labels in a collapsed word:
  the property would have to say at which place of a merged list the alias's
  values stand, and which letter of which word its label is.
* A theorem for `OneNodeOfAName` and the properties of the help: their modules
  would have to be written with recursive functions over the nodes of one tree.
