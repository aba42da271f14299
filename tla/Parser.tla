------------------------------- MODULE Parser -------------------------------
(***************************************************************************)
(* root_t::parse on a parse tree: the search for the root's child that the *)
(* command line names, mode_t's loop that hands the words to its children, *)
(* the parse of the targets they left, and the call of a router.  The      *)
(* steps are those of one thread; an exception ends the call.              *)
(*                                                                         *)
(* A node is a record, and so is a mode (kind "mode"):                     *)
(*    id, kind          "leaf", "flag" (its parse yields true whatever the *)
(*                      tokens), "one_of", "alias_group" or "mode"         *)
(*    long, short, none its names, <<>> for a name it does not have        *)
(*    policies          the names of its policies                          *)
(*    min, max, marker, enabled, alias, depends, default                   *)
(*                      the parameters of its policies                     *)
(*    multi_stage       its values are merged                              *)
(*    unparsable        the texts its parse phase rejects                  *)
(*    low, high         the values its validation phase rejects            *)
(*    router            it has a router                                    *)
(*    children          of a group or a mode                               *)
(***************************************************************************)
EXTENDS TreeNode

CONSTANTS Trees,      \* trees: [children, a sequence of nodes, words, a set]
          MaxWords,   \* bound: the words of a command line
          MaxCalls    \* bound: the calls of root_t::parse

ASSUME MaxWordsAssumption == MaxWords \in Nat
ASSUME MaxCallsAssumption == MaxCalls \in Nat

VARIABLES tree,       \* the parse tree; its root never changes
          calls,      \* the calls so far
          line,       \* the words of this call
          phase,      \* where the thread is
          args,       \* the unprocessed tokens
          i,          \* the child, or the target, whose turn it is
          path,       \* the modes entered, outermost first
          matched,    \* the indices of the mode's children that matched
          targets,    \* the targets collected
          results,    \* a value per child of the mode
          selected,   \* last_typeid_ of each one_of that has one, by the
                      \* one_of's id; it outlives the call
          routed,     \* what this call passed to routers
          answer,     \* how the last call ended: "routed" or "threw"
          thrown      \* the error code of the exception

vars == <<tree, calls, line, phase, args, i, path, matched, targets, results,
          selected, routed, answer, thrown>>

Mode     == Last(path)
Children == IF path = <<>> THEN tree.children ELSE Mode.children
Child    == Children[i]
Done     == {targets[k].node : k \in DOMAIN targets}

\* A value of a child: who it comes from and the texts it is made of.
Value(by, list) == [by |-> by, list |-> list]
Unset == Value("unset", <<>>)
Given == <<"true">>

Init == /\ tree \in Trees
        /\ calls = 0
        /\ line = <<>>
        /\ phase = "idle"
        /\ args = <<>>
        /\ i = 1
        /\ path = <<>>
        /\ matched = {}
        /\ targets = <<>>
        /\ results = <<>>
        /\ selected = <<>>
        /\ routed = <<>>
        /\ answer = "none"
        /\ thrown = ""

\* An exception: nothing else of this call happens.
Fail(code) == /\ phase' = "idle"
              /\ answer' = "threw"
              /\ thrown' = code
              /\ UNCHANGED <<tree, calls, line, args, i, path, matched, targets,
                             results, routed>>

\* Mutant of NextChild: the index is not incremented
NextChildStays == UNCHANGED <<tree, calls, line, phase, args, i, path, matched, targets,
                              results, routed, answer, thrown>>

NextChild == /\ i' = i + 1
             /\ UNCHANGED <<tree, calls, line, phase, args, path, matched, targets,
                            results, routed, answer, thrown>>
-----------------------------------------------------------------------------
\* root_t::parse(begin, end)
Call(words) ==
  /\ phase = "idle"
  /\ calls < MaxCalls
  /\ calls' = calls + 1
  /\ line' = words
  /\ args' = [k \in DOMAIN words |-> Raw(words[k])]
  /\ phase' = "root"
  /\ i' = 1
  /\ path' = <<>>
  /\ matched' = {}
  /\ targets' = <<>>
  /\ results' = <<>>
  /\ routed' = <<>>
  /\ answer' = "none"
  /\ thrown' = ""
  /\ UNCHANGED <<tree, selected>>

\* The root tries a child; a leaf must leave no words.
RootLeaf ==
  /\ phase = "root" /\ i <= Len(Children) /\ Child.kind # "mode"
  /\ \E o \in {PreParseLeaf(Child, Children, {}, args, "accept")} :
         \/ o.kind = "none" /\ NextChild
         \/ o.kind = "error" /\ Fail(o.code)
         \/ o.kind = "match" /\ o.args # <<>> /\ Fail("unhandled_arguments")
         \/ /\ o.kind = "match" /\ o.args = <<>>
            /\ phase' = "leaf"
            /\ args' = o.args
            /\ targets' = o.targets
            /\ UNCHANGED <<tree, calls, line, i, path, matched, results, routed, answer, thrown>>
  /\ UNCHANGED selected

\* Mutant of Enter: child modes are not looked for
EnterLoop(mode, rest, next) ==
  /\ path' = Append(path, mode)
  /\ args' = rest
  /\ phase' = "loop"
  /\ i' = 1
  /\ UNCHANGED <<tree, calls, line, matched, targets, results, routed, answer, thrown>>

\* A mode is entered, and its loop begins, or first the search for a child
\* mode if the mode is a named one.  (The policies a mode may have skip it, but
\* have no errors.)
Enter(mode, rest, next) ==
  /\ path' = Append(path, mode)
  /\ args' = rest
  /\ phase' = next
  /\ i' = 1
  /\ UNCHANGED <<tree, calls, line, matched, targets, results, routed, answer, thrown>>

RootMode ==
  /\ phase = "root" /\ i <= Len(Children) /\ Child.kind = "mode"
  /\ \/ ~IsNamed(Child) /\ Enter(Child, args, "loop")
     \/ /\ IsNamed(Child)
        /\ \E o \in {PreParseLeaf(Child, <<>>, {}, args, "accept")} :
               \/ o.kind = "none" /\ NextChild
               \/ o.kind = "match" /\ Enter(Child, o.args, "submode")
  /\ UNCHANGED selected

\* No child of the root
RootUnknown ==
  /\ phase = "root" /\ i > Len(Children)
  /\ Fail(IF line = <<>> \/ Head(line) = <<>> THEN "no_arguments_passed"
                                             ELSE "unknown_argument")
  /\ UNCHANGED selected

\* mode_t::pre_parse_impl: the next word may name a child mode.
SubMode ==
  /\ phase = "submode" /\ args # <<>> /\ i <= Len(Children)
  /\ \/ Child.kind # "mode" /\ NextChild
     \/ /\ Child.kind = "mode"
        /\ \E o \in {PreParseLeaf(Child, <<>>, {}, args, "accept")} :
               \/ o.kind = "none" /\ NextChild
               \/ o.kind = "match" /\ Enter(Child, o.args, "submode")
  /\ UNCHANGED selected

NoSubMode ==
  /\ phase = "submode" /\ (args = <<>> \/ i > Len(Children))
  /\ phase' = "loop"
  /\ i' = 1
  /\ UNCHANGED <<tree, calls, line, args, path, matched, targets, results,
                 selected, routed, answer, thrown>>
-----------------------------------------------------------------------------
\* last_typeid_ of the child, when it is a one_of; "none" if it was never set
Selected(id) == IF id \in DOMAIN selected THEN selected[id] ELSE "none"

\* selected with that of one one_of replaced
Remembered(id, child) ==
  [k \in DOMAIN selected \cup {id} |-> IF k = id THEN child ELSE selected[k]]

\* Mutant of Taken: the mode's args are not updated
TakenNothing(o) == args

\* The words a match leaves to the mode
Taken(o) == o.args

\* One child of the mode tries the front of the line.  After a match the loop
\* starts again from the first child.
TryChild ==
  /\ phase = "loop" /\ args # <<>> /\ i <= Len(Children)
  /\ \/ /\ Child.kind = "mode"
        /\ NextChild
        /\ UNCHANGED selected
     \/ /\ Child.kind # "mode"
        /\ \E r \in {PreParse(Child, Children, Done, args, Selected(Child.id), i \in matched)} :
               /\ \/ r.o.kind = "none" /\ NextChild
                  \/ r.o.kind = "error" /\ Fail(r.o.code)
                  \/ /\ r.o.kind = "match"
                     /\ args' = Taken(r.o)
                     /\ targets' = targets \o r.o.targets
                     /\ matched' = matched \cup {i}
                     /\ i' = 1
                     /\ UNCHANGED <<tree, calls, line, phase, path, results, routed, answer, thrown>>
               /\ selected' = IF Child.kind = "one_of"
                              THEN Remembered(Child.id, r.selected)
                              ELSE selected

\* No child of the mode.  The bit of a child mode is never set.
NoChild ==
  /\ phase = "loop" /\ args # <<>> /\ i > Len(Children)
  /\ Fail(IF matched = DOMAIN Children THEN "unhandled_arguments" ELSE "unknown_argument")
  /\ UNCHANGED selected

LoopEnd ==
  /\ phase = "loop" /\ args = <<>>
  /\ phase' = "run"
  /\ i' = 1
  /\ results' = [k \in DOMAIN Children |-> Unset]
  /\ UNCHANGED <<tree, calls, line, args, path, matched, targets, selected, routed, answer, thrown>>
-----------------------------------------------------------------------------
\* The child of the mode in whose subtree the node is, and the node
Owner(id)  == CHOOSE k \in DOMAIN Children : id \in {n.id : n \in ToSet(Nodes(<<Children[k]>>))}
NodeOf(id) == CHOOSE n \in ToSet(Nodes(Children)) : n.id = id

Names(tokens) == [k \in DOMAIN tokens |-> tokens[k].name]

\* The value a node's parse() makes of its target
Parsed(node, target) ==
  Value(node.id, IF node.kind = "flag" THEN <<Given>> ELSE Names(target.tokens))

\* The validation phase of a node's policies (min_max_value)
Validation(node, list) ==
  CASE list \in node.low -> "minimum_value_not_reached"
    [] list \in node.high -> "maximum_value_exceeded"
    [] OTHER -> ""

\* What parse() throws, "" if it returns: a text that is no value, or a value
\* that is out of range.  Multi-stage nodes are not validated here.
ParseError(node, target) ==
  CASE node.kind # "flag" /\ \E k \in DOMAIN target.tokens :
                                target.tokens[k].name \in node.unparsable -> "failed_to_parse"
    [] node.kind = "flag" -> ""
    [] OTHER -> Validation(node, Parsed(node, target).list)

\* Mutant of Merged: the later value replaces the earlier
MergedLast(node, old, new) == new

\* mode_t::process_result: the values of a multi-stage node are merged
Merged(node, old, new) ==
  IF node.multi_stage /\ old # Unset THEN Value(new.by, old.list \o new.list) ELSE new

\* Mutant of Collides: a value that was set is overwritten
CollidesNever(node, old) == FALSE

Collides(node, old) == ~node.multi_stage /\ old # Unset

\* A child with a place in the results: a mode has no value, and neither has a
\* node that stands for others, whose targets are theirs.
HasResult(node) == node.kind # "mode" /\ "alias" \notin node.policies

\* The results with a new value of the child k, if it has a place for one
Stored(k, value) == IF HasResult(Children[k]) THEN [results EXCEPT ![k] = value] ELSE results

\* mode_t::parse_impl: the next target parses, and its value goes to its child.
RunTarget ==
  /\ phase = "run" /\ i <= Len(targets)
  /\ LET target == targets[i]
         node   == NodeOf(target.node)
         k      == Owner(target.node)
         error  == ParseError(node, target)
     IN  \/ error # "" /\ Fail(error)
         \/ /\ error = "" /\ Collides(node, results[k])
            /\ Fail("argument_has_already_been_set")
         \/ /\ error = "" /\ ~Collides(node, results[k])
            /\ results' = Stored(k, Merged(node, results[k], Parsed(node, target)))
            /\ i' = i + 1
            /\ UNCHANGED <<tree, calls, line, phase, args, path, matched, targets,
                           routed, answer, thrown>>
  /\ UNCHANGED selected

RunEnd ==
  /\ phase = "run" /\ i > Len(targets)
  /\ phase' = "missing"
  /\ i' = 1
  /\ UNCHANGED <<tree, calls, line, args, path, matched, targets, results,
                 selected, routed, answer, thrown>>
-----------------------------------------------------------------------------
\* The missing phase of required and runtime_enable_required
MissingError(node) ==
  IF \/ "required" \in node.policies
     \/ "runtime_enable_required" \in node.policies /\ node.enabled
  THEN "missing_required_argument" ELSE ""

CheckedDefault(node) == Validation(node, node.default)

\* Mutant of Missing: a node that stands for others gets a default, too
MissingOfAliases ==
  /\ phase = "missing" /\ i <= Len(Children)
  /\ IF Child.kind = "mode" \/ results[i] # Unset
     THEN NextChild
     ELSE /\ results' = [results EXCEPT ![i] = Value("default", Child.default)]
          /\ i' = i + 1
          /\ UNCHANGED <<tree, calls, line, phase, args, path, matched, targets,
                         routed, answer, thrown>>
  /\ UNCHANGED selected

\* mode_t::process_missing_token: the default of a child that has no value yet,
\* which is validated too.
Missing ==
  /\ phase = "missing" /\ i <= Len(Children)
  /\ \/ (HasResult(Child) => results[i] # Unset) /\ NextChild
     \/ /\ HasResult(Child) /\ results[i] = Unset
        /\ LET error == IF MissingError(Child) # "" THEN MissingError(Child)
                                                    ELSE CheckedDefault(Child)
           IN  \/ error # "" /\ Fail(error)
               \/ /\ error = ""
                  /\ results' = [results EXCEPT ![i] = Value("default", Child.default)]
                  /\ i' = i + 1
                  /\ UNCHANGED <<tree, calls, line, phase, args, path, matched, targets,
                                 routed, answer, thrown>>
  /\ UNCHANGED selected

MissingEnd ==
  /\ phase = "missing" /\ i > Len(Children)
  /\ phase' = "stages"
  /\ i' = 1
  /\ UNCHANGED <<tree, calls, line, args, path, matched, targets, results,
                 selected, routed, answer, thrown>>

\* The children mode_t::multi_stage_validation looks at
Staged(node) == /\ HasResult(node)
                /\ \/ node.multi_stage
                   \/ \E n \in ToSet(node.children) : n.multi_stage

\* Mutant of StageValidation: no child is validated at the end
StageValidationNever ==
  /\ phase = "stages" /\ i <= Len(Children)
  /\ NextChild
  /\ UNCHANGED selected

StageValidation ==
  /\ phase = "stages" /\ i <= Len(Children)
  /\ LET error == IF Staged(Child) THEN Validation(Child, results[i].list) ELSE ""
     IN  \/ error = "" /\ NextChild
         \/ error # "" /\ Fail(error)
  /\ UNCHANGED selected
-----------------------------------------------------------------------------
\* A call of a router with the values it gets
Routing(by, values) == [by |-> by, values |-> values]

\* Mutant of Finish: the root goes on with its other children
FinishGoesOn == /\ phase' = IF path = <<>> THEN "root" ELSE "idle"
                /\ i' = i + 1
                /\ answer' = "routed"
                /\ UNCHANGED <<tree, calls, line, args, path, matched, targets, results,
                               selected, thrown>>

Finish == /\ phase' = "idle"
          /\ answer' = "routed"
          /\ UNCHANGED <<tree, calls, line, args, i, path, matched, targets, results,
                         selected, thrown>>

\* The values of the children that have a place for one
Stripped(children, values) ==
  LET kept == SelectSeq([k \in DOMAIN children |-> k], LAMBDA k : HasResult(children[k]))
  IN  [k \in DOMAIN kept |-> values[kept[k]]]

\* They go to the mode's router.
Route ==
  /\ phase = "stages" /\ i > Len(Children)
  /\ \/ /\ Mode.router
        /\ routed' = Append(routed, Routing(Mode.id, Stripped(Children, results)))
        /\ Finish
     \/ /\ ~Mode.router
        /\ Fail("mode_requires_arguments")
        /\ UNCHANGED selected

\* A leaf of the root parses and calls its own router.
RouteLeaf ==
  /\ phase = "leaf"
  /\ LET error == ParseError(Child, targets[1])
     IN  \/ /\ error = ""
            /\ routed' = Append(routed, Routing(Child.id, <<Parsed(Child, targets[1])>>))
            /\ Finish
         \/ error # "" /\ Fail(error) /\ UNCHANGED selected

\* The command lines over the words of a tree
Lines(words) == UNION {[1 .. n -> words] : n \in 0 .. MaxWords}

Step == \/ RootLeaf \/ RootMode \/ RootUnknown
        \/ SubMode \/ NoSubMode
        \/ TryChild \/ NoChild \/ LoopEnd
        \/ RunTarget \/ RunEnd \/ Missing \/ MissingEnd \/ StageValidation
        \/ Route \/ RouteLeaf

Next == Step \/ \E words \in Lines(tree.words) : Call(words)

\* The steps of a call follow one another; nothing forces another call.
Spec == Init /\ [][Next]_vars /\ WF_vars(Step)
=============================================================================
