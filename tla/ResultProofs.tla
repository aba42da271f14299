---------------------------- MODULE ResultProofs ----------------------------
(***************************************************************************)
(* Proofs about a call of root_t::parse and how it ends: its two endings,  *)
(* the types of the parser's state, which values may reach a router, and   *)
(* whether what an error says is so, for every set of parse trees, every   *)
(* command line and every number of calls.                                 *)
(***************************************************************************)
EXTENDS ParserProperties, TreeProofs, FiniteSetTheorems

\* A call ends in one of two ways, whatever the nodes and their policies make
\* of the line: what a node does with its front (PreParse) stays closed here.

\* The three things a step of a running call can do to what its caller sees
GoesOn  == phase' # "idle" /\ UNCHANGED <<calls, routed, answer>>
Throws  == phase' = "idle" /\ answer' = "threw" /\ UNCHANGED <<calls, routed>>
Returns == /\ phase' = "idle" /\ answer' = "routed" /\ UNCHANGED calls
           /\ \E r : routed' = Append(routed, r)

\* While a call runs it has called no router and has no answer.
Running == phase # "idle" => routed = <<>> /\ answer = "none"

\* Every step of a running call goes on, throws or returns.
LEMMA StepKinds ==
  ASSUME Step PROVE phase # "idle" /\ (GoesOn \/ Throws \/ Returns)
<1>1. CASE RootLeaf
  BY <1>1 DEF RootLeaf, NextChild, Fail, GoesOn, Throws
<1>2. CASE RootMode
  BY <1>2 DEF RootMode, Enter, NextChild, GoesOn
<1>3. CASE RootUnknown
  BY <1>3 DEF RootUnknown, Fail, Throws
<1>4. CASE SubMode
  BY <1>4 DEF SubMode, Enter, NextChild, GoesOn
<1>5. CASE NoSubMode
  BY <1>5 DEF NoSubMode, GoesOn
<1>6. CASE TryChild
  BY <1>6 DEF TryChild, NextChild, Fail, GoesOn, Throws
<1>7. CASE NoChild
  BY <1>7 DEF NoChild, Fail, Throws
<1>8. CASE LoopEnd
  BY <1>8 DEF LoopEnd, GoesOn
<1>9. CASE RunTarget
  BY <1>9 DEF RunTarget, Fail, GoesOn, Throws
<1>10. CASE RunEnd
  BY <1>10 DEF RunEnd, GoesOn
<1>11. CASE Missing
  BY <1>11 DEF Missing, NextChild, Fail, GoesOn, Throws
<1>12. CASE MissingEnd
  BY <1>12 DEF MissingEnd, GoesOn
<1>13. CASE StageValidation
  BY <1>13 DEF StageValidation, NextChild, Fail, GoesOn, Throws
<1>14. CASE Route
  BY <1>14 DEF Route, Finish, Fail, Throws, Returns
<1>15. CASE RouteLeaf
  BY <1>15 DEF RouteLeaf, Finish, Fail, Throws, Returns
<1>16. QED
  BY <1>1, <1>2, <1>3, <1>4, <1>5, <1>6, <1>7, <1>8, <1>9, <1>10, <1>11,
     <1>12, <1>13, <1>14, <1>15 DEF Step

\* A call has called no router before it ends.
LEMMA RunningHolds == Spec => []Running
<1>1. Init => Running
  BY DEF Init, Running
<1>2. Running /\ [Next]_vars => Running'
  <2> SUFFICES ASSUME Running, [Next]_vars PROVE Running'
    OBVIOUS
  <2>1. CASE Step
    BY <2>1, StepKinds DEF GoesOn, Throws, Returns, Running
  <2>2. ASSUME NEW words, Call(words) PROVE Running'
    BY <2>2 DEF Call, Running
  <2>3. CASE UNCHANGED vars
    BY <2>3 DEF vars, Running
  <2>4. QED
    BY <2>1, <2>2, <2>3 DEF Next
<1>3. QED
  BY <1>1, <1>2, PTL DEF Spec

\* A call of root_t::parse either calls one router, once and last, or throws
\* and calls none, for every parse tree and command line (root.hpp:147-180).
THEOREM OneEnding == Spec => ImplementsParseCall
<1>1. Init => Abstract!Init
  BY DEF Init, Abstract!Init
<1>2. Running /\ [Next]_vars => [Abstract!Next]_(Abstract!vars)
  <2> SUFFICES ASSUME Running, [Next]_vars PROVE [Abstract!Next]_(Abstract!vars)
    OBVIOUS
  <2>1. CASE Step
    <3>1. phase # "idle" /\ routed = <<>> /\ answer = "none"
      BY <2>1, StepKinds DEF Running
    <3>2. CASE GoesOn
      BY <3>1, <3>2 DEF GoesOn, Abstract!vars
    <3>3. CASE Throws
      BY <3>1, <3>3 DEF Throws, Abstract!Next, Abstract!Throw
    <3>4. CASE Returns
      <4>1. PICK r : routed' = Append(<<>>, r)
        BY <3>1, <3>4 DEF Returns
      <4>2. Len(routed') = 1
        BY <4>1
      <4>3. QED
        BY <3>1, <3>4, <4>2 DEF Returns, Abstract!Next, Abstract!Return
    <3>5. QED
      BY <2>1, <3>2, <3>3, <3>4, StepKinds
  <2>2. ASSUME NEW words, Call(words) PROVE Abstract!Call
    BY <2>2 DEF Call, Abstract!Call
  <2>3. CASE UNCHANGED vars
    BY <2>3 DEF vars, Abstract!vars
  <2>4. QED
    BY <2>1, <2>2, <2>3 DEF Next, Abstract!Next
<1>3. QED
  BY <1>1, <1>2, RunningHolds, PTL DEF Spec, ImplementsParseCall, Abstract!Spec
-----------------------------------------------------------------------------
\* Types

IdsOf(children) == {n.id : n \in ToSet(Nodes(children))}

Modes(nodes) == {n \in nodes : n.kind = "mode"}

Phases == {"idle", "root", "leaf", "submode", "loop", "run", "missing", "stages"}

\* The type invariant, strengthened to be inductive: all the tokens are words
\* or expanded flags, the targets are of the mode's nodes, and as long as
\* modes are entered nothing has matched.
Typing(nodes, A) ==
  /\ tree \in Trees
  /\ calls \in 0 .. MaxCalls
  /\ phase \in Phases
  /\ line \in Seq(tree.words)
  /\ i \in Nat \ {0}
  /\ path \in Seq(Modes(nodes))
  /\ args \in Seq(Words(A))
  /\ matched \subseteq DOMAIN Children
  /\ targets \in Seq(TargetsOf(A, IdsOf(Children)))
  /\ phase \in {"root", "submode"} => targets = <<>> /\ matched = {}
  /\ phase \in {"root", "leaf"} => path = <<>>
  /\ phase \in {"submode", "loop", "run", "missing", "stages"} => path # <<>>

LEMMA ChildrenTyped ==
  ASSUME NEW nodes, NEW A, TreesOf(nodes, A), Typing(nodes, A)
  PROVE  /\ Children \in Seq(nodes)
         /\ i <= Len(Children) => Child \in nodes /\ Child \in ToSet(Children)
<1>1. Children \in Seq(nodes)
  <2>1. CASE path = <<>>
    BY <2>1 DEF Children, TreesOf, Typing
  <2>2. CASE path # <<>>
    <3>1. Mode \in nodes
      BY <2>2 DEF Mode, Last, Typing, Modes
    <3> QED
      BY <2>2, <3>1 DEF Children, TreesOf
  <2> QED
    BY <2>1, <2>2
<1>2. ASSUME i <= Len(Children) PROVE i \in DOMAIN Children
  BY <1>1, <1>2 DEF Typing
<1> QED
  BY <1>1, <1>2 DEF Child, ToSet

\* A child's ids are ids of its siblings' trees.
LEMMA SettableAmong ==
  ASSUME NEW nodes, \A n \in nodes : n.children \in Seq(nodes), NEW children \in Seq(nodes),
         NEW node \in ToSet(Nodes(children))
  PROVE  Settable(node, children) \subseteq IdsOf(children)
  BY DEF Settable, IdsOf

LEMMA ChildAmongNodes ==
  ASSUME NEW nodes, \A n \in nodes : n.children \in Seq(nodes), NEW children \in Seq(nodes)
  PROVE  ToSet(children) \subseteq ToSet(Nodes(children)) /\ ToSet(Nodes(children)) \subseteq nodes
<1>1. /\ ToSet(Nodes(children))
           = UNION {{children[k]} \cup ToSet(children[k].children) : k \in DOMAIN children}
      /\ Nodes(children) \in Seq(nodes)
  BY NodesAre
<1>2. ToSet(Nodes(children)) \subseteq nodes
  BY <1>1 DEF ToSet
<1>3. ToSet(children) \subseteq ToSet(Nodes(children))
  <2> SUFFICES ASSUME NEW k \in DOMAIN children PROVE children[k] \in ToSet(Nodes(children))
    BY DEF ToSet
  <2> QED
    BY <1>1
<1> QED
  BY <1>2, <1>3

\* The words of a command line are tokens without a prefix.
LEMMA LineTyped ==
  ASSUME NEW A, NEW W, W \subseteq Seq(A), NEW words \in Lines(W)
  PROVE  words \in Seq(W) /\ [k \in DOMAIN words |-> Raw(words[k])] \in Seq(Words(A))
<1>1. PICK n \in 0 .. MaxWords : words \in [1 .. n -> W]
  BY DEF Lines
<1>2. n \in Nat /\ DOMAIN words = 1 .. n
  BY <1>1, MaxWordsAssumption
<1>3. \A k \in 1 .. n : Raw(words[k]) \in Words(A)
  BY <1>1 DEF Raw, Token, Words
<1>4. [k \in DOMAIN words |-> Raw(words[k])] \in [1 .. n -> Words(A)]
  BY <1>2, <1>3
<1> QED
  BY <1>1, <1>2, <1>4

\* A step within one mode keeps the types if what it assigns has them.
LEMMA TypingKept ==
  ASSUME NEW nodes, NEW A, Typing(nodes, A), UNCHANGED <<tree, calls, line, path>>,
         phase' \in Phases, i' \in Nat \ {0}, args' \in Seq(Words(A)),
         matched' \subseteq DOMAIN Children, targets' \in Seq(TargetsOf(A, IdsOf(Children))),
         phase' \in {"root", "submode"} => phase' = phase /\ UNCHANGED <<targets, matched>>,
         phase' = "leaf" => phase \in {"root", "leaf"},
         phase' \in {"loop", "run", "missing", "stages"} =>
           phase \in {"submode", "loop", "run", "missing", "stages"}
  PROVE  Typing(nodes, A)'
<1>1. Children' = Children
  BY DEF Children, Mode
<1> QED
  BY <1>1 DEF Typing

LEMMA TypingEnter ==
  ASSUME NEW nodes, NEW A, TreesOf(nodes, A), Typing(nodes, A),
         NEW mode \in Modes(nodes), NEW rest \in Seq(Words(A)), NEW next \in {"loop", "submode"},
         targets = <<>>, matched = {}, Enter(mode, rest, next)
  PROVE  Typing(nodes, A)'
<1>1. path' = Append(path, mode) /\ Append(path, mode) \in Seq(Modes(nodes)) /\ Append(path, mode) # <<>>
  BY DEF Enter, Typing
<1>2. args' = rest /\ phase' = next /\ i' = 1 /\ UNCHANGED <<tree, calls, line, matched, targets>>
  BY DEF Enter
<1>3. targets' \in Seq(TargetsOf(A, IdsOf(Children'))) /\ matched' \subseteq DOMAIN Children'
  BY <1>2
<1> QED
  BY <1>1, <1>2, <1>3 DEF Typing, Phases

LEMMA TypingStep ==
  ASSUME NEW nodes, NEW A, TreesOf(nodes, A)
  PROVE  Typing(nodes, A) /\ [Next]_vars => Typing(nodes, A)'
<1> SUFFICES ASSUME Typing(nodes, A), [Next]_vars PROVE Typing(nodes, A)'
  OBVIOUS
<1> DEFINE Inner == TargetsOf(A, IdsOf(Children))
<1>1. /\ Children \in Seq(nodes) /\ \A n \in nodes : n.children \in Seq(nodes) /\ Parameters(n)
      /\ i <= Len(Children) => Child \in nodes /\ Child \in ToSet(Children)
  BY ChildrenTyped DEF TreesOf, Parameters
<1>2. /\ phase \in Phases /\ i \in Nat \ {0} /\ i + 1 \in Nat \ {0} /\ 1 \in Nat \ {0}
      /\ args \in Seq(Words(A)) /\ matched \subseteq DOMAIN Children /\ targets \in Seq(Inner)
      /\ phase \in {"root", "submode"} => targets = <<>> /\ matched = {}
  BY DEF Typing
<1> HIDE DEF Inner
<1>3. ASSUME NextChild PROVE Typing(nodes, A)'
  BY <1>2, <1>3, TypingKept DEF NextChild, Inner
<1>4. ASSUME NEW code, Fail(code) PROVE Typing(nodes, A)'
  BY <1>2, <1>4, TypingKept DEF Fail, Phases, Inner
<1>5. ASSUME NEW children, NEW node \in nodes, NEW done, NEW verdict, children \in Seq(nodes)
      PROVE  WellTyped(A, node, children, PreParseLeaf(node, children, done, args, verdict))
  BY <1>1, <1>2, <1>5, LeafTyped
<1>6. CASE RootLeaf
  <2>1. i <= Len(Children) /\ phase = "root"
    BY <1>6 DEF RootLeaf
  <2>2. PICK o : /\ o = PreParseLeaf(Child, Children, {}, args, "accept")
                 /\ \/ o.kind = "none" /\ NextChild
                    \/ o.kind = "error" /\ Fail(o.code)
                    \/ o.kind = "match" /\ o.args # <<>> /\ Fail("unhandled_arguments")
                    \/ /\ o.kind = "match" /\ o.args = <<>>
                       /\ phase' = "leaf"
                       /\ args' = o.args
                       /\ targets' = o.targets
                       /\ UNCHANGED <<tree, calls, line, i, path, matched>>
    BY <1>6 DEF RootLeaf
  <2>3. CASE o.kind = "match" /\ args' = o.args /\ targets' = o.targets /\ phase' = "leaf"
             /\ UNCHANGED <<tree, calls, line, i, path, matched>>
    <3>1. WellTyped(A, Child, Children, o)
      BY <1>1, <1>5, <2>1, <2>2
    <3>2. Child \in ToSet(Nodes(Children))
      BY <1>1, <2>1, ChildAmongNodes
    <3>3. Settable(Child, Children) \subseteq IdsOf(Children)
      BY <1>1, <3>2, SettableAmong
    <3>4. o.args \in Seq(Words(A)) /\ o.targets \in Seq(TargetsOf(A, Settable(Child, Children)))
      BY <2>3, <3>1 DEF WellTyped
    <3>5. TargetsOf(A, Settable(Child, Children)) \subseteq Inner
      BY <3>3 DEF TargetsOf, Inner
    <3>6. o.targets \in Seq(Inner)
      BY <3>4, <3>5
    <3> QED
      BY <1>2, <2>1, <2>2, <2>3, <3>4, <3>6, TypingKept DEF Phases, Inner
  <2> QED
    BY <1>3, <1>4, <2>2, <2>3
<1>7. ASSUME NEW o, o = PreParseLeaf(Child, <<>>, {}, args, "accept"), o.kind = "match",
             Enter(Child, o.args, "submode"), Child.kind = "mode", i <= Len(Children),
             phase \in {"root", "submode"}
      PROVE  Typing(nodes, A)'
  <2>1. Child \in Modes(nodes)
    BY <1>1, <1>7 DEF Modes
  <2>2. <<>> \in Seq(nodes)
    OBVIOUS
  <2>3. WellTyped(A, Child, <<>>, o)
    BY <1>1, <1>5, <1>7, <2>2
  <2>4. o.args \in Seq(Words(A))
    BY <1>7, <2>3 DEF WellTyped
  <2> QED
    BY <1>2, <1>7, <2>1, <2>4, TypingEnter
<1>8. CASE RootMode
  <2>1. i <= Len(Children) /\ Child.kind = "mode" /\ phase = "root"
    BY <1>8 DEF RootMode
  <2>2. CASE Enter(Child, args, "loop")
    <3>1. Child \in Modes(nodes)
      BY <1>1, <2>1 DEF Modes
    <3> QED
      BY <1>2, <2>1, <2>2, <3>1, TypingEnter
  <2> QED
    BY <1>3, <1>7, <1>8, <2>1, <2>2 DEF RootMode
<1>9. CASE SubMode
  BY <1>3, <1>7, <1>9 DEF SubMode
<1>10. CASE RootUnknown \/ NoChild
  BY <1>4, <1>10 DEF RootUnknown, NoChild
<1>11. CASE NoSubMode \/ LoopEnd \/ RunEnd \/ MissingEnd
  BY <1>2, <1>11, TypingKept DEF NoSubMode, LoopEnd, RunEnd, MissingEnd, Phases, Inner
<1>12. CASE TryChild
  <2>1. i <= Len(Children) /\ phase = "loop"
    BY <1>12 DEF TryChild
  <2>2. CASE Child.kind = "mode"
    BY <1>3, <1>12, <2>2 DEF TryChild
  <2>3. CASE Child.kind # "mode"
    <3>1. PICK r : /\ r = PreParse(Child, Children, Done, args, Selected(Child.id), i \in matched)
                   /\ \/ r.o.kind = "none" /\ NextChild
                      \/ r.o.kind = "error" /\ Fail(r.o.code)
                      \/ /\ r.o.kind = "match"
                         /\ args' = Taken(r.o)
                         /\ targets' = targets \o r.o.targets
                         /\ matched' = matched \cup {i}
                         /\ i' = 1
                         /\ UNCHANGED <<tree, calls, line, phase, path>>
      BY <1>12, <2>3 DEF TryChild
    <3>3. CASE NextChild
      BY <1>2, <3>3, TypingKept DEF NextChild, Inner
    <3>4. CASE r.o.kind = "match" /\ args' = Taken(r.o) /\ targets' = targets \o r.o.targets
               /\ matched' = matched \cup {i} /\ i' = 1
               /\ UNCHANGED <<tree, calls, line, phase, path>>
      <4>1. PICK n \in ToSet(Nodes(Children)) : WellTyped(A, n, Children, r.o)
        BY <1>1, <1>2, <2>1, <3>1, PreParseTyped
      <4>2. Settable(n, Children) \subseteq IdsOf(Children)
        BY <1>1, <4>1, SettableAmong
      <4>3. r.o.args \in Seq(Words(A)) /\ r.o.targets \in Seq(TargetsOf(A, Settable(n, Children)))
        BY <3>4, <4>1 DEF WellTyped
      <4>4. TargetsOf(A, Settable(n, Children)) \subseteq Inner
        BY <4>2 DEF TargetsOf, Inner
      <4>5. r.o.targets \in Seq(Inner)
        BY <4>3, <4>4
      <4>6. targets \o r.o.targets \in Seq(Inner)
        BY <1>2, <4>5
      <4>7. i \in DOMAIN Children
        BY <1>1, <1>2, <2>1
      <4> QED
        BY <1>2, <2>1, <3>4, <4>3, <4>6, <4>7, TypingKept DEF Taken, Inner
    <3> QED
      BY <1>4, <3>1, <3>3, <3>4
  <2> QED
    BY <2>2, <2>3
<1>13. ASSUME UNCHANGED <<tree, calls, line, path, phase, args, matched, targets>>, i' = i + 1
       PROVE  Typing(nodes, A)'
  BY <1>2, <1>13, TypingKept DEF Inner
<1>14. CASE RunTarget
  BY <1>4, <1>13, <1>14 DEF RunTarget
<1>15. CASE Missing
  BY <1>3, <1>4, <1>13, <1>15 DEF Missing
<1>16. CASE StageValidation
  BY <1>3, <1>4, <1>16 DEF StageValidation
<1>17. CASE Route \/ RouteLeaf
  <2>1. CASE Finish
    BY <1>2, <2>1, TypingKept DEF Finish, Phases, Inner
  <2> QED
    BY <1>4, <1>17, <2>1 DEF Route, RouteLeaf
<1>18. ASSUME NEW words \in Lines(tree.words), Call(words) PROVE Typing(nodes, A)'
  <2>1. tree \in Trees /\ tree.words \subseteq Seq(A) /\ calls \in 0 .. MaxCalls
    BY DEF Typing, TreesOf
  <2>2. words \in Seq(tree.words) /\ [k \in DOMAIN words |-> Raw(words[k])] \in Seq(Words(A))
    BY <2>1, LineTyped
  <2>3. calls + 1 \in 0 .. MaxCalls
    <3>1. calls < MaxCalls
      BY <1>18 DEF Call
    <3> QED
      BY <2>1, <3>1, MaxCallsAssumption
  <2>4. /\ tree' = tree /\ calls' = calls + 1 /\ line' = words
        /\ args' = [k \in DOMAIN words |-> Raw(words[k])] /\ phase' = "root" /\ i' = 1
        /\ path' = <<>> /\ matched' = {} /\ targets' = <<>>
    BY <1>18 DEF Call
  <2> QED
    BY <2>1, <2>2, <2>3, <2>4 DEF Typing, Phases
<1>19. CASE UNCHANGED vars
  BY <1>2, <1>19, TypingKept DEF vars, Inner
<1> QED
  BY <1>6, <1>8, <1>9, <1>10, <1>11, <1>12, <1>14, <1>15, <1>16, <1>17, <1>18, <1>19 DEF Next, Step

LEMMA TypingHolds ==
  ASSUME NEW nodes, NEW A, TreesOf(nodes, A)
  PROVE  Spec => []Typing(nodes, A)
<1>1. Init => Typing(nodes, A)
  <2> SUFFICES ASSUME Init PROVE Typing(nodes, A)
    OBVIOUS
  <2>1. /\ tree \in Trees /\ calls = 0 /\ line = <<>> /\ phase = "idle" /\ args = <<>> /\ i = 1
        /\ path = <<>> /\ matched = {} /\ targets = <<>>
    BY DEF Init
  <2>2. 0 \in 0 .. MaxCalls
    BY MaxCallsAssumption
  <2> QED
    BY <2>1, <2>2 DEF Typing, Phases
<1>2. Typing(nodes, A) /\ [Next]_vars => Typing(nodes, A)'
  BY TypingStep
<1> QED
  BY <1>1, <1>2, PTL DEF Spec

\* The parser's state is well-typed, for all trees, command lines and numbers
\* of calls: no token it works on has lost its prefix, and a target is one of
\* a node of the mode that was entered.
THEOREM TypeCorrect ==
  ASSUME NEW nodes, NEW A, TreesOf(nodes, A)
  PROVE  Spec => []TypeOK
<1>1. Typing(nodes, A) => TypeOK
  <2> SUFFICES ASSUME Typing(nodes, A) PROVE TypeOK
    OBVIOUS
  <2>1. \A k \in DOMAIN path : path[k].kind = "mode"
    BY DEF Typing, Modes
  <2>2. \A k \in DOMAIN args : args[k].pre \in {"none", "short"}
    <3>1. \A k \in DOMAIN args : args[k] \in Words(A)
      BY DEF Typing
    <3> QED
      BY <3>1 DEF Words
  <2>3. Done \subseteq IdsOf(Children)
    <3>1. \A k \in DOMAIN targets : targets[k] \in TargetsOf(A, IdsOf(Children))
      BY DEF Typing
    <3> QED
      BY <3>1 DEF Done, TargetsOf
  <2> QED
    BY <2>1, <2>2, <2>3 DEF Typing, TypeOK, Phases, IdsOf
<1> QED
  BY <1>1, TypingHolds, PTL
-----------------------------------------------------------------------------
\* Whose target it is

LEMMA ChildrenAreSiblings ==
  ASSUME NEW nodes, NEW A, Typing(nodes, A)
  PROVE  Children \in Siblings(nodes)
<1>1. CASE path = <<>>
  BY <1>1 DEF Children, Siblings, Typing
<1>2. CASE path # <<>>
  <2>1. Mode \in nodes
    BY <1>2 DEF Mode, Last, Typing, Modes
  <2> QED
    BY <1>2, <2>1 DEF Children, Siblings
<1> QED
  BY <1>1, <1>2

\* The nodes of one child
LEMMA NodesOfOne ==
  ASSUME NEW nodes, \A n \in nodes : n.children \in Seq(nodes), NEW node \in nodes
  PROVE  ToSet(Nodes(<<node>>)) = {node} \cup ToSet(node.children)
<1>1. <<node>> \in Seq(nodes) /\ DOMAIN <<node>> = {1} /\ <<node>>[1] = node
  OBVIOUS
<1>2. ToSet(Nodes(<<node>>))
        = UNION {{<<node>>[k]} \cup ToSet(<<node>>[k].children) : k \in DOMAIN <<node>>}
  BY <1>1, NodesAre
<1> QED
  BY <1>1, <1>2

\* An id of a mode's nodes is one of a node of the child that owns it.
LEMMA OwnedBy ==
  ASSUME NEW nodes, NEW A, TreesOf(nodes, A), Typing(nodes, A), NEW id \in IdsOf(Children)
  PROVE  /\ Owner(id) \in DOMAIN Children
         /\ \E n \in ToSet(Nodes(<<Children[Owner(id)]>>)) : n.id = id
<1>1. Children \in Seq(nodes) /\ \A n \in nodes : n.children \in Seq(nodes)
  BY ChildrenTyped DEF TreesOf
<1>2. /\ ToSet(Nodes(Children))
           = UNION {{Children[k]} \cup ToSet(Children[k].children) : k \in DOMAIN Children}
      /\ \A k \in DOMAIN Children : ToSet(Nodes(<<Children[k]>>))
                                      = {Children[k]} \cup ToSet(Children[k].children)
  BY <1>1, NodesAre, NodesOfOne
<1> DEFINE Within(k) == {m.id : m \in ToSet(Nodes(<<Children[k]>>))}
<1>3. \E k \in DOMAIN Children : id \in Within(k)
  BY <1>2 DEF IdsOf
<1>4. Owner(id) \in DOMAIN Children /\ id \in Within(Owner(id))
  <2>1. Owner(id) = CHOOSE k \in DOMAIN Children : id \in Within(k)
    BY DEF Owner
  <2> HIDE DEF Within
  <2> QED
    BY <1>3, <2>1
<1> QED
  BY <1>4

\* The node of a target is in the subtree of the child that owns it.
LEMMA Ownership ==
  ASSUME NEW nodes, NEW A, TreesOf(nodes, A), DistinctIds(nodes), Typing(nodes, A),
         NEW j \in DOMAIN targets
  PROVE  LET id == targets[j].node
         IN  /\ Owner(id) \in DOMAIN Children
             /\ Children[Owner(id)] \in nodes
             /\ NodeOf(id) \in ToSet(Nodes(<<Children[Owner(id)]>>))
             /\ NodeOf(id).id = id /\ id # Unset.by
<1> DEFINE id == targets[j].node
<1>1. Children \in Seq(nodes) /\ \A n \in nodes : n.children \in Seq(nodes)
  BY ChildrenTyped DEF TreesOf
<1>2. /\ ToSet(Nodes(Children))
           = UNION {{Children[k]} \cup ToSet(Children[k].children) : k \in DOMAIN Children}
      /\ \A k \in DOMAIN Children : /\ Children[k] \in nodes
                                    /\ ToSet(Nodes(<<Children[k]>>))
                                         = {Children[k]} \cup ToSet(Children[k].children)
  BY <1>1, NodesAre, NodesOfOne
<1>3. id \in IdsOf(Children)
  <2>1. targets[j] \in TargetsOf(A, IdsOf(Children))
    BY DEF Typing
  <2> QED
    BY <2>1 DEF TargetsOf
<1>4. PICK n \in ToSet(Nodes(Children)) : n.id = id
  BY <1>3 DEF IdsOf
<1>5. NodeOf(id) \in ToSet(Nodes(Children)) /\ NodeOf(id).id = id
  BY <1>4 DEF NodeOf
<1>7. /\ Owner(id) \in DOMAIN Children
      /\ \E m \in ToSet(Nodes(<<Children[Owner(id)]>>)) : m.id = id
  BY <1>3, OwnedBy
<1>8. PICK m \in ToSet(Nodes(<<Children[Owner(id)]>>)) : m.id = id
  BY <1>7
<1>9. m \in ToSet(Nodes(Children))
  BY <1>2, <1>7, <1>8
<1>10. NodeOf(id) = m /\ id # Unset.by
  <2>1. \A a, b \in ToSet(Nodes(Children)) : b.id # Unset.by /\ (a.id = b.id => a = b)
    BY ChildrenAreSiblings DEF DistinctIds
  <2> QED
    BY <1>5, <1>8, <1>9, <2>1
<1> QED
  BY <1>2, <1>5, <1>7, <1>8, <1>10
-----------------------------------------------------------------------------
\* The modes and targets of a call that is past its words
Parsing == phase \in {"run", "missing", "stages"} \/ (answer = "routed" /\ path # <<>>)

\* The targets that have been parsed
Behind == IF phase = "run" THEN i - 1 ELSE Len(targets)

Multi(k) == \E n \in ToSet(Nodes(<<Children[k]>>)) : n.multi_stage

OwnerOf(j) == Owner(targets[j].node)

Valued(k) == HasResult(Children[k])

\* A child with a value and two parsed targets is multi-stage; to be inductive, it
\* has its value once one of its targets is parsed.
SetSoFar ==
  Parsing => /\ DOMAIN results = DOMAIN Children
             /\ Behind \in 0 .. Len(targets)
             /\ phase = "run" => \A j \in 1 .. Behind : Valued(OwnerOf(j)) => results[OwnerOf(j)] # Unset
             /\ \A j, k \in 1 .. Behind :
                  j # k /\ OwnerOf(j) = OwnerOf(k) /\ Valued(OwnerOf(j)) => Multi(OwnerOf(j))

\* What a step can do to a call: it does not parse afterwards, or it begins to,
\* or the call parses and goes on.
LEMMA StepsOfParsing ==
  ASSUME NEW nodes, NEW A, Typing(nodes, A), Running, [Next]_vars
  PROVE  \/ ~Parsing'
         \/ UNCHANGED vars
         \/ LoopEnd
         \/ Parsing /\ (RunTarget \/ RunEnd \/ Missing \/ MissingEnd \/ StageValidation \/ Route)
<1>1. /\ phase # "idle" => answer = "none"
      /\ phase = "leaf" => path = <<>>
  BY DEF Running, Typing
<1>2. ASSUME NEW code, Fail(code) PROVE ~Parsing'
  BY <1>2 DEF Fail, Parsing
<1>3. ASSUME NEW mode, NEW rest, NEW next \in {"loop", "submode"}, phase # "idle", Enter(mode, rest, next)
      PROVE  ~Parsing'
  BY <1>1, <1>3 DEF Enter, Parsing
<1>4. ASSUME NextChild, phase \in {"root", "submode", "loop"} PROVE ~Parsing'
  BY <1>1, <1>4 DEF NextChild, Parsing
<1>5. CASE RootLeaf
  <2>1. ASSUME phase = "root", phase' = "leaf", UNCHANGED answer PROVE ~Parsing'
    BY <1>1, <2>1 DEF Parsing
  <2> QED
    BY <1>2, <1>4, <1>5, <2>1 DEF RootLeaf
<1>6. CASE RootMode
  BY <1>3, <1>4, <1>6 DEF RootMode
<1>7. CASE SubMode
  BY <1>3, <1>4, <1>7 DEF SubMode
<1>8. CASE RootUnknown \/ NoChild
  BY <1>2, <1>8 DEF RootUnknown, NoChild
<1>9. CASE NoSubMode
  BY <1>1, <1>9 DEF NoSubMode, Parsing
<1>10. CASE TryChild
  <2>1. ASSUME phase = "loop", UNCHANGED <<phase, answer>> PROVE ~Parsing'
    BY <1>1, <2>1 DEF Parsing
  <2> QED
    BY <1>2, <1>4, <1>10, <2>1 DEF TryChild
<1>11. CASE RouteLeaf
  <2>1. ASSUME Finish, phase = "leaf" PROVE ~Parsing'
    BY <1>1, <2>1 DEF Finish, Parsing
  <2> QED
    BY <1>2, <1>11, <2>1 DEF RouteLeaf
<1>12. ASSUME NEW words, Call(words) PROVE ~Parsing'
  BY <1>12 DEF Call, Parsing
<1>13. CASE RunTarget \/ RunEnd \/ Missing \/ MissingEnd \/ StageValidation \/ Route
  <2>1. Parsing
    BY <1>13 DEF RunTarget, RunEnd, Missing, MissingEnd, StageValidation, Route, Parsing
  <2> QED
    BY <1>13, <2>1
<1> QED
  BY <1>5, <1>6, <1>7, <1>8, <1>9, <1>10, <1>11, <1>12, <1>13 DEF Next, Step

\* Within a mode, whose child a target is does not change.
LEMMA SameOwners ==
  ASSUME UNCHANGED <<tree, path, targets>>
  PROVE  /\ Children' = Children
         /\ \A j : OwnerOf(j)' = OwnerOf(j)
         /\ \A k : Multi(k)' = Multi(k) /\ Valued(k)' = Valued(k)
<1>1. Children' = Children
  BY DEF Children, Mode
<1>2. \A id : Owner(id)' = Owner(id)
  BY <1>1 DEF Owner
<1> QED
  BY <1>1, <1>2 DEF OwnerOf, Multi, Valued, HasResult

LEMMA FailStops == ASSUME NEW code, Fail(code) PROVE ~Parsing'
  BY DEF Fail, Parsing

\* What RunTarget does when it does not fail
LEMMA TargetParsed ==
  ASSUME NEW nodes, NEW A, TreesOf(nodes, A), DistinctIds(nodes), Typing(nodes, A),
         RunTarget, Parsing'
  PROVE  LET node == NodeOf(targets[i].node)
             new  == Merged(node, results[OwnerOf(i)], Parsed(node, targets[i]))
         IN  /\ i \in 1 .. Len(targets) /\ phase = "run" /\ phase' = "run" /\ i' = i + 1
             /\ ParseError(node, targets[i]) = ""
             /\ node.multi_stage \/ results[OwnerOf(i)] = Unset
             /\ new # Unset
             /\ results' = IF Valued(OwnerOf(i)) THEN [results EXCEPT ![OwnerOf(i)] = new] ELSE results
             /\ UNCHANGED <<tree, path, targets>>
<1> DEFINE node == NodeOf(targets[i].node)
           k    == OwnerOf(i)
           new  == Merged(node, results[k], Parsed(node, targets[i]))
<1>1. i \in 1 .. Len(targets) /\ i \in DOMAIN targets /\ phase = "run"
  <2>1. i <= Len(targets) /\ phase = "run"
    BY DEF RunTarget
  <2>2. i \in Nat \ {0} /\ Len(targets) \in Nat /\ DOMAIN targets = 1 .. Len(targets)
    BY DEF Typing
  <2> QED
    BY <2>1, <2>2
<1>2. /\ ParseError(node, targets[i]) = "" /\ ~Collides(node, results[k])
      /\ results' = Stored(k, new)
      /\ i' = i + 1 /\ UNCHANGED <<tree, path, targets, phase>>
  BY FailStops DEF RunTarget, OwnerOf
<1>3. node.id # Unset.by
  BY <1>1, Ownership
<1>4. new # Unset
  BY <1>3 DEF Merged, Parsed, Value, Unset
<1> QED
  BY <1>1, <1>2, <1>4 DEF Collides, Stored, Valued

LEMMA SetSoFarStep ==
  ASSUME NEW nodes, NEW A, TreesOf(nodes, A), DistinctIds(nodes)
  PROVE  Typing(nodes, A) /\ Running /\ SetSoFar /\ [Next]_vars => SetSoFar'
<1> SUFFICES ASSUME Typing(nodes, A), Running, SetSoFar, [Next]_vars, Parsing' PROVE SetSoFar'
  BY DEF SetSoFar
<1>1. Len(targets) \in Nat /\ DOMAIN targets = 1 .. Len(targets) /\ i \in Nat \ {0}
  BY DEF Typing
<1>2. CASE UNCHANGED vars
  BY <1>2, SameOwners DEF vars, SetSoFar, Parsing, Behind
<1>3. CASE LoopEnd
  <2>1. /\ phase' = "run" /\ i' = 1 /\ results' = [k \in DOMAIN Children |-> Unset]
        /\ UNCHANGED <<tree, path, targets>>
    BY <1>3 DEF LoopEnd
  <2>2. Behind' = 0 /\ DOMAIN results' = DOMAIN Children'
    BY <2>1, SameOwners DEF Behind
  <2> QED
    BY <1>1, <2>1, <2>2 DEF SetSoFar
<1>4. CASE Parsing /\ RunTarget
  <2> DEFINE node == NodeOf(targets[i].node)
             new  == Merged(node, results[OwnerOf(i)], Parsed(node, targets[i]))
  <2>1. /\ i \in 1 .. Len(targets) /\ phase = "run" /\ phase' = "run" /\ i' = i + 1
        /\ node.multi_stage \/ results[OwnerOf(i)] = Unset
        /\ new # Unset
        /\ results' = IF Valued(OwnerOf(i)) THEN [results EXCEPT ![OwnerOf(i)] = new] ELSE results
        /\ UNCHANGED <<tree, path, targets>>
    BY <1>4, TargetParsed
  <2> HIDE DEF new
  <2>2. Behind = i - 1 /\ Behind' = i
    BY <1>1, <2>1 DEF Behind
  <2>3. /\ DOMAIN results = DOMAIN Children
        /\ \A j \in 1 .. i - 1 : Valued(OwnerOf(j)) => results[OwnerOf(j)] # Unset
        /\ \A j, k \in 1 .. i - 1 :
             j # k /\ OwnerOf(j) = OwnerOf(k) /\ Valued(OwnerOf(j)) => Multi(OwnerOf(j))
    BY <1>4, <2>1, <2>2 DEF SetSoFar
  <2>4. OwnerOf(i) \in DOMAIN Children /\ node \in ToSet(Nodes(<<Children[OwnerOf(i)]>>))
    BY <1>1, <2>1, Ownership DEF OwnerOf
  <2>5. Multi(OwnerOf(i)) \/ results[OwnerOf(i)] = Unset
    BY <2>1, <2>4 DEF Multi
  <2> HIDE DEF node
  <2>6. \A j \in 1 .. i : Valued(OwnerOf(j)) => results'[OwnerOf(j)] # Unset
    <3> SUFFICES ASSUME NEW j \in 1 .. i, Valued(OwnerOf(j)) PROVE results'[OwnerOf(j)] # Unset
      OBVIOUS
    <3>1. CASE OwnerOf(j) = OwnerOf(i)
      BY <2>1, <2>3, <2>4, <3>1
    <3>2. CASE OwnerOf(j) # OwnerOf(i)
      <4>1. j \in 1 .. i - 1
        BY <1>1, <3>2
      <4> QED
        BY <2>1, <2>3, <3>2, <4>1
    <3> QED
      BY <3>1, <3>2
  <2>7. \A j, k \in 1 .. i : j # k /\ OwnerOf(j) = OwnerOf(k) /\ Valued(OwnerOf(j)) => Multi(OwnerOf(j))
    <3> SUFFICES ASSUME NEW j \in 1 .. i, NEW k \in 1 .. i, j # k, OwnerOf(j) = OwnerOf(k),
                        Valued(OwnerOf(j))
                 PROVE  Multi(OwnerOf(j))
      OBVIOUS
    <3>1. CASE j # i /\ k # i
      <4>1. j \in 1 .. i - 1 /\ k \in 1 .. i - 1
        BY <1>1, <3>1
      <4> QED
        BY <2>3, <4>1
    <3>2. CASE j = i \/ k = i
      <4>1. PICK m \in {j, k} : m \in 1 .. i - 1 /\ OwnerOf(m) = OwnerOf(i)
        BY <1>1, <3>2
      <4> QED
        BY <2>3, <2>5, <3>2, <4>1
    <3> QED
      BY <3>1, <3>2
  <2>8. DOMAIN results' = DOMAIN Children'
    BY <2>1, <2>3, SameOwners
  <2>9. /\ \A j : OwnerOf(j)' = OwnerOf(j)
        /\ \A k : Multi(k)' = Multi(k) /\ Valued(k)' = Valued(k)
    BY <2>1, SameOwners
  <2> QED
    BY <1>1, <2>1, <2>2, <2>6, <2>7, <2>8, <2>9 DEF SetSoFar
<1>5. ASSUME Parsing, UNCHANGED <<tree, path, targets>>, DOMAIN results' = DOMAIN results,
             phase' # "run", Behind = Len(targets)
      PROVE  SetSoFar'
  <2>1. Behind' = Len(targets) /\ Behind = Behind'
    BY <1>5 DEF Behind
  <2> QED
    BY <1>5, <2>1, SameOwners DEF SetSoFar
<1>6. CASE Parsing /\ RunEnd
  <2>1. phase = "run" /\ i > Len(targets) /\ phase' = "missing" /\ UNCHANGED <<tree, path, targets, results>>
    BY <1>6 DEF RunEnd
  <2>2. Behind = i - 1 /\ Behind \in 0 .. Len(targets)
    BY <1>6, <2>1 DEF SetSoFar, Behind
  <2>3. Behind = Len(targets)
    BY <1>1, <2>1, <2>2
  <2> QED
    BY <1>5, <1>6, <2>1, <2>3
<1>7. CASE Parsing /\ (Missing \/ MissingEnd \/ StageValidation \/ Route)
  <2>1. phase # "run" /\ phase' # "run" /\ UNCHANGED <<tree, path, targets>>
    BY <1>7 DEF Missing, MissingEnd, StageValidation, Route, NextChild, Fail, Finish
  <2>2. DOMAIN results' = DOMAIN results
    BY <1>7 DEF Missing, MissingEnd, StageValidation, Route, NextChild, Fail, Finish
  <2> QED
    BY <1>5, <1>7, <2>1, <2>2 DEF Behind
<1> QED
  BY <1>2, <1>3, <1>4, <1>6, <1>7, StepsOfParsing

\* A word sets a node that is not multi-stage at most once: a router is called
\* only if every child with several targets merges them (mode.hpp:340-416).
THEOREM NodesAreSetOnce ==
  ASSUME NEW nodes, NEW A, TreesOf(nodes, A), DistinctIds(nodes)
  PROVE  Spec => []SetOnce
<1>1. Init => SetSoFar
  BY DEF Init, SetSoFar, Parsing
<1>2. Typing(nodes, A) /\ Running /\ SetSoFar /\ [Next]_vars => SetSoFar'
  BY SetSoFarStep
<1>3. Typing(nodes, A) /\ Running /\ SetSoFar => SetOnce
  <2> SUFFICES ASSUME Typing(nodes, A), Running, SetSoFar, answer = "routed", path # <<>>,
                      NEW k \in DOMAIN results, Valued(k),
                      Cardinality({j \in DOMAIN targets : Owner(targets[j].node) = k}) > 1
               PROVE  \E n \in ToSet(Nodes(<<Children[k]>>)) : n.multi_stage
    BY DEF SetOnce, Valued
  <2> DEFINE own == {j \in DOMAIN targets : Owner(targets[j].node) = k}
  <2>1. phase = "idle" /\ Behind = Len(targets) /\ DOMAIN targets = 1 .. Len(targets)
    BY DEF Running, Typing, Behind
  <2>2. \E j, m \in own : j # m
    <3>1. SUFFICES ASSUME \A j, m \in own : j = m PROVE FALSE
      OBVIOUS
    <3>2. own = {} \/ \E j : own = {j}
      BY <3>1
    <3>3. Cardinality(own) = 0 \/ Cardinality(own) = 1
      <4> HIDE DEF own
      <4> QED
        BY <3>2, FS_EmptySet, FS_Singleton
    <3> QED
      BY <3>3
  <2>3. PICK j, m \in 1 .. Behind : j # m /\ OwnerOf(j) = k /\ OwnerOf(m) = k
    BY <2>1, <2>2 DEF OwnerOf
  <2>4. Multi(k)
    BY <2>3 DEF SetSoFar, Parsing
  <2> QED
    BY <2>4 DEF Multi
<1> QED
  BY <1>1, <1>2, <1>3, TypingHolds, RunningHolds, PTL DEF Spec
-----------------------------------------------------------------------------
\* The values that reach a router

WithinLimits(k) == results[k].list \notin Children[k].low \cup Children[k].high

\* A child's value is within the limits, or its validation is still to come:
\* that of a value of the command line for a staged child, of a default while
\* the missing values are filled in.
RangeSoFar ==
  Parsing =>
    /\ DOMAIN results = DOMAIN Children
    /\ \A k \in DOMAIN Children :
         \/ ~Valued(k)
         \/ WithinLimits(k)
         \/ phase = "run" /\ (results[k] = Unset \/ Staged(Children[k]))
         \/ phase = "missing" /\ (Staged(Children[k]) \/ (k >= i /\ results[k] = Unset))
         \/ phase = "stages" /\ k >= i /\ Staged(Children[k])

LEMMA Validated ==
  ASSUME NEW node, NEW list, Validation(node, list) = ""
  PROVE  list \notin node.low \cup node.high
  BY DEF Validation

LEMMA RangeSoFarStep ==
  ASSUME NEW nodes, NEW A, TreesOf(nodes, A), DistinctIds(nodes), LimitsAreChecked(nodes)
  PROVE  Typing(nodes, A) /\ Running /\ RangeSoFar /\ [Next]_vars => RangeSoFar'
<1> SUFFICES ASSUME Typing(nodes, A), Running, RangeSoFar, [Next]_vars, Parsing' PROVE RangeSoFar'
  BY DEF RangeSoFar
<1>1. /\ i \in Nat \ {0}
      /\ Children \in Seq(nodes) /\ Len(Children) \in Nat /\ DOMAIN Children = 1 .. Len(Children)
      /\ \A k \in DOMAIN Children : Children[k] \in nodes
      /\ \A n \in nodes : n.children \in Seq(nodes)
      /\ DOMAIN targets = 1 .. Len(targets)
  <2>1. Children \in Seq(nodes) /\ \A n \in nodes : n.children \in Seq(nodes)
    BY ChildrenTyped DEF TreesOf
  <2>2. i \in Nat \ {0} /\ DOMAIN targets = 1 .. Len(targets)
    BY DEF Typing
  <2> QED
    BY <2>1, <2>2
<1>2. ASSUME UNCHANGED <<tree, path>>
      PROVE  /\ Children' = Children
             /\ \A k : Valued(k)' = Valued(k)
             /\ \A k : results'[k] = results[k] => WithinLimits(k)' = WithinLimits(k)
             /\ \A k : WithinLimits(k)' <=> results'[k].list \notin Children[k].low \cup Children[k].high
  BY <1>2 DEF Children, Mode, WithinLimits, Valued, HasResult
<1>3. CASE UNCHANGED vars
  BY <1>2, <1>3 DEF vars, RangeSoFar, Parsing
<1>4. CASE LoopEnd
  <2>1. /\ phase' = "run" /\ results' = [k \in DOMAIN Children |-> Unset] /\ UNCHANGED <<tree, path>>
    BY <1>4 DEF LoopEnd
  <2> QED
    BY <1>2, <2>1 DEF RangeSoFar
<1>5. ASSUME Parsing, phase = "run"
      PROVE  /\ DOMAIN results = DOMAIN Children
             /\ \A k \in DOMAIN Children : \/ ~Valued(k) \/ WithinLimits(k)
                                           \/ results[k] = Unset \/ Staged(Children[k])
  BY <1>5 DEF RangeSoFar
<1>6. CASE Parsing /\ RunTarget
  <2> DEFINE node == NodeOf(targets[i].node)
             own  == OwnerOf(i)
             new  == Merged(node, results[own], Parsed(node, targets[i]))
  <2>1. /\ i \in 1 .. Len(targets) /\ phase = "run" /\ phase' = "run"
        /\ ParseError(node, targets[i]) = ""
        /\ results' = IF Valued(own) THEN [results EXCEPT ![own] = new] ELSE results
        /\ UNCHANGED <<tree, path>>
    BY <1>6, TargetParsed
  <2>2. own \in DOMAIN Children /\ node \in ToSet(Nodes(<<Children[own]>>))
    <3>1. i \in DOMAIN targets
      BY <1>1, <2>1
    <3> QED
      BY <3>1, Ownership DEF OwnerOf
  <2>3. ~Valued(own) \/ Staged(Children[own])
        \/ new.list \notin Children[own].low \cup Children[own].high
    <3> SUFFICES ASSUME Valued(own), ~Staged(Children[own]),
                        Children[own].low \cup Children[own].high # {}
                 PROVE  new.list \notin Children[own].low \cup Children[own].high
      OBVIOUS
    <3>1. Children[own].kind = "leaf" /\ Children[own].children = <<>>
      BY <1>1, <2>2 DEF LimitsAreChecked
    <3>2. node = Children[own]
      <4>1. ToSet(Nodes(<<Children[own]>>)) = {Children[own]} \cup ToSet(Children[own].children)
        BY <1>1, <2>2, NodesOfOne
      <4>2. ToSet(Children[own].children) = {}
        BY <3>1 DEF ToSet
      <4> QED
        BY <2>2, <4>1, <4>2
    <3>3. ~node.multi_stage
      BY <3>2 DEF Staged, Valued
    <3> HIDE DEF node
    <3>4. new = Parsed(node, targets[i])
      BY <3>3 DEF Merged
    <3>5. Validation(node, Parsed(node, targets[i]).list) = ""
      BY <2>1, <3>1, <3>2 DEF ParseError
    <3> QED
      BY <3>2, <3>4, <3>5, Validated
  <2> HIDE DEF new, own
  <2>4. DOMAIN results' = DOMAIN Children /\ (Valued(own) => results'[own] = new)
        /\ \A k \in DOMAIN Children \ {own} : results'[k] = results[k]
    BY <1>5, <1>6, <2>1, <2>2
  <2>5. ASSUME NEW k \in DOMAIN Children
        PROVE  ~Valued(k) \/ WithinLimits(k)' \/ results'[k] = Unset \/ Staged(Children[k])
    <3>1. CASE k = own
      BY <1>2, <2>1, <2>3, <2>4, <3>1
    <3>2. CASE k # own
      BY <1>2, <1>5, <1>6, <2>1, <2>4, <3>2
    <3> QED
      BY <3>1, <3>2
  <2> QED
    BY <1>2, <2>1, <2>4, <2>5 DEF RangeSoFar
<1>7. CASE Parsing /\ RunEnd
  <2>1. phase = "run" /\ phase' = "missing" /\ i' = 1 /\ UNCHANGED <<tree, path, results>>
    BY <1>7 DEF RunEnd
  <2>2. \A k \in DOMAIN Children : k >= 1
    BY <1>1
  <2> QED
    BY <1>2, <1>5, <1>7, <2>1, <2>2 DEF RangeSoFar
<1>8. ASSUME Parsing, phase = "missing"
      PROVE  /\ DOMAIN results = DOMAIN Children
             /\ \A k \in DOMAIN Children :
                  \/ ~Valued(k) \/ WithinLimits(k)
                  \/ Staged(Children[k]) \/ (k >= i /\ results[k] = Unset)
  BY <1>8 DEF RangeSoFar
<1>9. CASE Parsing /\ Missing
  <2>1. /\ phase = "missing" /\ phase' = "missing" /\ i' = i + 1 /\ i \in DOMAIN Children
        /\ UNCHANGED <<tree, path>>
        /\ \/ (Valued(i) => results[i] # Unset) /\ UNCHANGED results
           \/ /\ CheckedDefault(Child) = ""
              /\ results' = [results EXCEPT ![i] = Value("default", Child.default)]
    <3>1. phase = "missing" /\ i \in DOMAIN Children
      <4>1. phase = "missing" /\ i <= Len(Children)
        BY <1>9 DEF Missing
      <4> QED
        BY <1>1, <4>1
    <3> QED
      BY <1>9, <3>1, FailStops DEF Missing, NextChild, Valued, Child
  <2>2. DOMAIN results' = DOMAIN Children /\ \A k \in DOMAIN Children \ {i} : results'[k] = results[k]
    BY <1>8, <1>9, <2>1
  <2>3. ASSUME NEW k \in DOMAIN Children, k = i
        PROVE  ~Valued(k) \/ WithinLimits(k)' \/ Staged(Children[k])
    <3>1. CASE (Valued(i) => results[i] # Unset) /\ UNCHANGED results
      <4>1. WithinLimits(k)' = WithinLimits(k)
        BY <1>2, <2>1, <3>1
      <4> QED
        BY <1>8, <1>9, <2>1, <2>3, <3>1, <4>1 DEF Child
    <3>2. CASE CheckedDefault(Child) = "" /\ results' = [results EXCEPT ![i] = Value("default", Child.default)]
      <4>1. Child.default \notin Child.low \cup Child.high
        BY <3>2, Validated DEF CheckedDefault
      <4>2. results'[k].list = Child.default
        BY <1>8, <1>9, <2>1, <2>3, <3>2 DEF Value
      <4> QED
        BY <1>2, <2>1, <2>3, <4>1, <4>2 DEF Child
    <3> QED
      BY <2>1, <3>1, <3>2
  <2>4. ASSUME NEW k \in DOMAIN Children
        PROVE  \/ ~Valued(k) \/ WithinLimits(k)' \/ Staged(Children[k])
               \/ (k >= i + 1 /\ results'[k] = Unset)
    <3>1. CASE k = i
      BY <2>3, <3>1
    <3>2. CASE k # i
      <4>1. k >= i => k >= i + 1
        BY <1>1, <3>2
      <4> QED
        BY <1>2, <1>8, <1>9, <2>1, <2>2, <3>2, <4>1
    <3> QED
      BY <3>1, <3>2
  <2> QED
    BY <1>2, <2>1, <2>2, <2>4 DEF RangeSoFar
<1>10. CASE Parsing /\ MissingEnd
  <2>1. /\ phase = "missing" /\ phase' = "stages" /\ i > Len(Children) /\ i' = 1
        /\ UNCHANGED <<tree, path, results>>
    BY <1>10 DEF MissingEnd
  <2>2. \A k \in DOMAIN Children : k >= 1 /\ ~(k >= i)
    BY <1>1, <2>1
  <2> QED
    BY <1>2, <1>8, <1>10, <2>1, <2>2 DEF RangeSoFar
<1>11. ASSUME Parsing, phase = "stages"
       PROVE  /\ DOMAIN results = DOMAIN Children
              /\ \A k \in DOMAIN Children :
                   \/ ~Valued(k) \/ WithinLimits(k) \/ (k >= i /\ Staged(Children[k]))
  BY <1>11 DEF RangeSoFar
<1>12. CASE Parsing /\ StageValidation
  <2>1. /\ phase = "stages" /\ phase' = "stages" /\ i' = i + 1 /\ i \in DOMAIN Children
        /\ Staged(Child) => Validation(Child, results[i].list) = ""
        /\ UNCHANGED <<tree, path, results>>
    <3>1. phase = "stages" /\ i \in DOMAIN Children
      <4>1. phase = "stages" /\ i <= Len(Children)
        BY <1>12 DEF StageValidation
      <4> QED
        BY <1>1, <4>1
    <3> QED
      BY <1>12, <3>1, FailStops DEF StageValidation, NextChild
  <2>2. Staged(Children[i]) => WithinLimits(i)
    BY <2>1, Validated DEF WithinLimits, Child
  <2>3. ASSUME NEW k \in DOMAIN Children
        PROVE  ~Valued(k) \/ WithinLimits(k) \/ (k >= i + 1 /\ Staged(Children[k]))
    <3>1. k >= i => k = i \/ k >= i + 1
      BY <1>1
    <3> QED
      BY <1>11, <1>12, <2>1, <2>2, <3>1
  <2> QED
    BY <1>2, <1>11, <1>12, <2>1, <2>3 DEF RangeSoFar
<1>13. CASE Parsing /\ Route
  <2>1. phase = "stages" /\ i > Len(Children) /\ UNCHANGED <<tree, path, results>>
    BY <1>13, FailStops DEF Route, Finish
  <2>2. \A k \in DOMAIN Children : ~(k >= i)
    BY <1>1, <2>1
  <2> QED
    BY <1>2, <1>11, <1>13, <2>1, <2>2 DEF RangeSoFar
<1> QED
  BY <1>3, <1>4, <1>6, <1>7, <1>9, <1>10, <1>12, <1>13, StepsOfParsing

\* No router sees a value its node's validation rejects, neither one of the
\* command line, nor a merged one, nor a default (mode.hpp:340-416), in every
\* tree that has limits only on nodes the code validates.
THEOREM LimitsHold ==
  ASSUME NEW nodes, NEW A, TreesOf(nodes, A), DistinctIds(nodes), LimitsAreChecked(nodes)
  PROVE  Spec => []InRange
<1>1. Init => RangeSoFar
  BY DEF Init, RangeSoFar, Parsing
<1>2. Typing(nodes, A) /\ Running /\ RangeSoFar /\ [Next]_vars => RangeSoFar'
  BY RangeSoFarStep
<1>3. Running /\ RangeSoFar => InRange
  <2> SUFFICES ASSUME Running, RangeSoFar, answer = "routed", path # <<>>,
                      NEW k \in DOMAIN results, Valued(k)
               PROVE  WithinLimits(k)
    BY DEF InRange, WithinLimits, Valued
  <2> QED
    BY DEF Running, RangeSoFar, Parsing
<1> QED
  BY <1>1, <1>2, <1>3, TypingHolds, RunningHolds, PTL DEF Spec
-----------------------------------------------------------------------------
\* Where targets come from

\* The leaf m of the mode's nodes matches, and its targets are added.
MatchAdds(A, m, verdict, o) ==
  /\ o = PreParseLeaf(m, Children, Done, args, verdict) /\ o.kind = "match"
  /\ WellTyped(A, m, Children, o)
  /\ Done \subseteq Done'
  /\ \A k \in DOMAIN targets' : \/ k \in DOMAIN targets /\ targets'[k] = targets[k]
                                \/ \E j \in DOMAIN o.targets : targets'[k] = o.targets[j]

LEMMA MatchAddsFacts ==
  ASSUME NEW nodes, NEW A, Typing(nodes, A), NEW m, NEW verdict, NEW o,
         o = PreParseLeaf(m, Children, Done, args, verdict), o.kind = "match",
         WellTyped(A, m, Children, o), targets' = targets \o o.targets
  PROVE  MatchAdds(A, m, verdict, o)
<1> DEFINE T == TargetsOf(A, IdsOf(Children)) \cup TargetsOf(A, Settable(m, Children))
           p == targets
           q == o.targets
<1>1. p \in Seq(T) /\ q \in Seq(T)
  BY DEF Typing, WellTyped
<1> HIDE DEF T, p, q
<1>2. /\ Len(p) \in Nat /\ DOMAIN p = 1 .. Len(p) /\ Len(q) \in Nat /\ DOMAIN q = 1 .. Len(q)
      /\ DOMAIN (p \o q) = 1 .. Len(p) + Len(q)
      /\ \A k \in 1 .. Len(p) + Len(q) :
           (p \o q)[k] = IF k <= Len(p) THEN p[k] ELSE q[k - Len(p)]
  BY <1>1, ConcatFacts
<1>3. \A k \in DOMAIN (p \o q) : \/ k \in DOMAIN p /\ (p \o q)[k] = p[k]
                                 \/ \E j \in DOMAIN q : (p \o q)[k] = q[j]
  <2> SUFFICES ASSUME NEW k \in DOMAIN (p \o q), ~(k <= Len(p))
               PROVE  \E j \in DOMAIN q : (p \o q)[k] = q[j]
    BY <1>2
  <2>1. k - Len(p) \in DOMAIN q /\ (p \o q)[k] = q[k - Len(p)]
    BY <1>2
  <2> QED
    BY <2>1
<1>4. \A k \in DOMAIN p : k \in DOMAIN (p \o q) /\ (p \o q)[k] = p[k]
  BY <1>2
<1>5. targets' = p \o q
  BY DEF p, q
<1>6. Done \subseteq Done'
  BY <1>4, <1>5 DEF Done, p
<1> QED
  BY <1>3, <1>5, <1>6 DEF MatchAdds, p, q

\* The node is a child that is no mode, or belongs to one.
OfAChild(m) ==
  \E c \in ToSet(Children) : c.kind # "mode" /\ m \in ToSet(Nodes(<<c>>))

\* A step clears the targets, leaves them alone, or adds those of a match.
LEMMA TargetsGrow ==
  ASSUME NEW nodes, NEW A, TreesOf(nodes, A), Typing(nodes, A), [Next]_vars
  PROVE  \/ targets' = <<>>
         \/ UNCHANGED <<tree, path, targets>>
         \/ /\ UNCHANGED <<tree, path>>
            /\ \E m \in ToSet(Nodes(Children)) : /\ OfAChild(m)
                                                /\ \E verdict, o : MatchAdds(A, m, verdict, o)
<1> DEFINE Clear == targets' = <<>>
           Keep  == UNCHANGED <<tree, path, targets>>
<1>1. /\ Children \in Seq(nodes) /\ \A n \in nodes : n.children \in Seq(nodes) /\ Parameters(n)
      /\ i <= Len(Children) => Child \in nodes /\ Child \in ToSet(Children)
      /\ args \in Seq(Words(A))
  BY ChildrenTyped DEF TreesOf, Parameters, Typing
<1>2. \A code : Fail(code) => Keep
  BY DEF Fail
<1>3. NextChild => Keep
  BY DEF NextChild
<1>4. i <= Len(Children) => {Child} \cup ToSet(Child.children) \subseteq ToSet(Nodes(Children))
  <2>1. ToSet(Nodes(Children))
          = UNION {{Children[k]} \cup ToSet(Children[k].children) : k \in DOMAIN Children}
    BY <1>1, NodesAre
  <2> SUFFICES ASSUME i <= Len(Children)
               PROVE  {Child} \cup ToSet(Child.children) \subseteq ToSet(Nodes(Children))
    OBVIOUS
  <2>2. i \in DOMAIN Children /\ Child = Children[i]
    BY <1>1 DEF Typing, Child
  <2> QED
    BY <2>1, <2>2
<1>16. ASSUME i <= Len(Children), Child.kind # "mode", NEW m \in {Child} \cup ToSet(Child.children)
       PROVE  OfAChild(m)
  <2>1. m \in ToSet(Nodes(<<Child>>))
    BY <1>1, <1>16, NodesOfOne
  <2> QED
    BY <1>1, <1>16, <2>1 DEF OfAChild
<1>5. CASE RootLeaf
  <2>1. i <= Len(Children) /\ phase = "root" /\ Child.kind # "mode"
    BY <1>5 DEF RootLeaf
  <2>2. PICK o : /\ o = PreParseLeaf(Child, Children, {}, args, "accept")
                 /\ \/ o.kind = "none" /\ NextChild
                    \/ o.kind = "error" /\ Fail(o.code)
                    \/ o.kind = "match" /\ Fail("unhandled_arguments")
                    \/ o.kind = "match" /\ targets' = o.targets /\ UNCHANGED <<tree, path>>
    BY <1>5 DEF RootLeaf
  <2>3. CASE o.kind = "match" /\ targets' = o.targets /\ UNCHANGED <<tree, path>>
    <3>1. WellTyped(A, Child, Children, o)
      BY <1>1, <2>1, <2>2, LeafTyped
    <3>2. targets = <<>> /\ o.targets \in Seq(TargetsOf(A, Settable(Child, Children)))
      BY <2>1, <2>3, <3>1 DEF Typing, WellTyped
    <3>3. targets' = targets \o o.targets /\ Done = {}
      BY <2>3, <3>2 DEF Done
    <3>4. MatchAdds(A, Child, "accept", o)
      BY <2>2, <2>3, <3>1, <3>3, MatchAddsFacts
    <3> QED
      BY <1>4, <1>16, <2>1, <2>3, <3>4
  <2> QED
    BY <1>2, <1>3, <2>2, <2>3
<1>6. CASE TryChild
  <2>1. i <= Len(Children)
    BY <1>6 DEF TryChild
  <2>2. CASE Child.kind = "mode"
    BY <1>3, <1>6, <2>2 DEF TryChild
  <2>3. CASE Child.kind # "mode"
    <3>1. PICK r : /\ r = PreParse(Child, Children, Done, args, Selected(Child.id), i \in matched)
                   /\ \/ r.o.kind = "none" /\ NextChild
                      \/ r.o.kind = "error" /\ Fail(r.o.code)
                      \/ /\ r.o.kind = "match" /\ targets' = targets \o r.o.targets
                         /\ UNCHANGED <<tree, path>>
      BY <1>6, <2>3 DEF TryChild
    <3>2. CASE /\ r.o.kind = "match" /\ targets' = targets \o r.o.targets
               /\ UNCHANGED <<tree, path>>
      <4>1. Child.children \in Seq(nodes)
        BY <1>1, <2>1
      <4>0. PICK n \in Leaves(Child) :
              \E verdict : r.o = PreParseLeaf(n, Children, Done, args, verdict)
        BY <3>1, <3>2, <4>1, PreParseTries
      <4>2. PICK verdict : r.o = PreParseLeaf(n, Children, Done, args, verdict)
        BY <4>0
      <4>3. n \in {Child} \cup ToSet(Child.children) /\ n \in nodes
        BY <1>1, <2>1, <4>1 DEF Leaves, ToSet
      <4>4. WellTyped(A, n, Children, r.o)
        BY <1>1, <4>2, <4>3, LeafTyped
      <4>5. MatchAdds(A, n, verdict, r.o)
        BY <3>2, <4>2, <4>4, MatchAddsFacts
      <4> QED
        BY <1>4, <1>16, <2>1, <2>3, <3>2, <4>3, <4>5
    <3> QED
      BY <1>2, <1>3, <3>1, <3>2
  <2> QED
    BY <2>2, <2>3
<1>7. ASSUME NEW mode, NEW rest, NEW next, Enter(mode, rest, next), phase \in {"root", "submode"}
      PROVE  Clear
  BY <1>7 DEF Enter, Typing
<1>8. CASE RootMode \/ SubMode
  BY <1>3, <1>7, <1>8 DEF RootMode, SubMode
<1>9. CASE RootUnknown \/ NoChild
  BY <1>2, <1>9 DEF RootUnknown, NoChild
<1>10. CASE NoSubMode \/ LoopEnd \/ RunEnd \/ MissingEnd
  BY <1>10 DEF NoSubMode, LoopEnd, RunEnd, MissingEnd
<1>11. CASE RunTarget
  BY <1>2, <1>11 DEF RunTarget
<1>12. CASE Missing \/ StageValidation
  BY <1>2, <1>3, <1>12 DEF Missing, StageValidation
<1>13. CASE Route \/ RouteLeaf
  BY <1>2, <1>13 DEF Route, RouteLeaf, Finish
<1>14. ASSUME NEW words, Call(words) PROVE Clear
  BY <1>14 DEF Call
<1>15. CASE UNCHANGED vars
  BY <1>15 DEF vars
<1> QED
  BY <1>5, <1>6, <1>8, <1>9, <1>10, <1>11, <1>12, <1>13, <1>14, <1>15 DEF Next, Step
-----------------------------------------------------------------------------
\* Disabled nodes and modes

\* No target is a disabled node's.
EnabledOnly ==
  \A k \in DOMAIN targets : \A n \in ToSet(Nodes(Children)) :
     n.id = targets[k].node => n.enabled

\* What a match adds is of enabled nodes, of the one that matched and of those
\* it stands for.
LEMMA MatchOfEnabled ==
  ASSUME NEW nodes, NEW A, TreesOf(nodes, A), DistinctIds(nodes), DisabledByPolicy(nodes),
         AliasesOfEnabled(nodes), Typing(nodes, A),
         NEW m \in ToSet(Nodes(Children)), NEW o, o.kind = "match", WellTyped(A, m, Children, o),
         NEW k \in DOMAIN o.targets, NEW n \in ToSet(Nodes(Children)), n.id = o.targets[k].node
  PROVE  n.enabled
<1>1. ToSet(Nodes(Children)) \subseteq nodes
  BY ChildrenTyped, ChildAmongNodes DEF TreesOf
<1>2. m.enabled
  BY <1>1 DEF WellTyped, DisabledByPolicy
<1>3. o.targets[k].node \in Settable(m, Children)
  <2>1. o.targets \in Seq(TargetsOf(A, Settable(m, Children)))
    BY DEF WellTyped
  <2>2. o.targets[k] \in TargetsOf(A, Settable(m, Children))
    BY <2>1
  <2> QED
    BY <2>2 DEF TargetsOf
<1>4. /\ \A a, b \in ToSet(Nodes(Children)) : a.id = b.id => a = b
      /\ \A a, b \in ToSet(Nodes(Children)) : a.id \in b.alias => a.enabled
  BY ChildrenAreSiblings DEF DistinctIds, AliasesOfEnabled
<1>5. CASE n.id = m.id
  BY <1>2, <1>4, <1>5
<1>6. CASE n.id \in m.alias
  BY <1>4, <1>6
<1>7. n.id \in Settable(m, Children) => n.id = m.id \/ n.id \in m.alias
  BY DEF Settable
<1> QED
  BY <1>3, <1>5, <1>6, <1>7

LEMMA EnabledOnlyStep ==
  ASSUME NEW nodes, NEW A, TreesOf(nodes, A), DistinctIds(nodes), DisabledByPolicy(nodes),
         AliasesOfEnabled(nodes)
  PROVE  Typing(nodes, A) /\ EnabledOnly /\ [Next]_vars => EnabledOnly'
<1> SUFFICES ASSUME Typing(nodes, A), EnabledOnly, [Next]_vars PROVE EnabledOnly'
  OBVIOUS
<1>1. CASE UNCHANGED <<tree, path, targets>>
  BY <1>1, SameOwners DEF EnabledOnly
<1>2. CASE targets' = <<>>
  BY <1>2 DEF EnabledOnly
<1>3. ASSUME UNCHANGED <<tree, path>>, NEW m \in ToSet(Nodes(Children)), NEW verdict, NEW o,
             MatchAdds(A, m, verdict, o)
      PROVE  EnabledOnly'
  <2>1. Children' = Children
    BY <1>3 DEF Children, Mode
  <2>2. ASSUME NEW k \in DOMAIN targets', NEW n \in ToSet(Nodes(Children)), n.id = targets'[k].node
        PROVE  n.enabled
    <3>1. CASE k \in DOMAIN targets /\ targets'[k] = targets[k]
      BY <2>2, <3>1 DEF EnabledOnly
    <3>2. ASSUME NEW j \in DOMAIN o.targets, targets'[k] = o.targets[j] PROVE n.enabled
      BY <1>3, <2>2, <3>2, MatchOfEnabled DEF MatchAdds
    <3> QED
      BY <1>3, <2>2, <3>1, <3>2 DEF MatchAdds
  <2> QED
    BY <2>1, <2>2 DEF EnabledOnly
<1> QED
  BY <1>1, <1>2, <1>3, TargetsGrow

\* A node that runtime_enable disables gets no value from the command line
\* (runtime_enable.hpp:52-69, tree_node.hpp:567-612), in every tree in which no
\* alias stands for a disabled node: an alias does set one (alias.hpp:137).
THEOREM DisabledAreUntouched ==
  ASSUME NEW nodes, NEW A, TreesOf(nodes, A), DistinctIds(nodes), DisabledByPolicy(nodes),
         AliasesOfEnabled(nodes)
  PROVE  Spec => []DisabledUntouched
<1>1. Init => EnabledOnly
  <2>1. Init => targets = <<>>
    BY DEF Init
  <2>2. targets = <<>> => EnabledOnly
    BY DEF EnabledOnly
  <2> QED
    BY <2>1, <2>2
<1>2. Typing(nodes, A) /\ EnabledOnly /\ [Next]_vars => EnabledOnly'
  BY EnabledOnlyStep
<1>3. EnabledOnly => DisabledUntouched
  BY DEF EnabledOnly, DisabledUntouched, Done
<1> QED
  BY <1>1, <1>2, <1>3, TypingHolds, PTL DEF Spec

\* The modes entered are enabled.
Open(nodes) == path \in Seq({n \in Modes(nodes) : n.enabled})

LEMMA OpenStep ==
  ASSUME NEW nodes, NEW A, TreesOf(nodes, A), DisabledByPolicy(nodes)
  PROVE  Typing(nodes, A) /\ Open(nodes) /\ [Next]_vars => Open(nodes)'
<1> SUFFICES ASSUME Typing(nodes, A), Open(nodes), [Next]_vars PROVE Open(nodes)'
  OBVIOUS
<1>1. /\ \A n \in nodes : n.children \in Seq(nodes) /\ Parameters(n)
      /\ i <= Len(Children) => Child \in nodes
      /\ args \in Seq(Words(A))
  BY ChildrenTyped DEF TreesOf, Parameters, Typing
<1>2. ASSUME UNCHANGED path PROVE Open(nodes)'
  BY <1>2 DEF Open
<1>3. ASSUME NEW mode \in Modes(nodes), mode.enabled, NEW rest, NEW next, Enter(mode, rest, next)
      PROVE  Open(nodes)'
  <2>1. path' = Append(path, mode)
    BY <1>3 DEF Enter
  <2> QED
    BY <1>3, <2>1 DEF Open
<1>4. ASSUME NEW o, o = PreParseLeaf(Child, <<>>, {}, args, "accept"), o.kind = "match",
             Enter(Child, o.args, "submode"), Child.kind = "mode", i <= Len(Children)
      PROVE  Open(nodes)'
  <2>1. Child \in Modes(nodes)
    BY <1>1, <1>4 DEF Modes
  <2>2. <<>> \in Seq(nodes)
    OBVIOUS
  <2>3. WellTyped(A, Child, <<>>, o)
    BY <1>1, <1>4, <2>2, LeafTyped
  <2>4. Child.enabled
    BY <1>1, <1>4, <2>3 DEF WellTyped, DisabledByPolicy
  <2> QED
    BY <1>3, <1>4, <2>1, <2>4
<1>5. CASE RootMode
  <2>1. i <= Len(Children) /\ Child.kind = "mode"
    BY <1>5 DEF RootMode
  <2>2. CASE ~IsNamed(Child) /\ Enter(Child, args, "loop")
    <3>1. Child \in Modes(nodes) /\ Child.enabled
      BY <1>1, <2>1, <2>2 DEF Modes, DisabledByPolicy
    <3> QED
      BY <1>3, <2>2, <3>1
  <2> QED
    BY <1>2, <1>4, <1>5, <2>1, <2>2 DEF RootMode, NextChild
<1>6. CASE SubMode
  BY <1>2, <1>4, <1>6 DEF SubMode, NextChild
<1>7. CASE RootLeaf \/ RootUnknown
  BY <1>2, <1>7 DEF RootLeaf, RootUnknown, NextChild, Fail
<1>8. CASE NoSubMode \/ LoopEnd \/ RunEnd \/ MissingEnd
  BY <1>2, <1>8 DEF NoSubMode, LoopEnd, RunEnd, MissingEnd
<1>9. CASE TryChild \/ NoChild
  BY <1>2, <1>9 DEF TryChild, NoChild, NextChild, Fail
<1>10. CASE RunTarget \/ Missing \/ StageValidation
  BY <1>2, <1>10 DEF RunTarget, Missing, StageValidation, NextChild, Fail
<1>11. CASE Route \/ RouteLeaf
  BY <1>2, <1>11 DEF Route, RouteLeaf, Finish, Fail
<1>12. ASSUME NEW words, Call(words) PROVE Open(nodes)'
  <2>1. path' = <<>>
    BY <1>12 DEF Call
  <2> QED
    BY <2>1 DEF Open
<1>13. CASE UNCHANGED vars
  BY <1>2, <1>13 DEF vars
<1> QED
  BY <1>5, <1>6, <1>7, <1>8, <1>9, <1>10, <1>11, <1>12, <1>13 DEF Next, Step

\* No mode that is disabled gets a word, and its router is not called, whatever
\* other policies it has, in every tree whose disabled modes are named
\* (mode.hpp:247-285, runtime_enable.hpp:52-69).
THEOREM DisabledModesAreClosed ==
  ASSUME NEW nodes, NEW A, TreesOf(nodes, A), DisabledByPolicy(nodes)
  PROVE  Spec => []DisabledModesClosed
<1>1. Init => Open(nodes)
  <2>1. Init => path = <<>>
    BY DEF Init
  <2>2. path = <<>> => Open(nodes)
    BY DEF Open
  <2> QED
    BY <2>1, <2>2
<1>2. Typing(nodes, A) /\ Open(nodes) /\ [Next]_vars => Open(nodes)'
  BY OpenStep
<1>3. Open(nodes) => DisabledModesClosed
  <2> SUFFICES ASSUME Open(nodes), NEW k \in DOMAIN path PROVE path[k].enabled
    BY DEF DisabledModesClosed
  <2>1. path[k] \in {n \in Modes(nodes) : n.enabled}
    BY DEF Open
  <2> QED
    BY <2>1
<1> QED
  BY <1>1, <1>2, <1>3, TypingHolds, PTL DEF Spec
-----------------------------------------------------------------------------
\* What a child's value is made of

\* The nodes of the targets are not those of child modes.
NoneOfModes == \A k \in DOMAIN targets : Children[OwnerOf(k)].kind # "mode"

LEMMA NoneOfModesStep ==
  ASSUME NEW nodes, NEW A, TreesOf(nodes, A), DistinctIds(nodes), ModesApart(nodes)
  PROVE  Typing(nodes, A) /\ NoneOfModes /\ [Next]_vars => NoneOfModes'
<1> SUFFICES ASSUME Typing(nodes, A), NoneOfModes, [Next]_vars PROVE NoneOfModes'
  OBVIOUS
<1>1. CASE UNCHANGED <<tree, path, targets>>
  BY <1>1, SameOwners DEF NoneOfModes
<1>2. CASE targets' = <<>>
  BY <1>2 DEF NoneOfModes
<1>3. ASSUME UNCHANGED <<tree, path>>, NEW m \in ToSet(Nodes(Children)), OfAChild(m),
             NEW verdict, NEW o, MatchAdds(A, m, verdict, o)
      PROVE  NoneOfModes'
  <2>1. Children' = Children
    BY <1>3 DEF Children, Mode
  <2>2. PICK c \in ToSet(Children) : c.kind # "mode" /\ m \in ToSet(Nodes(<<c>>))
    BY <1>3 DEF OfAChild
  <2>3. ASSUME NEW k \in DOMAIN targets' PROVE Children[Owner(targets'[k].node)].kind # "mode"
    <3>1. CASE k \in DOMAIN targets /\ targets'[k] = targets[k]
      BY <3>1 DEF NoneOfModes, OwnerOf
    <3>2. ASSUME NEW j \in DOMAIN o.targets, targets'[k] = o.targets[j]
          PROVE  Children[Owner(targets'[k].node)].kind # "mode"
      <4> DEFINE id == o.targets[j].node
                 d  == Children[Owner(id)]
      <4>1. id \in Settable(m, Children)
        <5>1. o.targets[j] \in TargetsOf(A, Settable(m, Children))
          BY <1>3 DEF MatchAdds, WellTyped
        <5> QED
          BY <5>1 DEF TargetsOf
      <4>2. id \in m.alias \cup {m.id} /\ id \in IdsOf(Children)
        BY <4>1, ChildrenTyped, SettableAmong DEF Settable, TreesOf
      <4>3. d \in ToSet(Children) /\ \E n \in ToSet(Nodes(<<d>>)) : n.id = id
        BY <4>2, OwnedBy DEF ToSet
      <4>4. \A a, b \in ToSet(Children) : a.kind # "mode" /\ b.kind = "mode" =>
              \A n \in ToSet(Nodes(<<a>>)), q \in ToSet(Nodes(<<b>>)) : q.id \notin n.alias \cup {n.id}
        BY ChildrenAreSiblings DEF ModesApart
      <4> QED
        BY <2>2, <3>2, <4>2, <4>3, <4>4
    <3> QED
      BY <1>3, <3>1, <3>2 DEF MatchAdds
  <2>4. \A k \in DOMAIN targets' : OwnerOf(k)' = Owner(targets'[k].node)
    BY <2>1 DEF OwnerOf, Owner
  <2> QED
    BY <2>1, <2>3, <2>4 DEF NoneOfModes
<1> QED
  BY <1>1, <1>2, <1>3, TargetsGrow

\* The texts for a child, counted up: those of a target are added if it owns
\* the target.
Added(k, j, texts) ==
  IF OwnerOf(j) # k THEN texts ELSE texts \o Parsed(NodeOf(targets[j].node), targets[j]).list

Gathered(k, n, g) ==
  g = [j \in 0 .. n |-> IF j = 0 THEN <<>> ELSE Added(k, j, g[j - 1])]

LEMMA TextsGathered ==
  ASSUME NEW nodes, NEW A, Typing(nodes, A), NEW k
  PROVE  /\ TextsFor(k)[0] = <<>>
         /\ \A j \in 1 .. Len(targets) : TextsFor(k)[j] = Added(k, j, TextsFor(k)[j - 1])
<1> DEFINE L == Len(targets)
           f == TextsFor(k)
           T == {n \in 0 .. L : \E g : Gathered(k, n, g)}
<1>1. L \in Nat
  BY DEF Typing
<1>2. 0 \in T
  <2>1. Gathered(k, 0, [j \in 0 .. 0 |-> <<>>])
    BY DEF Gathered
  <2> QED
    BY <1>1, <2>1
<1>3. ASSUME NEW n \in 1 .. L, n - 1 \in T PROVE n \in T
  <2>1. PICK g : Gathered(k, n - 1, g)
    BY <1>3
  <2> DEFINE h == [j \in 0 .. n |-> IF j = n THEN Added(k, n, g[n - 1]) ELSE g[j]]
  <2>2. \A j \in 0 .. n - 1 : g[j] = IF j = 0 THEN <<>> ELSE Added(k, j, g[j - 1])
    BY <2>1 DEF Gathered
  <2>3. \A j \in 0 .. n : h[j] = IF j = 0 THEN <<>> ELSE Added(k, j, h[j - 1])
    BY <2>2
  <2>4. Gathered(k, n, h)
    BY <2>3 DEF Gathered
  <2> QED
    BY <2>4
<1> HIDE DEF T
<1>4. L \in T
  <2>1. \A n \in 0 .. L : n \in T
    BY <1>1, <1>2, <1>3, UpTo
  <2> QED
    BY <1>1, <2>1
<1>5. f = CHOOSE g : Gathered(k, L, g)
  BY DEF TextsFor, Gathered, Added, OwnerOf
<1>6. Gathered(k, L, f)
  BY <1>4, <1>5 DEF T
<1> HIDE DEF f
<1>7. f[0] = <<>> /\ \A j \in 1 .. L : f[j] = Added(k, j, f[j - 1])
  <2>1. f = [j \in 0 .. L |-> IF j = 0 THEN <<>> ELSE Added(k, j, f[j - 1])]
    BY <1>6 DEF Gathered
  <2>2. f[0] = <<>>
    BY <1>1, <2>1
  <2>3. ASSUME NEW j \in 1 .. L PROVE f[j] = Added(k, j, f[j - 1])
    <3>1. j \in 0 .. L /\ j # 0
      BY <1>1
    <3> QED
      BY <2>1, <3>1
  <2> QED
    BY <2>2, <2>3
<1> QED
  BY <1>7 DEF f

\* The texts of a value are a sequence.
LEMMA ParsedIsList ==
  ASSUME NEW nodes, NEW A, Typing(nodes, A), NEW j \in DOMAIN targets, NEW node
  PROVE  \E S : Parsed(node, targets[j]).list \in Seq(S)
<1>1. targets[j] \in TargetsOf(A, IdsOf(Children))
  BY DEF Typing
<1> DEFINE q == targets[j].tokens
<1>2. DOMAIN q = 1 .. Len(q) /\ Len(q) \in Nat
  BY <1>1 DEF TargetsOf
<1> HIDE DEF q
<1>3. Names(q) \in Seq({q[k].name : k \in DOMAIN q})
  BY <1>2 DEF Names
<1>4. <<Given>> \in Seq({Given})
  OBVIOUS
<1> QED
  BY <1>3, <1>4 DEF Parsed, Value, q

\* The targets of a child among the first n
OwnAmong(k, n) == {j \in 1 .. n : OwnerOf(j) = k}

LastOf(j, S) == j \in S /\ \A l \in S : l <= j

\* What a child's value is made of while the targets parse: the targets so far,
\* or none, and later its default.
MadeOfTargets(k) ==
  \E j : LastOf(j, OwnAmong(k, Behind)) /\ results[k] = Value(targets[j].node, TextsFor(k)[Behind])

MadeOfNothing(k) ==
  /\ OwnAmong(k, Behind) = {} /\ TextsFor(k)[Behind] = <<>>
  /\ \/ results[k] = Unset /\ phase \in {"run", "missing"}
     \/ phase # "run" /\ results[k] = Value("default", Children[k].default)
  /\ phase = "missing" /\ k < i => results[k] = Value("default", Children[k].default)

Made(k) == IF Valued(k) THEN MadeOfTargets(k) \/ MadeOfNothing(k) ELSE results[k] = Unset

DeliveredSoFar ==
  Parsing => /\ DOMAIN results = DOMAIN Children
             /\ Behind \in 0 .. Len(targets)
             /\ \A k \in DOMAIN Children : Made(k)

\* One more target
LEMMA OneMoreText ==
  ASSUME NEW nodes, NEW A, TreesOf(nodes, A), DistinctIds(nodes), Typing(nodes, A), Running,
         DeliveredSoFar, Parsing, RunTarget, Parsing', NEW k \in DOMAIN Children
  PROVE  Made(k)'
<1> DEFINE node == NodeOf(targets[i].node)
           parsed == Parsed(node, targets[i])
           new  == Merged(node, results[OwnerOf(i)], parsed)
<1>1. /\ i \in 1 .. Len(targets) /\ phase = "run" /\ phase' = "run" /\ i' = i + 1
      /\ node.multi_stage \/ results[OwnerOf(i)] = Unset
      /\ results' = IF Valued(OwnerOf(i)) THEN [results EXCEPT ![OwnerOf(i)] = new] ELSE results
      /\ UNCHANGED <<tree, path, targets>>
  BY TargetParsed
<1>2. i \in DOMAIN targets /\ i \in Nat \ {0} /\ Len(targets) \in Nat
  BY <1>1 DEF Typing
<1>3. Behind = i - 1 /\ Behind' = i
  BY <1>1, <1>2 DEF Behind
<1>4. /\ Children' = Children /\ Valued(k)' = Valued(k)
      /\ \A j : OwnerOf(j)' = OwnerOf(j)
  BY <1>1, SameOwners
<1>5. TextsFor(k)' = TextsFor(k)
  BY <1>1, <1>4 DEF TextsFor, Owner, NodeOf
<1>6. /\ OwnerOf(i) \in DOMAIN Children /\ node.id = targets[i].node
      /\ \A j \in DOMAIN targets : targets[j].node # Unset.by
  BY <1>2, Ownership DEF OwnerOf
<1>7. DOMAIN results = DOMAIN Children /\ Made(k)
  BY DEF DeliveredSoFar
<1>14. CASE ~Valued(k)
  <2>1. results[k] = Unset /\ results'[k] = results[k]
    BY <1>1, <1>7, <1>14 DEF Made
  <2> QED
    BY <1>4, <1>14, <2>1 DEF Made
<1>8. TextsFor(k)[i] = Added(k, i, TextsFor(k)[i - 1])
  BY <1>1, TextsGathered
<1>9. OwnAmong(k, Behind)' = OwnAmong(k, i)
  BY <1>3, <1>4 DEF OwnAmong
<1>12. OwnAmong(k, i - 1) \subseteq DOMAIN targets
  BY <1>2 DEF OwnAmong, Typing
<1>13. (TextsFor(k)[Behind])' = TextsFor(k)[i]
  BY <1>3, <1>5
<1> DEFINE old == TextsFor(k)[i - 1]
           now == TextsFor(k)[i]
<1>10. CASE Valued(k) /\ OwnerOf(i) = k
  <2>1. LastOf(i, OwnAmong(k, i))
    BY <1>2, <1>10 DEF LastOf, OwnAmong
  <2>2. now = old \o parsed.list
    BY <1>8, <1>10 DEF Added
  <2>3. results'[k] = Merged(node, results[k], parsed)
    BY <1>1, <1>7, <1>10
  <2>4. parsed.by = targets[i].node /\ parsed = Value(parsed.by, parsed.list)
    BY <1>6 DEF Parsed, Value
  <2>5. PICK S : parsed.list \in Seq(S)
    BY <1>2, ParsedIsList
  <2> HIDE DEF new, parsed, old, now
  <2>6. results'[k] = Value(targets[i].node, now)
    <3>1. CASE MadeOfTargets(k)
      <4>1. PICK j : LastOf(j, OwnAmong(k, i - 1)) /\ results[k] = Value(targets[j].node, old)
        BY <1>3, <3>1 DEF MadeOfTargets, old
      <4>2. results[k] # Unset /\ results[k].list = old
        BY <1>6, <1>12, <4>1 DEF LastOf, Value, Unset
      <4>3. node.multi_stage
        BY <1>1, <1>10, <4>2
      <4> QED
        BY <2>2, <2>3, <2>4, <4>2, <4>3 DEF Merged
    <3>2. CASE MadeOfNothing(k)
      <4>1. results[k] = Unset /\ old = <<>>
        BY <1>1, <1>3, <3>2 DEF MadeOfNothing, old
      <4>2. now = parsed.list
        BY <2>2, <2>5, <4>1
      <4> QED
        BY <2>3, <2>4, <4>1, <4>2 DEF Merged
    <3> QED
      BY <1>7, <1>10, <3>1, <3>2 DEF Made
  <2>7. MadeOfTargets(k)'
    BY <1>1, <1>9, <1>13, <2>1, <2>6 DEF MadeOfTargets, now
  <2> QED
    BY <1>4, <1>10, <2>7 DEF Made
<1>11. CASE Valued(k) /\ OwnerOf(i) # k
  <2>1. OwnAmong(k, i) = OwnAmong(k, i - 1)
    BY <1>2, <1>11 DEF OwnAmong
  <2>2. results'[k] = results[k]
    BY <1>1, <1>7, <1>11
  <2>3. now = old
    BY <1>8, <1>11 DEF Added
  <2> HIDE DEF now, old
  <2>4. ASSUME MadeOfTargets(k) PROVE MadeOfTargets(k)'
    <3>1. PICK j : LastOf(j, OwnAmong(k, i - 1)) /\ results[k] = Value(targets[j].node, old)
      BY <1>3, <2>4 DEF MadeOfTargets, old
    <3> QED
      BY <1>1, <1>9, <1>13, <2>1, <2>2, <2>3, <3>1 DEF MadeOfTargets, now
  <2>5. ASSUME MadeOfNothing(k) PROVE MadeOfNothing(k)'
    <3>1. OwnAmong(k, i - 1) = {} /\ old = <<>> /\ results[k] = Unset
      BY <1>1, <1>3, <2>5 DEF MadeOfNothing, old
    <3> QED
      BY <1>1, <1>9, <1>13, <2>1, <2>2, <2>3, <3>1 DEF MadeOfNothing, now
  <2> QED
    BY <1>4, <1>7, <1>11, <2>4, <2>5 DEF Made
<1> QED
  BY <1>10, <1>11, <1>14

LEMMA DeliveredSoFarStep ==
  ASSUME NEW nodes, NEW A, TreesOf(nodes, A), DistinctIds(nodes)
  PROVE  Typing(nodes, A) /\ Running /\ DeliveredSoFar /\ [Next]_vars => DeliveredSoFar'
<1> SUFFICES ASSUME Typing(nodes, A), Running, DeliveredSoFar, [Next]_vars, Parsing'
             PROVE  DeliveredSoFar'
  BY DEF DeliveredSoFar
<1>1. /\ Len(targets) \in Nat /\ DOMAIN targets = 1 .. Len(targets) /\ i \in Nat \ {0}
      /\ Children \in Seq(nodes) /\ Len(Children) \in Nat /\ DOMAIN Children = 1 .. Len(Children)
  BY ChildrenTyped DEF Typing
<1>2. ASSUME UNCHANGED <<tree, path, targets>>
      PROVE  /\ Children' = Children
             /\ \A k : Valued(k)' = Valued(k)
             /\ \A j : OwnerOf(j)' = OwnerOf(j)
             /\ \A k : TextsFor(k)' = TextsFor(k)
  <2>1. Children' = Children /\ (\A j : OwnerOf(j)' = OwnerOf(j)) /\ \A k : Valued(k)' = Valued(k)
    BY <1>2, SameOwners
  <2> QED
    BY <1>2, <2>1 DEF TextsFor, Owner, NodeOf
<1>3. ASSUME Parsing
      PROVE  /\ DOMAIN results = DOMAIN Children
             /\ Behind \in 0 .. Len(targets)
             /\ \A k \in DOMAIN Children : Made(k)
  BY <1>3 DEF DeliveredSoFar
<1>4. ASSUME Parsing, UNCHANGED <<tree, path, targets>>, Behind' = Behind
      PROVE  /\ Children' = Children
             /\ DOMAIN results = DOMAIN Children /\ Behind' \in 0 .. Len(targets')
             /\ \A k : OwnAmong(k, Behind)' = OwnAmong(k, Behind)
             /\ \A k : (TextsFor(k)[Behind])' = TextsFor(k)[Behind]
             /\ \A k : results'[k] = results[k] /\ MadeOfTargets(k) => MadeOfTargets(k)'
             /\ \A k : (Valued(k) => (MadeOfTargets(k) \/ MadeOfNothing(k))')
                     /\ (~Valued(k) => results'[k] = Unset) => Made(k)'
  <2>1. /\ Children' = Children
        /\ \A j : OwnerOf(j)' = OwnerOf(j)
        /\ \A k : TextsFor(k)' = TextsFor(k)
    BY <1>2, <1>4
  <2>2. \A k : OwnAmong(k, Behind)' = OwnAmong(k, Behind)
    BY <1>4, <2>1 DEF OwnAmong
  <2>3. \A k : (TextsFor(k)[Behind])' = TextsFor(k)[Behind]
    BY <1>4, <2>1
  <2>4. ASSUME NEW k, results'[k] = results[k], MadeOfTargets(k) PROVE MadeOfTargets(k)'
    BY <1>4, <2>2, <2>3, <2>4 DEF MadeOfTargets
  <2>5. ASSUME NEW k, Valued(k) => (MadeOfTargets(k) \/ MadeOfNothing(k))',
               ~Valued(k) => results'[k] = Unset
        PROVE  Made(k)'
    BY <1>2, <1>4, <2>5 DEF Made
  <2> QED
    BY <1>3, <1>4, <2>1, <2>2, <2>3, <2>4, <2>5
<1>5. CASE UNCHANGED vars
  <2>1. Parsing /\ UNCHANGED <<tree, path, targets, results, phase, i>>
    BY <1>5 DEF vars, Parsing
  <2>2. Behind' = Behind
    BY <2>1 DEF Behind
  <2>3. ASSUME NEW k \in DOMAIN Children PROVE Made(k)'
    <3>1. ASSUME MadeOfTargets(k) PROVE MadeOfTargets(k)'
      BY <1>4, <2>1, <2>2, <3>1
    <3>2. ASSUME MadeOfNothing(k) PROVE MadeOfNothing(k)'
      BY <1>4, <2>1, <2>2, <3>2 DEF MadeOfNothing
    <3> QED
      BY <1>3, <1>4, <2>1, <2>2, <3>1, <3>2 DEF Made
  <2> QED
    BY <1>4, <2>1, <2>2, <2>3 DEF DeliveredSoFar
<1>6. CASE LoopEnd
  <2>1. /\ phase' = "run" /\ i' = 1 /\ results' = [k \in DOMAIN Children |-> Unset]
        /\ UNCHANGED <<tree, path, targets>>
    BY <1>6 DEF LoopEnd
  <2>2. Behind' = 0 /\ Children' = Children
    BY <1>2, <2>1 DEF Behind
  <2>3. ASSUME NEW k \in DOMAIN Children PROVE Made(k)'
    <3>1. TextsFor(k)[0] = <<>> /\ TextsFor(k)' = TextsFor(k)
      BY <1>2, <2>1, TextsGathered
    <3>2. (TextsFor(k)[Behind])' = <<>>
      BY <2>2, <3>1
    <3>3. OwnAmong(k, Behind)' = {}
      BY <2>2 DEF OwnAmong
    <3>4. MadeOfNothing(k)' /\ results'[k] = Unset
      BY <2>1, <3>2, <3>3 DEF MadeOfNothing
    <3> QED
      BY <3>4 DEF Made
  <2> QED
    BY <1>1, <2>1, <2>2, <2>3 DEF DeliveredSoFar
<1>7. CASE Parsing /\ RunTarget
  <2>1. /\ i \in 1 .. Len(targets) /\ phase = "run" /\ phase' = "run" /\ i' = i + 1
        /\ DOMAIN results' = DOMAIN results /\ UNCHANGED <<tree, path, targets>>
    BY <1>7, TargetParsed
  <2>2. Behind' \in 0 .. Len(targets')
    BY <1>1, <2>1 DEF Behind
  <2>3. \A k \in DOMAIN Children : Made(k)'
    BY <1>7, OneMoreText
  <2> QED
    BY <1>2, <1>3, <1>7, <2>1, <2>2, <2>3 DEF DeliveredSoFar
<1>8. CASE Parsing /\ RunEnd
  <2>1. phase = "run" /\ i > Len(targets) /\ phase' = "missing" /\ i' = 1
        /\ UNCHANGED <<tree, path, targets, results>>
    BY <1>8 DEF RunEnd
  <2>2. Behind = i - 1 /\ Behind \in 0 .. Len(targets) /\ Behind' = Len(targets)
    BY <1>3, <1>8, <2>1 DEF Behind
  <2>3. Behind' = Behind
    BY <1>1, <2>1, <2>2
  <2>4. ASSUME NEW k \in DOMAIN Children PROVE Made(k)'
    <3>1. ASSUME MadeOfTargets(k) PROVE MadeOfTargets(k)'
      BY <1>4, <1>8, <2>1, <2>3, <3>1
    <3>2. ASSUME MadeOfNothing(k) PROVE MadeOfNothing(k)'
      <4>1. ~(k < 1)
        BY <1>1
      <4> QED
        BY <1>4, <1>8, <2>1, <2>3, <3>2, <4>1 DEF MadeOfNothing
    <3> QED
      BY <1>3, <1>4, <1>8, <2>1, <2>3, <3>1, <3>2 DEF Made
  <2> QED
    BY <1>4, <1>8, <2>1, <2>3, <2>4 DEF DeliveredSoFar
<1>9. CASE Parsing /\ Missing
  <2>1. /\ phase = "missing" /\ phase' = "missing" /\ i' = i + 1 /\ i \in DOMAIN Children
        /\ UNCHANGED <<tree, path, targets>>
        /\ \/ (Valued(i) => results[i] # Unset) /\ UNCHANGED results
           \/ /\ Valued(i) /\ results[i] = Unset
              /\ results' = [results EXCEPT ![i] = Value("default", Child.default)]
    <3>1. phase = "missing" /\ i \in DOMAIN Children
      <4>1. phase = "missing" /\ i <= Len(Children)
        BY <1>9 DEF Missing
      <4> QED
        BY <1>1, <4>1
    <3> QED
      BY <1>9, <3>1, FailStops DEF Missing, NextChild, Valued, Child
  <2>2. Behind' = Behind
    BY <2>1 DEF Behind
  <2>3. DOMAIN results' = DOMAIN results /\ \A k \in DOMAIN Children \ {i} : results'[k] = results[k]
    BY <1>3, <1>9, <2>1
  <2>4. ASSUME NEW k \in DOMAIN Children, MadeOfTargets(k) PROVE results'[k] = results[k]
    <3>1. results[k] # Unset
      <4>1. PICK j : LastOf(j, OwnAmong(k, Behind)) /\ results[k].by = targets[j].node
        BY <2>4 DEF MadeOfTargets, Value
      <4>2. j \in DOMAIN targets
        BY <1>1, <1>3, <1>9, <4>1 DEF LastOf, OwnAmong
      <4> QED
        BY <4>1, <4>2, Ownership DEF Unset, Value
    <3> QED
      BY <2>1, <2>3, <3>1
  <2>5. ASSUME NEW k \in DOMAIN Children, Valued(k), MadeOfNothing(k) PROVE MadeOfNothing(k)'
    <3>1. CASE k # i
      <4>1. results'[k] = results[k] /\ (k < i + 1 => k < i)
        BY <1>1, <2>3, <3>1
      <4> QED
        BY <1>4, <1>9, <2>1, <2>2, <2>5, <4>1 DEF MadeOfNothing
    <3>2. CASE k = i /\ (Valued(i) => results[i] # Unset) /\ UNCHANGED results
      <4>1. results[k] # Unset
        BY <2>5, <3>2
      <4> QED
        BY <1>4, <1>9, <2>1, <2>2, <2>5, <3>2, <4>1 DEF MadeOfNothing
    <3>3. CASE k = i /\ results' = [results EXCEPT ![i] = Value("default", Child.default)]
      <4>1. results'[k] = Value("default", Children[k].default)
        BY <1>3, <1>9, <3>3 DEF Child
      <4> QED
        BY <1>4, <1>9, <2>1, <2>2, <2>5, <4>1 DEF MadeOfNothing
    <3> QED
      BY <2>1, <3>1, <3>2, <3>3
  <2>6. ASSUME NEW k \in DOMAIN Children PROVE Made(k)'
    <3>1. ASSUME ~Valued(k) PROVE results'[k] = Unset
      <4>1. results[k] = Unset
        BY <1>3, <1>9, <3>1 DEF Made
      <4> QED
        BY <2>1, <2>3, <3>1, <4>1
    <3>2. ASSUME Valued(k) PROVE (MadeOfTargets(k) \/ MadeOfNothing(k))'
      <4>1. CASE MadeOfTargets(k)
        BY <1>4, <1>9, <2>1, <2>2, <2>4, <4>1
      <4>2. CASE MadeOfNothing(k)
        BY <2>5, <3>2, <4>2
      <4> QED
        BY <1>3, <1>9, <3>2, <4>1, <4>2 DEF Made
    <3> QED
      BY <1>4, <1>9, <2>1, <2>2, <3>1, <3>2
  <2> QED
    BY <1>3, <1>4, <1>9, <2>1, <2>2, <2>3, <2>6 DEF DeliveredSoFar
<1>10. CASE Parsing /\ MissingEnd
  <2>1. phase = "missing" /\ i > Len(Children) /\ phase' = "stages"
        /\ UNCHANGED <<tree, path, targets, results>>
    BY <1>10 DEF MissingEnd
  <2>2. Behind' = Behind
    BY <2>1 DEF Behind
  <2>3. ASSUME NEW k \in DOMAIN Children PROVE Made(k)'
    <3>1. ASSUME MadeOfTargets(k) PROVE MadeOfTargets(k)'
      BY <1>4, <1>10, <2>1, <2>2, <3>1
    <3>2. ASSUME MadeOfNothing(k) PROVE MadeOfNothing(k)'
      <4>1. k < i
        BY <1>1, <2>1
      <4> QED
        BY <1>4, <1>10, <2>1, <2>2, <3>2, <4>1 DEF MadeOfNothing
    <3> QED
      BY <1>3, <1>4, <1>10, <2>1, <2>2, <3>1, <3>2 DEF Made
  <2> QED
    BY <1>4, <1>10, <2>1, <2>2, <2>3 DEF DeliveredSoFar
<1>11. CASE Parsing /\ (StageValidation \/ Route)
  <2>1. phase = "stages" /\ phase' \in {"stages", "idle"}
        /\ UNCHANGED <<tree, path, targets, results>>
    BY <1>11, FailStops DEF StageValidation, Route, NextChild, Fail, Finish
  <2>2. Behind' = Behind
    BY <2>1 DEF Behind
  <2>3. ASSUME NEW k \in DOMAIN Children PROVE Made(k)'
    <3>1. ASSUME MadeOfTargets(k) PROVE MadeOfTargets(k)'
      BY <1>4, <1>11, <2>1, <2>2, <3>1
    <3>2. ASSUME MadeOfNothing(k) PROVE MadeOfNothing(k)'
      BY <1>4, <1>11, <2>1, <2>2, <3>2 DEF MadeOfNothing
    <3> QED
      BY <1>3, <1>4, <1>11, <2>1, <2>2, <3>1, <3>2 DEF Made
  <2> QED
    BY <1>4, <1>11, <2>1, <2>2, <2>3 DEF DeliveredSoFar
<1> QED
  BY <1>5, <1>6, <1>7, <1>8, <1>9, <1>10, <1>11, StepsOfParsing

\* What was routed is the results of the children that have one.
RoutedSoFar == answer = "routed" /\ path # <<>> => routed = <<Routing(Mode.id, Stripped(Children, results))>>

LEMMA RoutedSoFarStep ==
  ASSUME NEW nodes, NEW A
  PROVE  Typing(nodes, A) /\ Running /\ RoutedSoFar /\ [Next]_vars => RoutedSoFar'
<1> SUFFICES ASSUME Typing(nodes, A), Running, RoutedSoFar, [Next]_vars PROVE RoutedSoFar'
  OBVIOUS
<1>1. phase # "idle" => routed = <<>> /\ answer = "none"
  BY DEF Running
<1>2. CASE ~Parsing'
  BY <1>2 DEF Parsing, RoutedSoFar
<1>3. CASE UNCHANGED vars
  <2>1. UNCHANGED <<tree, path, results, routed, answer>>
    BY <1>3 DEF vars
  <2>2. Mode' = Mode /\ Children' = Children
    BY <2>1 DEF Mode, Children
  <2> QED
    BY <2>1, <2>2 DEF RoutedSoFar
<1>4. CASE LoopEnd \/ RunTarget \/ RunEnd \/ Missing \/ MissingEnd \/ StageValidation
  <2>1. answer' \in {"none", "threw"}
    BY <1>1, <1>4 DEF LoopEnd, RunTarget, RunEnd, Missing, MissingEnd, StageValidation, NextChild, Fail
  <2> QED
    BY <2>1 DEF RoutedSoFar
<1>5. CASE Route
  <2>1. ASSUME NEW code, Fail(code) PROVE RoutedSoFar'
    BY <2>1 DEF Fail, RoutedSoFar
  <2>2. CASE routed' = Append(routed, Routing(Mode.id, Stripped(Children, results))) /\ Finish
    <3>1. UNCHANGED <<tree, path, results>> /\ routed = <<>>
      BY <1>1, <1>5, <2>2 DEF Finish, Route
    <3>2. Mode' = Mode /\ Children' = Children
      BY <3>1 DEF Mode, Children
    <3>3. routed' = <<Routing(Mode.id, Stripped(Children, results))>>
      BY <2>2, <3>1
    <3> QED
      BY <3>1, <3>2, <3>3 DEF RoutedSoFar
  <2> QED
    BY <1>5, <2>1, <2>2 DEF Route
<1> QED
  BY <1>2, <1>3, <1>4, <1>5, StepsOfParsing

\* A mode's router gets the values of the mode's children that have a place for
\* one, modes and nodes that stand for others have none.  A value is made of the
\* texts of all the child's targets, in the order of the command line, and carries
\* the last one's name; without a target it is the child's default.  Child modes
\* have no targets (mode.hpp:340-416), for every tree whose child modes are apart.
THEOREM RouterGetsAll ==
  ASSUME NEW nodes, NEW A, TreesOf(nodes, A), DistinctIds(nodes), ModesApart(nodes)
  PROVE  Spec => []Delivered
<1>1. Init => DeliveredSoFar /\ NoneOfModes /\ RoutedSoFar
  <2>1. Init => ~Parsing /\ targets = <<>> /\ path = <<>>
    BY DEF Init, Parsing
  <2> QED
    BY <2>1 DEF DeliveredSoFar, NoneOfModes, RoutedSoFar
<1>2. Typing(nodes, A) /\ Running /\ DeliveredSoFar /\ [Next]_vars => DeliveredSoFar'
  BY DeliveredSoFarStep
<1>3. Typing(nodes, A) /\ NoneOfModes /\ [Next]_vars => NoneOfModes'
  BY NoneOfModesStep
<1>4. Typing(nodes, A) /\ Running /\ RoutedSoFar /\ [Next]_vars => RoutedSoFar'
  BY RoutedSoFarStep
<1>5. Typing(nodes, A) /\ Running /\ DeliveredSoFar /\ NoneOfModes /\ RoutedSoFar => Delivered
  <2> SUFFICES ASSUME Typing(nodes, A), Running, DeliveredSoFar, NoneOfModes, RoutedSoFar,
                      answer = "routed", path # <<>>, NEW k \in DOMAIN results
               PROVE  LET own == {j \in DOMAIN targets : Owner(targets[j].node) = k}
                      IN  /\ Children[k].kind = "mode" => own = {}
                          /\ results[k] = IF ~HasResult(Children[k]) THEN Unset
                                          ELSE IF own = {} THEN Value("default", Children[k].default)
                                          ELSE Value(targets[Max(own)].node, TextsFor(k)[Len(targets)])
    BY DEF Delivered, RoutedSoFar
  <2> DEFINE own == {j \in DOMAIN targets : Owner(targets[j].node) = k}
  <2>1. Parsing /\ phase = "idle" /\ Behind = Len(targets) /\ DOMAIN targets = 1 .. Len(targets)
    BY DEF Running, Parsing, Typing, Behind
  <2>2. k \in DOMAIN Children /\ Made(k)
    BY <2>1 DEF DeliveredSoFar
  <2>3. own = OwnAmong(k, Behind) /\ own \subseteq Nat
    BY <2>1 DEF OwnAmong, OwnerOf
  <2>4. Children[k].kind = "mode" => own = {}
    BY DEF NoneOfModes, OwnerOf
  <2> HIDE DEF own
  <2>5. ~HasResult(Children[k]) => results[k] = Unset
    BY <2>2 DEF Made, Valued
  <2>6. HasResult(Children[k]) => MadeOfTargets(k) \/ MadeOfNothing(k)
    BY <2>2 DEF Made, Valued
  <2>7. HasResult(Children[k]) /\ own = {} => results[k] = Value("default", Children[k].default)
    BY <2>1, <2>3, <2>6 DEF MadeOfNothing, MadeOfTargets, LastOf
  <2>8. HasResult(Children[k]) /\ own # {}
          => results[k] = Value(targets[Max(own)].node, TextsFor(k)[Len(targets)])
    <3> SUFFICES ASSUME HasResult(Children[k]), own # {}
                 PROVE  results[k] = Value(targets[Max(own)].node, TextsFor(k)[Len(targets)])
      OBVIOUS
    <3>1. PICK j : LastOf(j, own) /\ results[k] = Value(targets[j].node, TextsFor(k)[Len(targets)])
      BY <2>1, <2>3, <2>6 DEF MadeOfNothing, MadeOfTargets
    <3>2. j \in own /\ \A l \in own : j >= l
      BY <2>3, <3>1 DEF LastOf
    <3>3. Max(own) \in own /\ \A l \in own : Max(own) >= l
      BY <3>2 DEF Max
    <3>4. Max(own) = j
      BY <2>3, <3>2, <3>3
    <3> QED
      BY <3>1, <3>4
  <2> QED
    BY <2>4, <2>5, <2>7, <2>8 DEF own
<1> QED
  BY <1>1, <1>2, <1>3, <1>4, <1>5, TypingHolds, RunningHolds, PTL DEF Spec
-----------------------------------------------------------------------------
\* Names at the front of a text

Texts == Seq(STRING)

\* A name of the front of a text is one of the text, and no name is of <<>>.
LEMMA PrefixFacts ==
  ASSUME NEW B, NEW x \in Seq(B), NEW A, NEW q \in Seq(A)
  PROVE  /\ x = q => IsPrefix(x, q)
         /\ \A k \in 0 .. Len(q) : IsPrefix(x, SubSeq(q, 1, k)) => IsPrefix(x, q)
         /\ IsPrefix(x, <<>>) => x = <<>>
<1>1. x = q => IsPrefix(x, q)
  BY DEF IsPrefix
<1>2. ASSUME NEW k \in 0 .. Len(q), IsPrefix(x, SubSeq(q, 1, k)) PROVE IsPrefix(x, q)
  <2> DEFINE n == Len(x)
             r == SubSeq(q, 1, k)
  <2>1. /\ n \in Nat /\ 1 \in 1 .. Len(q) + 1 /\ k \in 1 - 1 .. Len(q)
    OBVIOUS
  <2>2. /\ r \in Seq(A) /\ Len(r) = k - 1 + 1
        /\ \A j \in 1 .. k - 1 + 1 : r[j] = q[j + 1 - 1]
    BY ONLY <2>1, SubSeqFacts, q \in Seq(A)
  <2>3. n <= Len(r) /\ SubSeq(x, 1, n) = SubSeq(r, 1, n)
    BY <1>2 DEF IsPrefix
  <2> HIDE DEF r, n
  <2>4. SubSeq(r, 1, n) = SubSeq(q, 1, n)
    <3>1. /\ SubSeq(r, 1, n) = [j \in 1 .. n |-> r[j]]
          /\ SubSeq(q, 1, n) = [j \in 1 .. n |-> q[j]]
      <4>1. ASSUME NEW C, NEW s \in Seq(C), n <= Len(s) PROVE SubSeq(s, 1, n) = [j \in 1 .. n |-> s[j]]
        BY <2>1, <4>1
      <4>2. n <= Len(q)
        BY <2>1, <2>2, <2>3
      <4> QED
        BY <2>2, <2>3, <4>1, <4>2
    <3>2. \A j \in 1 .. n : r[j] = q[j]
      BY <2>1, <2>2, <2>3
    <3> QED
      BY <3>1, <3>2
  <2> QED
    BY <2>1, <2>2, <2>3, <2>4 DEF IsPrefix, n
<1>3. IsPrefix(x, <<>>) => x = <<>>
  BY DEF IsPrefix
<1> QED
  BY <1>1, <1>2, <1>3

\* The names of a node are texts.
Named(node) == {node.long, node.short, node.none} \subseteq Texts

\* What matches a label is named by it.
LEMMA MatchNames ==
  ASSUME NEW A, NEW node, Named(node), NEW tok \in Toks(A), Match(node, AsLabelOf(node, tok))
  PROVE  NamedBy(node, tok)
<1>1. \A x \in Texts : IsPrefix(x, x)
  BY PrefixFacts DEF Texts
<1>2. \A pre, name : Token(pre, name).pre = pre /\ Token(pre, name).name = name
  BY DEF Token
<1> QED
  BY <1>1, <1>2 DEF Match, NamedBy, Named

\* A token cut short is named by no more nodes than before.
LEMMA CutNames ==
  ASSUME NEW A, NEW node, Named(node), NEW pre \in {"none", "short", "long"},
         NEW name \in Seq(A), NEW k \in 0 .. Len(name),
         NamedBy(node, Token(pre, SubSeq(name, 1, k)))
  PROVE  NamedBy(node, Token(pre, name))
<1> DEFINE cut == SubSeq(name, 1, k)
<1>1. \A p, n : Token(p, n).pre = p /\ Token(p, n).name = n
  BY DEF Token
<1>2. \A x \in Texts : IsPrefix(x, cut) => IsPrefix(x, name)
  BY PrefixFacts DEF Texts
<1>3. CASE pre # "none"
  BY <1>1, <1>2, <1>3 DEF NamedBy, AsLabelOf, Named
<1>4. CASE pre = "none" /\ k = 0
  <2>1. cut = <<>>
    BY <1>4
  <2>2. \A x \in Texts : IsPrefix(x, <<>>) => x = <<>>
    <3>1. <<>> \in Seq(A)
      OBVIOUS
    <3> QED
      BY <3>1, PrefixFacts DEF Texts
  <2>3. AsLabelOf(node, Token(pre, cut)) = Token("none", <<>>)
    BY <1>1, <1>4, <2>1 DEF AsLabelOf, GetTokenTypeFor, StartsWith, Raw
  <2> QED
    BY <1>1, <2>2, <2>3 DEF NamedBy, Named, HasNone
<1>5. CASE pre = "none" /\ k # 0
  <2>1. /\ cut # <<>> /\ name # <<>> /\ Head(cut) = Head(name)
        /\ k - 1 \in 0 .. Len(Tail(name)) /\ Tail(name) \in Seq(A)
        /\ Tail(cut) = SubSeq(Tail(name), 1, k - 1)
    BY <1>5
  <2>2. \A x \in Texts : IsPrefix(x, Tail(cut)) => IsPrefix(x, Tail(name))
    BY <2>1, PrefixFacts DEF Texts
  <2>3. \A p : StartsWith(cut, p) <=> StartsWith(name, p)
    BY <2>1 DEF StartsWith
  <2> HIDE DEF cut
  <2> QED
    BY <1>1, <1>2, <1>5, <2>2, <2>3 DEF NamedBy, AsLabelOf, GetTokenTypeFor, Raw, Named, cut
<1> QED
  BY <1>3, <1>4, <1>5
-----------------------------------------------------------------------------
\* A node that the first word does not name

\* The first of the tokens, if any, is not named by the node.
NotInFront(node, a) == Size(a) = 0 \/ ~NamedBy(node, First(a))

\* The phases have left the node's front as it was: it may have errors, but
\* they will not be thrown, unless the phase itself throws.
Foreign(node, s) ==
  /\ s.act # "subs"
  /\ s.act \in {"valid", "error"} => NotInFront(node, s.a)
  /\ s.act = "throw" => s.code = "length_error"

LEMMA ActsForeign ==
  ASSUME NEW A, NEW ids, NEW node, NEW s \in States(A, ids), NotInFront(node, s.a)
  PROVE  /\ Foreign(node, Valid(s)) /\ Foreign(node, SkipNode(s))
         /\ \A code : Foreign(node, Error(s, code))
         /\ Foreign(node, Throw(s, "length_error"))
         /\ \A b : NotInFront(node, b) => Foreign(node, Valid([s EXCEPT !.a = b]))
  BY DEF Foreign, Valid, SkipNode, Error, Throw, States

LEMMA PhaseForeign ==
  ASSUME NEW A, NEW ids, NEW node, NEW policy, NEW s \in States(A, ids), Foreign(node, s),
         NEW t \in States(A, ids), ~Ended(s) => Foreign(node, t)
  PROVE  Foreign(node, After(s, policy, node, t))
<1>1. s.act # "subs" => KeepSubs(s, t) = t
  <2>1. t = [t EXCEPT !.act = t.act]
    BY DEF States
  <2> QED
    BY <2>1 DEF KeepSubs
<1>2. s.act # "subs"
  BY DEF Foreign
<1> QED
  BY <1>1, <1>2 DEF After, Ended

\* Claiming tokens
LEMMA TransferForeign ==
  ASSUME NEW A, NEW node, NEW a \in Adapters(A), NotInFront(node, a), NEW it \in Int
  PROVE  NotInFront(node, Transfer(a, it))
<1>1. CASE Size(a) = 0
  <2>1. Size(Transfer(a, it)) = 0
    BY <1>1, TransferTyped
  <2> QED
    BY <2>1 DEF NotInFront
<1>2. CASE Size(a) # 0
  BY <1>2, FirstKept DEF NotInFront
<1> QED
  BY <1>1, <1>2

\* value_separator takes the name at the front of the word.
LEMMA ValueSeparatorForeign ==
  ASSUME NEW A, NEW ids, NEW node, Named(node), NEW s \in States(A, ids), NotInFront(node, s.a)
  PROVE  Foreign(node, ValueSeparator(node, s))
<1> DEFINE first == First(s.a)
           at    == SelectInSeq(first.name, LAMBDA atom : atom = Separator)
           value == SubSeq(first.name, at + 1, Len(first.name))
           label == SubSeq(first.name, 1, at - 1)
           asked == IF first.pre = "none" THEN GetTokenType(first.name) ELSE first
           b     == Insert(s.a, 1, <<Token("none", value)>>)
           c     == SetAt(b, 0, Token(first.pre, label))
<1>1. s.a \in Adapters(A)
  BY DEF States
<1>2. /\ Foreign(node, Valid(s)) /\ Foreign(node, SkipNode(s))
      /\ Foreign(node, Error(s, "missing_value_separator"))
  BY ActsForeign
<1>3. CASE IsEmpty(s.a) \/ at = 0
  BY <1>2, <1>3 DEF ValueSeparator
<1>4. CASE ~IsEmpty(s.a) /\ at # 0
  <2>1. first \in Toks(A) /\ Size(s.a) # 0
    BY <1>1, <1>4, FirstTyped DEF IsEmpty
  <2>2. ~NamedBy(node, first)
    BY <2>1 DEF NotInFront
  <2> HIDE DEF first
  <2>3. first.name \in Seq(A) /\ Len(first.name) \in Nat /\ first.pre \in {"none", "short", "long"}
    BY <2>1 DEF Toks
  <2>4. at \in 1 .. Len(first.name)
    <3> DEFINE I == {k \in 1 .. Len(first.name) : first.name[k] = Separator}
    <3>1. at = IF I # {} THEN Min(I) ELSE 0
      BY DEF SelectInSeq
    <3>2. I \in SUBSET Nat
      OBVIOUS
    <3> QED
      BY <1>4, <3>1, <3>2, MinIn
  <2> HIDE DEF at
  <2>5. at + 1 \in Nat /\ at + 1 >= 1 /\ at - 1 \in 0 .. Len(first.name) /\ at - 1 \in Nat
    BY <2>3, <2>4
  <2>6. value \in Seq(A) /\ label \in Seq(A)
    BY <2>3, <2>5, TextPart
  <2>7. Token("none", value) \in Toks(A) /\ Token(first.pre, label) \in Toks(A)
    BY <2>3, <2>6 DEF Toks, Token
  <2>8. b \in Adapters(A) /\ Size(b) # 0
    BY <1>1, <2>1, <2>7, InsertTyped
  <2> HIDE DEF b, value
  <2>9. First(c) = Token(first.pre, label)
    BY <2>7, <2>8, SetAtTyped
  <2>10. ~NamedBy(node, Token(first.pre, label))
    <3>1. first = Token(first.pre, first.name)
      BY <2>1 DEF Toks, Token
    <3>2. ~NamedBy(node, Token(first.pre, first.name))
      BY <2>2, <3>1
    <3> QED
      BY <2>3, <2>5, <3>2, CutNames DEF label
  <2> HIDE DEF c, label
  <2>11. Foreign(node, Valid([s EXCEPT !.a = c]))
    BY <2>9, <2>10, ActsForeign DEF NotInFront
  <2>12. ValueSeparator(node, s) \in {SkipNode(s), Valid([s EXCEPT !.a = c])}
    BY <1>4 DEF ValueSeparator, first, at, value, label, b, c
  <2> QED
    BY <1>2, <2>11, <2>12
<1> QED
  BY <1>3, <1>4

\* short_form_expander takes the first letter of the flags.
LEMMA ShortFormExpanderForeign ==
  ASSUME NEW A, NEW ids, NEW node, Named(node), NEW s \in States(A, ids), NotInFront(node, s.a)
  PROVE  Foreign(node, ShortFormExpander(node, s))
<1> DEFINE first   == AsLabelOf(node, First(s.a))
           k       == Smaller(1, Len(first.name))
           label   == Token("short", SubSeq(first.name, 1, k))
           left    == Leave(Transfer(s.a, 0), Rest(first.name))
           a       == SetAt(left, 0, label)
<1>1. s.a \in Adapters(A)
  BY DEF States
<1>2. Foreign(node, Valid(s)) /\ Foreign(node, Throw(s, "length_error"))
  BY ActsForeign
<1>3. CASE IsEmpty(s.a) \/ first.pre # "short"
  BY <1>2, <1>3 DEF ShortFormExpander
<1>4. CASE ~IsEmpty(s.a) /\ first.pre = "short"
  <2>1. First(s.a) \in Toks(A) /\ first \in Toks(A) /\ Size(s.a) # 0
    BY <1>1, <1>4, FirstTyped, LabelTyped DEF IsEmpty
  <2>2. ~(HasShort(node) /\ IsPrefix(node.short, first.name))
    BY <1>4, <2>1 DEF NamedBy, NotInFront
  <2> HIDE DEF first
  <2>3. first.name \in Seq(A) /\ k \in 0 .. Len(first.name)
    BY <2>1 DEF Toks, Smaller
  <2>4. label \in Toks(A)
    <3>1. SubSeq(first.name, 1, k) \in Seq(A)
      BY <2>3
    <3> QED
      BY <3>1 DEF Token, Toks
  <2>5. ~NamedBy(node, label)
    <3>1. node.short \in Texts
      BY DEF Named
    <3>2. ~(HasShort(node) /\ IsPrefix(node.short, SubSeq(first.name, 1, k)))
      BY <2>2, <2>3, <3>1, PrefixFacts DEF Texts
    <3>3. label.pre = "short" /\ label.name = SubSeq(first.name, 1, k)
      BY DEF Token
    <3> HIDE DEF label
    <3> QED
      BY <3>2, <3>3 DEF NamedBy, AsLabelOf
  <2> HIDE DEF label, k
  <2>6. left \in Adapters(A) /\ Size(left) # 0
    BY <1>1, <2>1, <2>3, LeaveTyped
  <2> HIDE DEF left
  <2>7. First(a) = label
    BY <2>4, <2>6, SetAtTyped
  <2> HIDE DEF a
  <2>8. Foreign(node, Valid([s EXCEPT !.a = a]))
    BY <2>5, <2>7, ActsForeign DEF NotInFront
  <2>9. ShortFormExpander(node, s) \in {Valid(s), Throw(s, "length_error"), Valid([s EXCEPT !.a = a])}
    BY <1>4 DEF ShortFormExpander, first, k, label, left, a
  <2> QED
    BY <1>2, <2>8, <2>9
<1> QED
  BY <1>3, <1>4

\* token_end_marker looks behind the label.
LEMMA TokenEndMarkerForeign ==
  ASSUME NEW A, NEW ids, NEW node, IsNamed(node), NEW s \in States(A, ids), NotInFront(node, s.a)
  PROVE  Foreign(node, TokenEndMarker(node, s))
<1>1. s.a \in Adapters(A)
  BY DEF States
<1>2. PICK it \in Nat :
        /\ TokenEndMarker(node, s) = Valid([s EXCEPT !.a = Erase(Transfer(s.a, it), it)])
        /\ Size(s.a) # 0 => it >= NamedOffset(node)
  BY MarkErases
<1> DEFINE b == Transfer(s.a, it)
           c == Erase(b, it)
<1>3. b \in Adapters(A) /\ Size(b) = Size(s.a) /\ NotInFront(node, b)
  BY <1>1, TransferTyped, TransferForeign
<1> HIDE DEF b
<1>4. CASE Size(b) = 0
  <2>1. c = b
    BY <1>4 DEF Erase, IsEnd
  <2> QED
    BY <1>2, <1>3, <2>1, ActsForeign DEF b
<1>5. CASE Size(b) # 0
  <2>1. it # 0
    BY <1>2, <1>3, <1>5 DEF NamedOffset
  <2>2. First(c) = First(b)
    BY <1>3, <1>5, <2>1, EraseTyped
  <2>3. NotInFront(node, c)
    BY <1>3, <1>5, <2>2 DEF NotInFront
  <2> HIDE DEF c
  <2> QED
    BY <1>2, <2>3, ActsForeign DEF b, c
<1> QED
  BY <1>4, <1>5

LEMMA MinMaxCountForeign ==
  ASSUME NEW A, NEW ids, NEW node, Parameters(node), NEW s \in States(A, ids), NotInFront(node, s.a)
  PROVE  Foreign(node, MinMaxCount(node, s))
<1>1. s.a \in Adapters(A)
  BY DEF States
<1>2. \/ MinMaxCount(node, s) = Error(s, "maximum_count_exceeded")
      \/ MinMaxCount(node, s) = Error(s, "minimum_count_not_reached")
      \/ \E it \in Int : MinMaxCount(node, s) = Valid([s EXCEPT !.a = Transfer(s.a, it)])
  BY CountTransfers
<1>3. \A code : Foreign(node, Error(s, code))
  BY ActsForeign
<1>4. \A it \in Int : Foreign(node, Valid([s EXCEPT !.a = Transfer(s.a, it)]))
  BY <1>1, TransferForeign, ActsForeign
<1> QED
  BY Zenon, <1>2, <1>3, <1>4

\* An alias takes the words only if the first one is its label.
LEMMA AliasForeign ==
  ASSUME NEW A, NEW ids, NEW node, Named(node), NEW children, NEW s \in States(A, ids),
         Parameters(node), NotInFront(node, s.a)
  PROVE  Foreign(node, Alias(node, children, s))
<1>1. s.a \in Adapters(A)
  BY DEF States
<1>2. /\ Foreign(node, SkipNode(s)) /\ Foreign(node, Error(s, "too_few_values_for_alias"))
  BY ActsForeign
<1>3. CASE node.max + 1 > Size(s.a)
  BY <1>2, <1>3 DEF Alias
<1>4. CASE ~(node.max + 1 > Size(s.a))
  <2>1. Size(s.a) # 0
    BY <1>4 DEF Parameters
  <2>2. ~Match(node, AsLabelOf(node, First(s.a)))
    BY <1>1, <2>1, FirstTyped, MatchNames DEF NotInFront
  <2>3. Alias(node, children, s) = SkipNode(s)
    <3>1. Size(s.a) \in Nat /\ node.max + 1 <= Size(s.a)
      BY <1>1, <1>4, <2>1, SizePositive DEF Parameters
    <3> QED
      BY <1>4, <2>2, <3>1 DEF Alias
  <2> QED
    BY <1>2, <2>3
<1> QED
  BY <1>3, <1>4

\* What a named node makes of a line whose first word does not name it:
\* nothing, unless a phase throws.
LEMMA NotNamed ==
  ASSUME NEW A, NEW nodes, \A n \in nodes : n.children \in Seq(nodes),
         NEW children \in Seq(nodes), NEW node, Parameters(node), Named(node), IsNamed(node),
         NEW done, NEW args0 \in Seq(Words(A)), NEW verdict,
         args0 # <<>> => ~NamedBy(node, Head(args0))
  PROVE  LET o == PreParseLeaf(node, children, done, args0, verdict)
         IN  o.kind = "none" \/ (o.kind = "error" /\ o.code = "length_error")
<1> DEFINE ids == Settable(node, children)
           s0 == Begin(args0)
           s1 == Split1(node, s0)
           s2 == Expand1(node, s1)
           s3 == Enable1(node, s2)
           s4 == Mark1(node, s3)
           s5 == Count1(node, s4)
           s6 == Alias1(node, children, s5)
           s7 == Depend1(node, done, s6)
<1>1. s0 \in States(A, ids) /\ Foreign(node, s0)
  <2>1. s0 \in States(A, ids)
    BY DEF States, Adapters, Codes, Begin
  <2>2. Size(s0.a) = Len(args0) /\ (args0 # <<>> => First(s0.a) = Head(args0))
    BY DEF Begin, Size, First, At
  <2>3. s0.act = "valid" /\ Len(args0) \in Nat /\ (Len(args0) # 0 => args0 # <<>>)
    BY DEF Begin
  <2> QED
    BY <2>1, <2>2, <2>3 DEF Foreign, NotInFront
<1> HIDE DEF s0
<1>2. ASSUME NEW s \in States(A, ids), Foreign(node, s)
      PROVE  /\ Split1(node, s) \in States(A, ids) /\ Foreign(node, Split1(node, s))
             /\ Expand1(node, s) \in States(A, ids) /\ Foreign(node, Expand1(node, s))
             /\ Enable1(node, s) \in States(A, ids) /\ Foreign(node, Enable1(node, s))
             /\ Mark1(node, s) \in States(A, ids) /\ Foreign(node, Mark1(node, s))
             /\ Count1(node, s) \in States(A, ids) /\ Foreign(node, Count1(node, s))
             /\ Alias1(node, children, s) \in States(A, ids) /\ Foreign(node, Alias1(node, children, s))
             /\ Depend1(node, done, s) \in States(A, ids) /\ Foreign(node, Depend1(node, done, s))
  <2>1. Alias(node, children, s) \in States(A, ids)
    BY AliasTyped
  <2> HIDE DEF ids
  <2>2. /\ ValueSeparator(node, s) \in States(A, ids)
        /\ ShortFormExpander(node, s) \in States(A, ids)
        /\ RuntimeEnable(node, s) \in States(A, ids)
        /\ TokenEndMarker(node, s) \in States(A, ids)
        /\ MinMaxCount(node, s) \in States(A, ids)
        /\ Dependent(node, done, s) \in States(A, ids)
    BY ValueSeparatorTyped, ShortFormExpanderTyped, RuntimeEnableTyped, TokenEndMarkerTyped,
       MinMaxCountTyped, DependentTyped
  <2>3. ASSUME ~Ended(s)
        PROVE  /\ Foreign(node, ValueSeparator(node, s))
               /\ Foreign(node, ShortFormExpander(node, s))
               /\ Foreign(node, RuntimeEnable(node, s))
               /\ Foreign(node, TokenEndMarker(node, s))
               /\ Foreign(node, MinMaxCount(node, s))
               /\ Foreign(node, Alias(node, children, s))
               /\ Foreign(node, Dependent(node, done, s))
    <3>1. NotInFront(node, s.a)
      BY <1>2, <2>3 DEF Foreign, Ended, States
    <3>2. Foreign(node, RuntimeEnable(node, s)) /\ Foreign(node, Dependent(node, done, s))
      BY <3>1, ActsForeign DEF RuntimeEnable, Dependent
    <3> QED
      BY <3>1, <3>2, ValueSeparatorForeign, ShortFormExpanderForeign, TokenEndMarkerForeign,
         MinMaxCountForeign, AliasForeign
  <2>4. \A policy, t : t \in States(A, ids) /\ (~Ended(s) => Foreign(node, t)) =>
           After(s, policy, node, t) \in States(A, ids) /\ Foreign(node, After(s, policy, node, t))
    BY <1>2, PhaseTyped, PhaseForeign
  <2> QED
    BY ONLY <2>1, <2>2, <2>3, <2>4 DEF Split1, Expand1, Enable1, Mark1, Count1, Alias1, Depend1
<1> HIDE DEF ids
<1>3. s7 \in States(A, ids) /\ Foreign(node, s7)
  BY <1>1, <1>2
<1>4. PreParseLeaf(node, children, done, args0, verdict) = Settle(node, s7, verdict)
  BY LeafSettles DEF Final, Counted, s0
<1> HIDE DEF s7
<1> DEFINE o == Settle(node, s7, verdict)
<1>5. /\ s7.act = "throw" => o = Outcome("error", s7.code, <<>>, <<>>, FALSE)
      /\ s7.act # "throw" /\ (s7.act = "skip" \/ ~LabelMatches(node, s7)) => o = NotThisNode
  BY DEF Settle
<1>8. NotThisNode.kind = "none"
      /\ \A code : Outcome("error", code, <<>>, <<>>, FALSE).kind = "error"
                  /\ Outcome("error", code, <<>>, <<>>, FALSE).code = code
  BY DEF Outcome, NotThisNode
<1> HIDE DEF o
<1>9. s7.act \in {"throw", "skip"} => o.kind = "none" \/ (o.kind = "error" /\ o.code = "length_error")
  BY <1>3, <1>5, <1>8 DEF Foreign
<1>6. CASE s7.act \in {"valid", "error"}
  <2> DEFINE a == WithLabelClaimed(node, s7)
  <2>1. s7.a \in Adapters(A) /\ NotInFront(node, s7.a)
    BY <1>3, <1>6 DEF Foreign, States
  <2>2. a \in Adapters(A) /\ NotInFront(node, a)
    BY <2>1, TransferTyped, TransferForeign DEF WithLabelClaimed
  <2> HIDE DEF a
  <2>3. PICK p \in Seq(Toks(A)), u \in Seq(Words(A)) :
          /\ a = [p |-> p, u |-> u] /\ Size(a) = Len(p) + Len(u) /\ Len(p) \in Nat /\ Len(u) \in Nat
    BY <2>2, AdapterParts
  <2>4. ~(a.p # <<>> /\ Match(node, AsLabelOf(node, Head(a.p))))
    <3> SUFFICES ASSUME p # <<>>, Match(node, AsLabelOf(node, Head(p))) PROVE FALSE
      BY <2>3
    <3>1. First(a) = Head(p) /\ Head(p) \in Toks(A) /\ Size(a) # 0
      BY <2>3 DEF First, At
    <3> QED
      BY <2>2, <3>1, MatchNames DEF NotInFront
  <2>5. ~LabelMatches(node, s7)
    BY <1>6, <2>4 DEF LabelMatches, a
  <2> QED
    BY <1>4, <1>5, <1>6, <1>8, <2>5 DEF o
<1>7. s7.act # "subs" /\ s7.act \in {"valid", "skip", "subs", "error", "throw"}
  BY <1>3 DEF Foreign, States
<1> QED
  BY <1>4, <1>6, <1>7, <1>9 DEF o
-----------------------------------------------------------------------------
\* Errors

\* The error of a policy, with which a leaf of the child ends the attempt, is
\* of a leaf that the first word names, or that has no name.
LEMMA PolicyErrorIsOwn ==
  ASSUME NEW A, NEW nodes, TreesOf(nodes, A), LeavesInGroups(nodes), Typing(nodes, A),
         i <= Len(Children), Child.kind # "mode", NEW n \in Leaves(Child), NEW done, NEW verdict,
         NEW o, o = PreParseLeaf(n, Children, done, args, verdict), o.kind = "error",
         o.code \in PolicyErrors
  PROVE  /\ n \in Tried
         /\ IsNamed(n) => args # <<>> /\ NamedBy(n, Head(args))
<1>1. /\ Children \in Seq(nodes) /\ Child \in nodes /\ \A m \in nodes : m.children \in Seq(nodes)
      /\ args \in Seq(Words(A)) /\ ToSet(Nodes(<<Child>>)) = {Child} \cup ToSet(Child.children)
  BY ChildrenTyped, NodesOfOne DEF TreesOf, Typing
<1>2. n \in {Child} \cup ToSet(Child.children) /\ n \in nodes
  BY <1>1 DEF Leaves, ToSet
<1>3. n \in Tried
  <2>1. n.kind \in {"leaf", "flag"}
    BY <1>1 DEF Leaves, LeavesInGroups
  <2> QED
    BY <1>1, <1>2, <2>1 DEF Tried
<1>4. ASSUME IsNamed(n), args # <<>> => ~NamedBy(n, Head(args)) PROVE FALSE
  <2>1. Parameters(n) /\ Named(n)
    BY <1>2 DEF Parameters, Named, TreesOf, LeavesInGroups, Texts
  <2>2. o.kind = "none" \/ (o.kind = "error" /\ o.code = "length_error")
    BY <1>1, <1>4, <2>1, NotNamed
  <2> QED
    BY <2>2 DEF PolicyErrors
<1> QED
  BY <1>3, <1>4

\* A call that runs has not failed; an error that ended one is of its node.
OwnSoFar == (phase # "idle" => thrown = "") /\ OwnErrors

LEMMA OwnSoFarStep ==
  ASSUME NEW nodes, NEW A, TreesOf(nodes, A), LeavesInGroups(nodes)
  PROVE  Typing(nodes, A) /\ OwnSoFar /\ [Next]_vars => OwnSoFar'
<1> SUFFICES ASSUME Typing(nodes, A), OwnSoFar, [Next]_vars PROVE OwnSoFar'
  OBVIOUS
<1>1. "" \notin PolicyErrors
  BY DEF PolicyErrors
<1>2. ASSUME phase # "idle", UNCHANGED thrown PROVE OwnSoFar'
  BY <1>1, <1>2 DEF OwnSoFar, OwnErrors
<1>3. ASSUME NEW code, Fail(code), code \notin PolicyErrors PROVE OwnSoFar'
  BY <1>3 DEF OwnSoFar, OwnErrors, Fail
<1>4. ASSUME NEW n \in Leaves(Child), NEW done, NEW verdict, NEW o, o.kind = "error",
             o = PreParseLeaf(n, Children, done, args, verdict), Fail(o.code),
             i <= Len(Children), Child.kind # "mode"
      PROVE  OwnSoFar'
  <2>1. CASE o.code \notin PolicyErrors
    BY <1>3, <1>4, <2>1
  <2>2. CASE o.code \in PolicyErrors
    <3>1. n \in Tried /\ (IsNamed(n) => args # <<>> /\ NamedBy(n, Head(args)))
      BY <1>4, <2>2, PolicyErrorIsOwn
    <3>2. phase' = "idle" /\ UNCHANGED <<tree, args, i, path>>
      BY <1>4 DEF Fail
    <3>3. Tried' = Tried
      BY <3>2 DEF Tried, Child, Children, Mode
    <3>4. \E m \in Tried' : IsNamed(m) => args' # <<>> /\ NamedBy(m, Head(args'))
      BY <3>1, <3>2, <3>3
    <3> QED
      BY <3>2, <3>4 DEF OwnSoFar, OwnErrors
  <2> QED
    BY <2>1, <2>2
<1>5. CASE RootLeaf
  <2>1. i <= Len(Children) /\ Child.kind # "mode" /\ phase = "root"
    BY <1>5 DEF RootLeaf
  <2>2. PICK o : /\ o = PreParseLeaf(Child, Children, {}, args, "accept")
                 /\ \/ UNCHANGED thrown
                    \/ o.kind = "error" /\ Fail(o.code)
                    \/ Fail("unhandled_arguments")
    BY <1>5 DEF RootLeaf, NextChild
  <2>3. CASE o.kind = "error" /\ Fail(o.code)
    <3>1. Child \in ToSet(tree.children) /\ tree \in Trees
      <4>1. path = <<>>
        BY <2>1 DEF Typing
      <4> QED
        BY <2>1, <4>1, ChildrenTyped DEF Typing, Children
    <3>2. Child \in Leaves(Child)
      BY <3>1 DEF LeavesInGroups, Leaves
    <3> QED
      BY <1>4, <2>1, <2>2, <2>3, <3>2
  <2>4. "unhandled_arguments" \notin PolicyErrors
    BY DEF PolicyErrors
  <2> QED
    BY <1>2, <1>3, <2>1, <2>2, <2>3, <2>4
<1>6. CASE TryChild
  <2>1. i <= Len(Children) /\ phase = "loop"
    BY <1>6 DEF TryChild
  <2>2. CASE Child.kind = "mode"
    BY <1>2, <1>6, <2>1, <2>2 DEF TryChild, NextChild
  <2>3. CASE Child.kind # "mode"
    <3>1. PICK r : /\ r = PreParse(Child, Children, Done, args, Selected(Child.id), i \in matched)
                   /\ \/ UNCHANGED thrown
                      \/ r.o.kind = "error" /\ Fail(r.o.code)
      BY <1>6, <2>3 DEF TryChild, NextChild
    <3>2. CASE r.o.kind = "error" /\ Fail(r.o.code)
      <4>1. Child.children \in Seq(nodes)
        BY <2>1, ChildrenTyped DEF TreesOf
      <4>0. PICK n \in Leaves(Child) :
              \E verdict : r.o = PreParseLeaf(n, Children, Done, args, verdict)
        BY <3>1, <3>2, <4>1, PreParseTries
      <4>2. PICK verdict : r.o = PreParseLeaf(n, Children, Done, args, verdict)
        BY <4>0
      <4> QED
        BY <1>4, <2>1, <2>3, <3>2, <4>2
    <3> QED
      BY <1>2, <2>1, <3>1, <3>2
  <2> QED
    BY <2>2, <2>3
<1>7. CASE RootMode \/ SubMode \/ NoSubMode \/ LoopEnd \/ RunEnd \/ MissingEnd
  <2>1. phase # "idle" /\ UNCHANGED thrown
    BY <1>7 DEF RootMode, SubMode, NoSubMode, LoopEnd, RunEnd, MissingEnd, Enter, NextChild
  <2> QED
    BY <1>2, <2>1
<1>8. CASE RootUnknown \/ NoChild
  <2>1. {"no_arguments_passed", "unknown_argument", "unhandled_arguments"} \cap PolicyErrors = {}
    BY DEF PolicyErrors
  <2> QED
    BY <1>3, <1>8, <2>1 DEF RootUnknown, NoChild
<1>9. \A node, list : Validation(node, list) \notin PolicyErrors
  BY DEF Validation, PolicyErrors
<1>10. \A node, target : ParseError(node, target) \notin PolicyErrors
  BY <1>9 DEF ParseError, PolicyErrors
<1>11. CASE RunTarget
  <2>1. "argument_has_already_been_set" \notin PolicyErrors
    BY DEF PolicyErrors
  <2>2. \/ phase # "idle" /\ UNCHANGED thrown
        \/ \E code : Fail(code) /\ code \notin PolicyErrors
    BY <1>10, <1>11, <2>1 DEF RunTarget
  <2> QED
    BY <1>2, <1>3, <2>2
<1>12. CASE Missing
  <2>1. MissingError(Child) \notin PolicyErrors
    BY DEF MissingError, PolicyErrors
  <2>2. \/ phase # "idle" /\ UNCHANGED thrown
        \/ \E code : Fail(code) /\ code \notin PolicyErrors
    BY <1>9, <1>12, <2>1 DEF Missing, NextChild, CheckedDefault
  <2> QED
    BY <1>2, <1>3, <2>2
<1>13. CASE StageValidation
  <2>1. \/ phase # "idle" /\ UNCHANGED thrown
        \/ \E code : Fail(code) /\ code \notin PolicyErrors
    BY <1>1, <1>9, <1>13 DEF StageValidation, NextChild
  <2> QED
    BY <1>2, <1>3, <2>1
<1>14. CASE Route \/ RouteLeaf
  <2>1. "mode_requires_arguments" \notin PolicyErrors
    BY DEF PolicyErrors
  <2>2. \/ phase # "idle" /\ UNCHANGED thrown
        \/ \E code : Fail(code) /\ code \notin PolicyErrors
    BY <1>10, <1>14, <2>1 DEF Route, RouteLeaf, Finish
  <2> QED
    BY <1>2, <1>3, <2>2
<1>15. ASSUME NEW words, Call(words) PROVE OwnSoFar'
  BY <1>1, <1>15 DEF Call, OwnSoFar, OwnErrors
<1>16. CASE UNCHANGED vars
  <2>1. UNCHANGED <<phase, thrown, tree, args, i, path>>
    BY <1>16 DEF vars
  <2>2. Tried' = Tried
    BY <2>1 DEF Tried, Child, Children, Mode
  <2> QED
    BY <2>1, <2>2 DEF OwnSoFar, OwnErrors
<1> QED
  BY <1>5, <1>6, <1>7, <1>8, <1>11, <1>12, <1>13, <1>14, <1>15, <1>16 DEF Next, Step

\* The error of a named node's policy ends the call only if the front word is a
\* label of that node: the policies run before the name is looked at, and what
\* they make of another node's word is dropped (tree_node.hpp:567-612).
THEOREM ErrorsAreOwn ==
  ASSUME NEW nodes, NEW A, TreesOf(nodes, A), LeavesInGroups(nodes)
  PROVE  Spec => []OwnErrors
<1>1. Init => OwnSoFar
  BY DEF Init, OwnSoFar, OwnErrors, PolicyErrors
<1>2. Typing(nodes, A) /\ OwnSoFar /\ [Next]_vars => OwnSoFar'
  BY OwnSoFarStep
<1>3. OwnSoFar => OwnErrors
  BY DEF OwnSoFar
<1> QED
  BY <1>1, <1>2, <1>3, TypingHolds, PTL DEF Spec
-----------------------------------------------------------------------------
\* What a match says of its node

Ids(ts) == {ts[k].node : k \in DOMAIN ts}

\* Only alias collects sub-targets.
LEMMA SubsKept ==
  ASSUME NEW A, NEW ids, NEW node, Parameters(node), NEW s \in States(A, ids)
  PROVE  /\ ValueSeparator(node, s).subs = s.subs
         /\ ShortFormExpander(node, s).subs = s.subs
         /\ RuntimeEnable(node, s).subs = s.subs
         /\ TokenEndMarker(node, s).subs = s.subs
         /\ MinMaxCount(node, s).subs = s.subs
         /\ \A done : Dependent(node, done, s).subs = s.subs
<1>1. /\ Valid(s).subs = s.subs /\ SkipNode(s).subs = s.subs
      /\ \A code : Error(s, code).subs = s.subs /\ Throw(s, code).subs = s.subs
      /\ \A b : Valid([s EXCEPT !.a = b]).subs = s.subs
  BY DEF Valid, SkipNode, Error, Throw, States
<1>2. ValueSeparator(node, s).subs = s.subs
  <2>1. \/ ValueSeparator(node, s) \in {Valid(s), SkipNode(s), Error(s, "missing_value_separator")}
        \/ \E b : ValueSeparator(node, s) = Valid([s EXCEPT !.a = b])
    <3> DEFINE first == First(s.a)
               at    == SelectInSeq(first.name, LAMBDA atom : atom = Separator)
               value == SubSeq(first.name, at + 1, Len(first.name))
               label == SubSeq(first.name, 1, at - 1)
               c     == SetAt(Insert(s.a, 1, <<Token("none", value)>>), 0, Token(first.pre, label))
    <3>1. ValueSeparator(node, s) \in {Valid(s), SkipNode(s), Error(s, "missing_value_separator"),
                                       Valid([s EXCEPT !.a = c])}
      BY DEF ValueSeparator
    <3> HIDE DEF c
    <3> QED
      BY Zenon, <3>1
  <2> QED
    BY <1>1, <2>1
<1>3. ShortFormExpander(node, s).subs = s.subs
  <2>1. \/ ShortFormExpander(node, s) \in {Valid(s), Throw(s, "length_error")}
        \/ \E b : ShortFormExpander(node, s) = Valid([s EXCEPT !.a = b])
    <3> DEFINE first == AsLabelOf(node, First(s.a))
               label == Token("short", SubSeq(first.name, 1, Smaller(1, Len(first.name))))
               c     == SetAt(Leave(Transfer(s.a, 0), Rest(first.name)), 0, label)
    <3>1. ShortFormExpander(node, s) \in {Valid(s), Throw(s, "length_error"), Valid([s EXCEPT !.a = c])}
      BY DEF ShortFormExpander
    <3> HIDE DEF c
    <3> QED
      BY Zenon, <3>1
  <2> QED
    BY <1>1, <2>1
<1>4. RuntimeEnable(node, s).subs = s.subs /\ \A done : Dependent(node, done, s).subs = s.subs
  BY <1>1 DEF RuntimeEnable, Dependent
<1>5. TokenEndMarker(node, s).subs = s.subs
  <2>1. \E b : TokenEndMarker(node, s) = Valid([s EXCEPT !.a = b])
    <3>1. PICK it \in Nat : TokenEndMarker(node, s) = Valid([s EXCEPT !.a = Erase(Transfer(s.a, it), it)])
      BY MarkErases
    <3> QED
      BY Zenon, <3>1
  <2> QED
    BY <1>1, <2>1
<1>6. MinMaxCount(node, s).subs = s.subs
  <2>1. \/ MinMaxCount(node, s) = Error(s, "maximum_count_exceeded")
        \/ MinMaxCount(node, s) = Error(s, "minimum_count_not_reached")
        \/ \E b : MinMaxCount(node, s) = Valid([s EXCEPT !.a = b])
    <3>1. \/ MinMaxCount(node, s) = Error(s, "maximum_count_exceeded")
          \/ MinMaxCount(node, s) = Error(s, "minimum_count_not_reached")
          \/ \E it \in Int : MinMaxCount(node, s) = Valid([s EXCEPT !.a = Transfer(s.a, it)])
      BY CountTransfers
    <3> QED
      BY Zenon, <3>1
  <2> QED
    BY <1>1, <2>1
<1> QED
  BY <1>2, <1>3, <1>4, <1>5, <1>6

LEMMA PhaseKeepsSubs ==
  ASSUME NEW A, NEW ids, NEW node, NEW policy, NEW s \in States(A, ids), NEW t \in States(A, ids),
         t.subs = s.subs
  PROVE  After(s, policy, node, t).subs = s.subs
  BY DEF After, KeepSubs, States

\* The states before alias hold no sub-targets.
LEMMA CountedTyped ==
  ASSUME NEW A, NEW ids, NEW node, Parameters(node), NEW args0 \in Seq(Words(A))
  PROVE  Counted(node, args0) \in States(A, ids) /\ Counted(node, args0).subs = <<>>
<1>1. Begin(args0) \in States(A, ids) /\ Begin(args0).subs = <<>>
  BY DEF States, Adapters, Codes, Begin
<1>2. ASSUME NEW s \in States(A, ids), s.subs = <<>>
      PROVE  /\ Split1(node, s) \in States(A, ids) /\ Split1(node, s).subs = <<>>
             /\ Expand1(node, s) \in States(A, ids) /\ Expand1(node, s).subs = <<>>
             /\ Enable1(node, s) \in States(A, ids) /\ Enable1(node, s).subs = <<>>
             /\ Mark1(node, s) \in States(A, ids) /\ Mark1(node, s).subs = <<>>
             /\ Count1(node, s) \in States(A, ids) /\ Count1(node, s).subs = <<>>
  <2>1. /\ ValueSeparator(node, s) \in States(A, ids) /\ ShortFormExpander(node, s) \in States(A, ids)
        /\ RuntimeEnable(node, s) \in States(A, ids) /\ TokenEndMarker(node, s) \in States(A, ids)
        /\ MinMaxCount(node, s) \in States(A, ids)
    BY ValueSeparatorTyped, ShortFormExpanderTyped, RuntimeEnableTyped, TokenEndMarkerTyped,
       MinMaxCountTyped
  <2> QED
    BY <1>2, <2>1, SubsKept, PhaseTyped, PhaseKeepsSubs DEF Split1, Expand1, Enable1, Mark1, Count1
<1> QED
  BY <1>1, <1>2 DEF Counted

\* The nodes an alias makes targets of
LEMMA AliasIds ==
  ASSUME NEW nodes, \A n \in nodes : n.children \in Seq(nodes), NEW children \in Seq(nodes),
         NEW node, NEW tokens
  PROVE  \E T : /\ AliasTargets(node, children, tokens) \in Seq(T)
                /\ Ids(AliasTargets(node, children, tokens)) = node.alias \cap IdsOf(children)
                /\ \A t \in T : t.tokens = SubSeq(tokens, 2, node.max + 1)
<1> DEFINE values  == SubSeq(tokens, 2, node.max + 1)
           all     == Nodes(children)
           Of(n)   == IF n.id \in node.alias THEN <<Target(n.id, values)>> ELSE <<>>
           ss      == [k \in DOMAIN all |-> Of(all[k])]
           T       == {Target(n.id, values) : n \in nodes}
           ts      == AliasTargets(node, children, tokens)
<1>1. ts = FlattenSeq(ss)
  BY DEF AliasTargets
<1> HIDE DEF values, ts
<1>12. \A t \in T : t.tokens = values
  BY DEF Target
<1>2. all \in Seq(nodes) /\ DOMAIN all = 1 .. Len(all) /\ Len(all) \in Nat
      /\ \A k \in DOMAIN all : all[k] \in nodes
  BY NodesAre
<1> HIDE DEF all
<1>3. ASSUME NEW n \in nodes
      PROVE  /\ Of(n) \in Seq(T)
             /\ ToSet(Of(n)) = IF n.id \in node.alias THEN {Target(n.id, values)} ELSE {}
  <2>1. Target(n.id, values) \in T
    OBVIOUS
  <2> HIDE DEF T
  <2>2. CASE n.id \in node.alias
    <3> DEFINE x == Target(n.id, values)
    <3>1. Of(n) = <<x>>
      BY <2>2
    <3> HIDE DEF Of, x
    <3>2. <<x>> \in Seq(T) /\ ToSet(<<x>>) = {x}
      BY <2>1 DEF ToSet, x
    <3> QED
      BY <2>2, <3>1, <3>2 DEF x
  <2>3. CASE n.id \notin node.alias
    BY <2>3 DEF ToSet
  <2> QED
    BY <2>2, <2>3
<1> HIDE DEF Of, T
<1>4. ss \in Seq(Seq(T)) /\ DOMAIN ss = DOMAIN all /\ \A k \in DOMAIN all : ss[k] = Of(all[k])
  BY <1>2, <1>3
<1> HIDE DEF ss
<1>5. ts \in Seq(T) /\ ToSet(ts) = UNION {ToSet(ss[k]) : k \in DOMAIN ss}
  BY <1>1, <1>4, FlattenElements
<1>6. Ids(ts) = {t.node : t \in ToSet(ts)}
  BY DEF Ids, ToSet
<1>7. \A id : id \in Ids(ts) <=> \E k \in DOMAIN all : \E t \in ToSet(Of(all[k])) : t.node = id
  BY <1>4, <1>5, <1>6
<1>8. \A id : Target(id, values).node = id
  BY DEF Target
<1>9. \A id : id \in Ids(ts) <=> \E k \in DOMAIN all : all[k].id \in node.alias /\ all[k].id = id
  <2>1. ASSUME NEW k \in DOMAIN all, NEW id
        PROVE  (\E t \in ToSet(Of(all[k])) : t.node = id) <=> all[k].id \in node.alias /\ all[k].id = id
    <3>1. ToSet(Of(all[k])) = IF all[k].id \in node.alias THEN {Target(all[k].id, values)} ELSE {}
      BY <1>2, <1>3
    <3> QED
      BY <1>8, <3>1
  <2> QED
    BY <1>7, <2>1
<1>10. \A id : id \in IdsOf(children) <=> \E k \in DOMAIN all : all[k].id = id
  BY DEF IdsOf, ToSet, all
<1>11. Ids(ts) = node.alias \cap IdsOf(children)
  BY <1>9, <1>10
<1> QED
  BY <1>5, <1>11, <1>12 DEF ts, values

\* An alias that does not end the phases has collected those nodes' targets.
LEMMA AliasSubs ==
  ASSUME NEW A, NEW nodes, \A n \in nodes : n.children \in Seq(nodes), NEW children \in Seq(nodes),
         NEW node, NEW ids, NEW s \in States(A, ids), s.subs = <<>>, ~Ended(Alias(node, children, s))
  PROVE  /\ Alias(node, children, s).act = "subs"
         /\ Ids(Alias(node, children, s).subs) = node.alias \cap IdsOf(children)
<1> DEFINE claimed == Transfer(s.a, node.max)
           ts      == AliasTargets(node, children, claimed.p)
           rest    == Cut(claimed.p, 0, node.max + 1)
           b       == [claimed EXCEPT !.p = rest]
           t       == [s EXCEPT !.act = "subs", !.subs = @ \o ts, !.a = b]
<1>1. Alias(node, children, s) \in {Error(s, "too_few_values_for_alias"), SkipNode(s), t}
  BY DEF Alias
<1>2. PICK T : ts \in Seq(T) /\ Ids(ts) = node.alias \cap IdsOf(children)
  BY AliasIds
<1> HIDE DEF ts, b
<1>3. Ended(Error(s, "too_few_values_for_alias")) /\ Ended(SkipNode(s))
  BY DEF Ended, Error, SkipNode, States
<1>4. t.act = "subs" /\ t.subs = s.subs \o ts
  BY DEF States
<1>5. <<>> \o ts = ts
  BY <1>2
<1> HIDE DEF t
<1> QED
  BY <1>1, <1>2, <1>3, <1>4, <1>5

\* The tokens a match gives to its own node
OwnTokens(node, s) ==
  LET a == WithLabelClaimed(node, s)
  IN  IF IsNamed(node) /\ a.p # <<>> THEN Tail(a.p) ELSE a.p

\* What a match is made of: the state in which the phases end, the sub-targets
\* or the node's own one, and the rest of the line
LEMMA MatchSettles ==
  ASSUME NEW node, NEW s, NEW verdict, NEW o, o = Settle(node, s, verdict), o.kind = "match"
  PROVE  /\ s.act \notin {"throw", "skip", "error"} /\ verdict = "accept" /\ o.asked
         /\ LabelMatches(node, s)
         /\ o.args = WithLabelClaimed(node, s).u
         /\ o.targets = IF s.subs = <<>> THEN <<Target(node.id, OwnTokens(node, s))>> ELSE s.subs
<1> DEFINE a      == WithLabelClaimed(node, s)
           own    == <<Target(node.id, OwnTokens(node, s))>>
           ts     == IF s.subs = <<>> THEN own ELSE s.subs
           M      == Outcome("match", "", a.u, ts, TRUE)
<1>1. /\ \A code : /\ Outcome("none", code, <<>>, <<>>, TRUE).kind # "match"
                   /\ Outcome("error", code, <<>>, <<>>, TRUE).kind # "match"
                   /\ Outcome("error", code, <<>>, <<>>, FALSE).kind # "match"
      /\ NotThisNode.kind # "match"
      /\ \A x, y : LET m == Outcome("match", "", x, y, TRUE)
                   IN  m.asked /\ m.args = x /\ m.targets = y
  BY DEF Outcome, NotThisNode
<1>2. s.act # "throw" /\ ~(s.act = "skip" \/ ~LabelMatches(node, s))
  <2>1. CASE s.act = "throw"
    <3>1. o = Outcome("error", s.code, <<>>, <<>>, FALSE)
      BY <2>1 DEF Settle
    <3> QED
      BY <1>1, <3>1
  <2>2. CASE s.act # "throw" /\ (s.act = "skip" \/ ~LabelMatches(node, s))
    <3>1. o = NotThisNode
      BY <2>2 DEF Settle
    <3> QED
      BY <1>1, <3>1
  <2> QED
    BY <2>1, <2>2
<1>3. o = CASE verdict = "reject" -> Outcome("none", "", <<>>, <<>>, TRUE)
            [] verdict \notin {"accept", "reject"} -> Outcome("error", verdict, <<>>, <<>>, TRUE)
            [] verdict = "accept" /\ s.act = "error" -> Outcome("error", s.code, <<>>, <<>>, TRUE)
            [] OTHER -> M
  BY <1>2 DEF Settle, OwnTokens
<1> HIDE DEF M
<1>4. verdict = "accept" /\ s.act # "error" /\ o = M
  BY <1>1, <1>3
<1> HIDE DEF ts, a
<1>5. o.asked /\ o.args = a.u /\ o.targets = ts
  BY ONLY <1>1, <1>4 DEF M
<1> QED
  BY <1>2, <1>4, <1>5 DEF ts, a

\* A match was asked for and accepted, its node's dependencies are met, and its
\* targets are those of the nodes it stands for, or its own.
MatchOf(node, done, verdict, o) ==
  /\ verdict = "accept" /\ o.asked
  /\ "dependent" \in node.policies => node.depends \subseteq done
  /\ Sets(node) \subseteq Ids(o.targets)
  /\ "alias" \notin node.policies => \E values : o.targets = <<Target(node.id, values)>>
  /\ "alias" \in node.policies /\ node.alias # {} => Ids(o.targets) = node.alias

LEMMA MatchFacts ==
  ASSUME NEW A, NEW nodes, \A n \in nodes : n.children \in Seq(nodes),
         NEW children \in Seq(nodes), NEW node, Parameters(node), NEW done,
         NEW args0 \in Seq(Words(A)), NEW verdict, NEW o,
         o = PreParseLeaf(node, children, done, args0, verdict), o.kind = "match",
         "alias" \in node.policies => node.alias \subseteq IdsOf(children)
  PROVE  MatchOf(node, done, verdict, o)
<1> DEFINE ids == Settable(node, children)
           s5  == Counted(node, args0)
           s6  == Alias1(node, children, s5)
           s7  == Depend1(node, done, s6)
           own == <<Target(node.id, OwnTokens(node, s7))>>
<1>1. s5 \in States(A, ids) /\ s5.subs = <<>>
  BY CountedTyped
<1> HIDE DEF s5
<1>2. o = Settle(node, s7, verdict)
  BY LeafSettles DEF Final, s5
<1>3. s6 \in States(A, ids) /\ s7 \in States(A, ids)
  <2>1. Alias(node, children, s5) \in States(A, ids)
    BY <1>1, AliasTyped
  <2> HIDE DEF ids
  <2>2. s6 \in States(A, ids)
    BY <1>1, <2>1, PhaseTyped DEF Alias1
  <2> HIDE DEF s6
  <2>3. Dependent(node, done, s6) \in States(A, ids)
    BY <2>2, DependentTyped
  <2> QED
    BY <2>2, <2>3, PhaseTyped DEF Depend1
<1> HIDE DEF ids, s6, s7
<1> HIDE DEF own
<1>4. /\ s7.act \notin {"throw", "skip", "error"} /\ verdict = "accept" /\ o.asked
      /\ o.targets = IF s7.subs = <<>> THEN own ELSE s7.subs
  BY <1>2, MatchSettles DEF own
<1>6. ~Ended(s7)
  BY <1>4 DEF Ended
<1>7. s7 = After(s6, "dependent", node, Dependent(node, done, s6))
  BY DEF s7, Depend1
<1>8. ~Ended(s6) /\ s7.subs = s6.subs
  <2>1. Dependent(node, done, s6) \in States(A, ids)
    BY <1>3, DependentTyped
  <2>2. Dependent(node, done, s6).subs = s6.subs
    BY <1>3 DEF Dependent, Valid, Error, States
  <2> QED
    BY <1>3, <1>6, <1>7, <2>1, <2>2, PhaseTyped, PhaseKeepsSubs
<1>9. ASSUME "dependent" \in node.policies PROVE node.depends \subseteq done
  <2>1. s7 = KeepSubs(s6, Dependent(node, done, s6))
    BY <1>7, <1>8, <1>9 DEF After, Ended
  <2>2. CASE ~(node.depends \subseteq done)
    <3>1. Dependent(node, done, s6) = Error(s6, "dependent_argument_missing")
      BY <2>2 DEF Dependent
    <3>2. KeepSubs(s6, Error(s6, "dependent_argument_missing")).act = "error"
      BY <1>3 DEF KeepSubs, Error, States
    <3> QED
      BY <1>4, <2>1, <3>1, <3>2
  <2> QED
    BY <2>2
<1>10. s6 = After(s5, "alias", node, Alias(node, children, s5))
  BY DEF s6, Alias1
<1>11. CASE "alias" \notin node.policies
  <2>1. s6 = s5
    BY <1>10, <1>11 DEF After
  <2>2. o.targets = own
    BY <1>1, <1>4, <1>8, <2>1
  <2>3. Ids(own) = {node.id}
    <3> DEFINE x == Target(node.id, OwnTokens(node, s7))
    <3>1. x.node = node.id
      BY DEF Target
    <3> HIDE DEF x
    <3>2. DOMAIN <<x>> = {1} /\ <<x>>[1] = x
      OBVIOUS
    <3> QED
      BY <3>1, <3>2 DEF Ids, own, x
  <2> QED
    BY <1>4, <1>9, <1>11, <2>2, <2>3 DEF Sets, MatchOf, own
<1>12. CASE "alias" \in node.policies
  <2> DEFINE t == Alias(node, children, s5)
  <2>1. ~Ended(s5) /\ s6 = KeepSubs(s5, t)
    BY <1>8, <1>10, <1>12 DEF After, Ended
  <2>2. t \in States(A, ids)
    BY <1>1, AliasTyped DEF ids
  <2> HIDE DEF t
  <2>3. Ended(t) => Ended(KeepSubs(s5, t))
    BY <2>2 DEF Ended, KeepSubs, States
  <2>4. KeepSubs(s5, t).subs = t.subs
    BY <2>2 DEF KeepSubs, States
  <2>5. Ids(s6.subs) = node.alias
    <3>1. ~Ended(t)
      BY <1>8, <2>1, <2>3
    <3>2. Ids(t.subs) = node.alias \cap IdsOf(children)
      BY <1>1, <3>1, AliasSubs DEF t
    <3> QED
      BY <1>12, <2>1, <2>4, <3>2
  <2>6. CASE s6.subs = <<>>
    <3>1. Ids(<<>>) = {}
      BY DEF Ids
    <3> QED
      BY <1>4, <1>9, <1>12, <2>5, <2>6, <3>1 DEF Sets, MatchOf
  <2>7. CASE s6.subs # <<>>
    <3>1. Ids(o.targets) = node.alias
      BY <1>4, <1>8, <2>5, <2>7
    <3> QED
      BY <1>4, <1>9, <1>12, <3>1 DEF Sets, MatchOf
  <2> QED
    BY <2>6, <2>7
<1> QED
  BY <1>11, <1>12
-----------------------------------------------------------------------------
\* Verdicts

\* What the caller and a one_of may say of the child n
VerdictOf(node, n, sel, already) ==
  IF node.kind = "one_of" THEN Verdict(n, sel, already) ELSE VerifyMatch(n, already)

LEMMA Verdicts ==
  ASSUME NEW node, NEW n, NEW sel, NEW already \in BOOLEAN
  PROVE  LET verdict == VerdictOf(node, n, sel, already)
         IN  /\ verdict = "argument_has_already_been_set" =>
                  already /\ IsNamed(n) /\ (node.kind = "one_of" => sel \in {"none", n.id})
             /\ verdict = "one_of_selected_type_mismatch" =>
                  node.kind = "one_of" /\ sel \notin {"none", n.id}
             /\ verdict = "accept" /\ node.kind = "one_of" => Selects(n, sel) = n.id
<1>1. /\ VerifyMatch(n, already) \in {"accept", "argument_has_already_been_set", "reject"}
      /\ VerifyMatch(n, already) = "argument_has_already_been_set" => already /\ IsNamed(n)
  BY DEF VerifyMatch
<1> QED
  BY <1>1 DEF VerdictOf, Verdict, OneOfVerdict, Selects

\* The leaf whose outcome is that of the child, and what it was told
LEMMA TriedBy ==
  ASSUME NEW S, NEW node, node.children \in Seq(S), NEW children, NEW done, NEW args0,
         NEW selected0, NEW already \in BOOLEAN, NEW r,
         r = PreParse(node, children, done, args0, selected0, already), r.o.kind # "none"
  PROVE  \E n \in Leaves(node) : \E sel :
           /\ r.o = PreParseLeaf(n, children, done, args0, VerdictOf(node, n, sel, already))
           /\ node.kind = "one_of" =>
                /\ r.selected = IF r.o.asked THEN Selects(n, sel) ELSE sel
                /\ selected0 # "none" \/ ~already => sel = selected0
<1>1. CASE node.kind = "one_of"
  <2>1. r = PreParseOneOf(node, children, done, args0, selected0, already)
    BY <1>1 DEF PreParse
  <2>4. PICK n \in ToSet(node.children) : \E sel :
          /\ OneOfTried(r, n, sel, children, done, args0, already)
          /\ selected0 # "none" \/ ~already => sel = selected0
    BY <2>1, OneOfTries
  <2>2. PICK sel : /\ OneOfTried(r, n, sel, children, done, args0, already)
                   /\ selected0 # "none" \/ ~already => sel = selected0
    BY <2>4
  <2>3. n \in Leaves(node)
    BY <1>1, <2>2 DEF Leaves
  <2> QED
    BY <1>1, <2>2, <2>3 DEF OneOfTried, VerdictOf
<1>2. CASE node.kind = "alias_group"
  <2> DEFINE o == PreParseAliasGroup(node, children, done, args0, already)
  <2>1. r = [o |-> o, selected |-> selected0]
    BY <1>2 DEF PreParse
  <2> HIDE DEF o
  <2>2. r.o = o
    BY <2>1
  <2>3. PICK n \in ToSet(node.children) :
          o = PreParseLeaf(n, children, done, args0, VerifyMatch(n, already))
    BY <2>2, AliasGroupTries DEF o
  <2>4. n \in Leaves(node) /\ \A sel : VerdictOf(node, n, sel, already) = VerifyMatch(n, already)
    BY <1>2, <2>3 DEF Leaves, VerdictOf
  <2> QED
    BY <1>2, <2>2, <2>3, <2>4
<1>3. CASE node.kind \notin {"one_of", "alias_group"}
  <2> DEFINE o == PreParseLeaf(node, children, done, args0, VerifyMatch(node, already))
  <2>1. r = [o |-> o, selected |-> selected0]
    BY <1>3 DEF PreParse
  <2> HIDE DEF o
  <2>2. r.o = o
    BY <2>1
  <2>3. node \in Leaves(node) /\ \A sel : VerdictOf(node, node, sel, already) = VerifyMatch(node, already)
    BY <1>3 DEF Leaves, VerdictOf
  <2> QED
    BY <1>3, <2>2, <2>3 DEF o
<1> QED
  BY <1>1, <1>2, <1>3

\* An error is a policy's, or what the validator threw.
LEMMA ErrorCode ==
  ASSUME NEW A, NEW nodes, \A n \in nodes : n.children \in Seq(nodes),
         NEW children \in Seq(nodes), NEW node, Parameters(node), NEW done,
         NEW args0 \in Seq(Words(A)), NEW verdict, NEW o,
         o = PreParseLeaf(node, children, done, args0, verdict), o.kind = "error"
  PROVE  o.code \in Codes \/ o.code = verdict
<1> DEFINE s == Final(node, children, done, args0)
           M == Outcome("match", "", WithLabelClaimed(node, s).u,
                        IF s.subs = <<>> THEN <<Target(node.id,
                           IF IsNamed(node) /\ WithLabelClaimed(node, s).p # <<>>
                           THEN Tail(WithLabelClaimed(node, s).p) ELSE WithLabelClaimed(node, s).p)>>
                        ELSE s.subs, TRUE)
<1>1. s.code \in Codes
  BY FinalTyped DEF States
<1>2. o = Settle(node, s, verdict)
  BY LeafSettles
<1> HIDE DEF s
<1>3. o \in {Outcome("error", s.code, <<>>, <<>>, FALSE), NotThisNode, Outcome("none", "", <<>>, <<>>, TRUE),
             Outcome("error", verdict, <<>>, <<>>, TRUE), Outcome("error", s.code, <<>>, <<>>, TRUE), M}
  BY <1>2 DEF Settle
<1>4. /\ \A x, y : Outcome("match", "", x, y, TRUE).kind = "match"
      /\ \A code, asked : Outcome("error", code, <<>>, <<>>, asked).code = code
                         /\ Outcome("none", code, <<>>, <<>>, asked).kind = "none"
  BY DEF Outcome
<1>5. M.kind = "match" /\ NotThisNode.kind = "none"
  BY <1>4 DEF NotThisNode
<1> HIDE DEF M
<1>6. /\ Outcome("error", s.code, <<>>, <<>>, FALSE).code = s.code
      /\ Outcome("error", s.code, <<>>, <<>>, TRUE).code = s.code
      /\ Outcome("error", verdict, <<>>, <<>>, TRUE).code = verdict
      /\ Outcome("none", "", <<>>, <<>>, TRUE).kind = "none"
  BY <1>4
<1>7. o # M /\ o # NotThisNode /\ o # Outcome("none", "", <<>>, <<>>, TRUE)
  BY <1>5, <1>6
<1> QED
  BY ONLY <1>1, <1>3, <1>6, <1>7
-----------------------------------------------------------------------------
\* What the loop of a mode has made of its children

\* A child that has matched has set the nodes of one of its leaves, and a
\* one_of has selected that leaf.
HasSet(k) ==
  \E m \in Leaves(Children[k]) :
     /\ Sets(m) \subseteq Done
     /\ Children[k].kind = "one_of" => Selected(Children[k].id) = m.id

InLoop == phase = "loop" => \A k \in matched : HasSet(k)

\* What the theorems on the groups ask of the trees
GroupRules(nodes, A) ==
  TreesOf(nodes, A) /\ DistinctIds(nodes) /\ LeavesInGroups(nodes) /\ AliasesExist(nodes)

\* The leaves of a child are nodes of the mode.
LEMMA LeavesTyped ==
  ASSUME NEW nodes, NEW A, GroupRules(nodes, A), Typing(nodes, A), NEW k \in DOMAIN Children,
         Children[k].kind # "mode", NEW n \in Leaves(Children[k])
  PROVE  /\ n \in ToSet(Nodes(Children)) /\ n \in nodes /\ Parameters(n) /\ Named(n)
         /\ "alias" \in n.policies => n.alias \subseteq IdsOf(Children)
         /\ n \in ToSet(Nodes(<<Children[k]>>)) /\ n.kind \in {"leaf", "flag"}
         /\ n.id # "none"
         /\ Children[k].children \in Seq(nodes)
<1>1. Children \in Seq(nodes) /\ Children[k] \in nodes /\ \A m \in nodes : m.children \in Seq(nodes)
  BY ChildrenTyped DEF GroupRules, TreesOf
<1>2. ToSet(Nodes(<<Children[k]>>)) = {Children[k]} \cup ToSet(Children[k].children)
  BY <1>1, NodesOfOne
<1>3. n \in ToSet(Nodes(<<Children[k]>>))
  BY <1>2 DEF Leaves
<1>4. n \in ToSet(Nodes(Children)) /\ n \in nodes
  <2>1. /\ ToSet(Nodes(Children))
             = UNION {{Children[j]} \cup ToSet(Children[j].children) : j \in DOMAIN Children}
        /\ ToSet(Nodes(Children)) \subseteq nodes
    BY <1>1, NodesAre, ChildAmongNodes
  <2> QED
    BY <1>2, <1>3, <2>1
<1>5. n.kind \in {"leaf", "flag"}
  BY <1>1 DEF Leaves, GroupRules, LeavesInGroups
<1>6. "alias" \in n.policies => n.alias \subseteq IdsOf(Children)
  BY <1>4, ChildrenAreSiblings DEF GroupRules, AliasesExist, IdsOf
<1>7. n.id # "none"
  BY <1>4, ChildrenAreSiblings DEF GroupRules, DistinctIds
<1> QED
  BY <1>1, <1>3, <1>4, <1>5, <1>6, <1>7 DEF Parameters, Named, Texts, GroupRules, TreesOf, LeavesInGroups

\* A child's turn: it does not match, it ends the call with an error, or it
\* matches.
LEMMA TryFacts ==
  ASSUME NEW nodes, NEW A, GroupRules(nodes, A), Typing(nodes, A), InLoop, TryChild
  PROVE  /\ phase = "loop" /\ args # <<>> /\ i \in DOMAIN Children /\ UNCHANGED <<tree, path, calls>>
         /\ \/ NextChild /\ \A id : Selected(id)' = Selected(id)
            \/ \E n \in Leaves(Child) : \E sel, code :
                 /\ Child.kind # "mode" /\ Fail(code)
                 /\ code \in Codes \/ code = VerdictOf(Child, n, sel, i \in matched)
                 /\ code # "length_error" /\ IsNamed(n) => NamedBy(n, Head(args))
                 /\ Child.kind = "one_of" => sel = Selected(Child.id)
            \/ \E n \in Leaves(Child) :
                 /\ UNCHANGED <<phase, thrown>> /\ matched' = matched \cup {i}
                 /\ Done \cup Sets(n) \subseteq Done'
                 /\ \A id : Selected(id)' = IF Child.kind = "one_of" /\ id = Child.id
                                            THEN n.id ELSE Selected(id)
<1>1. /\ phase = "loop" /\ args # <<>> /\ i <= Len(Children) /\ i \in Nat \ {0}
      /\ Children \in Seq(nodes) /\ args \in Seq(Words(A)) /\ \A n \in nodes : n.children \in Seq(nodes)
  BY ChildrenTyped DEF TryChild, Typing, GroupRules, TreesOf
<1>2. i \in DOMAIN Children /\ Child = Children[i]
  BY <1>1 DEF Child
<1>3. CASE Child.kind = "mode"
  <2>1. NextChild /\ UNCHANGED selected
    BY <1>3 DEF TryChild
  <2> QED
    BY <1>1, <1>2, <2>1 DEF NextChild, Selected
<1>4. CASE Child.kind # "mode"
  <2>1. PICK r : /\ r = PreParse(Child, Children, Done, args, Selected(Child.id), i \in matched)
                 /\ \/ r.o.kind = "none" /\ NextChild
                    \/ r.o.kind = "error" /\ Fail(r.o.code)
                    \/ /\ r.o.kind = "match"
                       /\ targets' = targets \o r.o.targets
                       /\ matched' = matched \cup {i}
                       /\ UNCHANGED <<tree, calls, phase, path, thrown>>
                 /\ selected' = IF Child.kind = "one_of" THEN Remembered(Child.id, r.selected)
                                ELSE selected
    BY <1>4 DEF TryChild
  <2>2. \A id : Selected(id)' = IF Child.kind = "one_of" /\ id = Child.id
                                THEN r.selected ELSE Selected(id)
    BY <2>1 DEF Selected, Remembered
  <2>3. Child.kind = "one_of" => Selected(Child.id) # "none" \/ i \notin matched
    <3> SUFFICES ASSUME Child.kind = "one_of", i \in matched PROVE Selected(Child.id) # "none"
      OBVIOUS
    <3>1. PICK m \in Leaves(Child) : Selected(Child.id) = m.id
      BY <1>1, <1>2 DEF InLoop, HasSet
    <3> QED
      BY <1>2, <1>4, <3>1, LeavesTyped
  <2>4. Child \in nodes /\ Child.children \in Seq(nodes) /\ (i \in matched) \in BOOLEAN
    BY <1>1, <1>2
  <2>5. CASE r.o.kind = "none" /\ NextChild
    <3>1. Child.kind = "one_of" => r.selected = Selected(Child.id)
      <4> SUFFICES ASSUME Child.kind = "one_of" PROVE r.selected = Selected(Child.id)
        OBVIOUS
      <4> DEFINE sel0    == Selected(Child.id)
                 already == i \in matched
      <4>1. r = PreParseOneOf(Child, Children, Done, args, sel0, already)
        BY <2>1 DEF PreParse
      <4>2. sel0 # "none" \/ ~already
        BY <2>3
      <4> HIDE DEF sel0, already
      <4>3. r.selected = sel0
        BY <2>4, <2>5, <4>1, <4>2, OneOfTries
      <4> QED
        BY <4>3 DEF sel0
    <3>2. \A id : Selected(id)' = Selected(id)
      BY <2>2, <3>1
    <3> QED
      BY <1>1, <1>2, <2>5, <3>2 DEF NextChild
  <2>6. CASE r.o.kind # "none"
    <3> DEFINE TriedFor(n, sel) ==
                 /\ r.o = PreParseLeaf(n, Children, Done, args, VerdictOf(Child, n, sel, i \in matched))
                 /\ Child.kind = "one_of" =>
                      /\ r.selected = IF r.o.asked THEN Selects(n, sel) ELSE sel
                      /\ Selected(Child.id) # "none" \/ i \notin matched => sel = Selected(Child.id)
    <3>0. PICK n \in Leaves(Child) : \E sel : TriedFor(n, sel)
      <4> DEFINE sel0    == Selected(Child.id)
                 already == i \in matched
      <4>1. r = PreParse(Child, Children, Done, args, sel0, already) /\ already \in BOOLEAN
        BY <2>1
      <4> HIDE DEF sel0, already
      <4>2. \E n \in Leaves(Child) : \E sel :
              /\ r.o = PreParseLeaf(n, Children, Done, args, VerdictOf(Child, n, sel, already))
              /\ Child.kind = "one_of" =>
                   /\ r.selected = IF r.o.asked THEN Selects(n, sel) ELSE sel
                   /\ sel0 # "none" \/ ~already => sel = sel0
        BY <2>4, <2>6, <4>1, TriedBy
      <4> QED
        BY <4>2 DEF sel0, already
    <3>1. PICK sel : TriedFor(n, sel)
      BY <3>0
    <3>2. /\ n \in nodes /\ Parameters(n) /\ Named(n)
          /\ "alias" \in n.policies => n.alias \subseteq IdsOf(Children)
      BY <1>2, <1>4, LeavesTyped
    <3>3. Child.kind = "one_of" => sel = Selected(Child.id)
      BY <2>3, <3>1
    <3>4. CASE r.o.kind = "error" /\ Fail(r.o.code)
      <4>1. r.o.code \in Codes \/ r.o.code = VerdictOf(Child, n, sel, i \in matched)
        BY <1>1, <3>1, <3>2, <3>4, ErrorCode
      <4>2. r.o.code # "length_error" /\ IsNamed(n) => NamedBy(n, Head(args))
        BY <1>1, <3>1, <3>2, <3>4, NotNamed
      <4>3. UNCHANGED <<tree, path, calls>>
        BY <3>4 DEF Fail
      <4> QED
        BY <1>1, <1>2, <1>4, <3>3, <3>4, <4>1, <4>2, <4>3
    <3>5. CASE /\ r.o.kind = "match"
               /\ targets' = targets \o r.o.targets
               /\ matched' = matched \cup {i}
               /\ UNCHANGED <<tree, calls, phase, path, thrown>>
      <4>1. /\ VerdictOf(Child, n, sel, i \in matched) = "accept" /\ r.o.asked
            /\ Sets(n) \subseteq Ids(r.o.targets)
        <5> DEFINE verdict == VerdictOf(Child, n, sel, i \in matched)
        <5>1. r.o = PreParseLeaf(n, Children, Done, args, verdict)
          BY <3>1
        <5> HIDE DEF verdict
        <5>2. ASSUME NEW o, o = PreParseLeaf(n, Children, Done, args, verdict), o.kind = "match"
              PROVE  MatchOf(n, Done, verdict, o)
          BY <1>1, <3>2, <5>2, MatchFacts
        <5> QED
          BY <3>5, <5>1, <5>2 DEF MatchOf, verdict
      <4>2. Child.kind = "one_of" => r.selected = n.id
        <5>1. VerdictOf(Child, n, sel, i \in matched) = "accept" /\ Child.kind = "one_of"
                => Selects(n, sel) = n.id
          BY <2>4, Verdicts
        <5> QED
          BY <3>1, <4>1, <5>1
      <4>3. Done' = Done \cup Ids(r.o.targets)
        <5>1. WellTyped(A, n, Children, r.o)
          BY <1>1, <3>1, <3>2, LeafTyped
        <5> DEFINE T == TargetsOf(A, IdsOf(Children)) \cup TargetsOf(A, Settable(n, Children))
                   p == targets
                   q == r.o.targets
        <5>2. p \in Seq(T) /\ q \in Seq(T)
          BY <3>5, <5>1 DEF WellTyped, Typing
        <5> HIDE DEF T, p, q
        <5>3. /\ DOMAIN p = 1 .. Len(p) /\ DOMAIN q = 1 .. Len(q) /\ Len(p) \in Nat /\ Len(q) \in Nat
              /\ DOMAIN (p \o q) = 1 .. Len(p) + Len(q)
              /\ \A k \in 1 .. Len(p) + Len(q) :
                   (p \o q)[k] = IF k <= Len(p) THEN p[k] ELSE q[k - Len(p)]
          BY <5>2, ConcatFacts
        <5>4. ASSUME NEW id PROVE id \in Ids(p \o q) <=> id \in Ids(p) \cup Ids(q)
          <6>1. ASSUME NEW k \in DOMAIN (p \o q), (p \o q)[k].node = id PROVE id \in Ids(p) \cup Ids(q)
            <7>1. CASE k <= Len(p)
              BY <5>3, <6>1, <7>1 DEF Ids
            <7>2. CASE ~(k <= Len(p))
              <8>1. k - Len(p) \in DOMAIN q /\ q[k - Len(p)].node = id
                BY <5>3, <6>1, <7>2
              <8> QED
                BY <8>1 DEF Ids
            <7> QED
              BY <7>1, <7>2
          <6>2. ASSUME NEW k \in DOMAIN p, p[k].node = id PROVE id \in Ids(p \o q)
            <7>1. k \in DOMAIN (p \o q) /\ (p \o q)[k] = p[k]
              BY <5>3
            <7> QED
              BY <6>2, <7>1 DEF Ids
          <6>3. ASSUME NEW k \in DOMAIN q, q[k].node = id PROVE id \in Ids(p \o q)
            <7>1. k + Len(p) \in DOMAIN (p \o q) /\ (p \o q)[k + Len(p)] = q[k]
              BY <5>3
            <7> QED
              BY <6>3, <7>1 DEF Ids
          <6> QED
            BY <6>1, <6>2, <6>3 DEF Ids
        <5>5. Done = Ids(p) /\ Done' = Ids(p \o q)
          BY <3>5 DEF Done, Ids, p, q
        <5> QED
          BY <5>4, <5>5 DEF q
      <4>4. \A id : Selected(id)' = IF Child.kind = "one_of" /\ id = Child.id
                                    THEN n.id ELSE Selected(id)
        BY <2>2, <4>2
      <4> QED
        BY <1>1, <1>2, <3>5, <4>1, <4>3, <4>4
    <3> QED
      BY <2>1, <2>6, <3>4, <3>5
  <2> QED
    BY <2>1, <2>5, <2>6
<1> QED
  BY <1>3, <1>4

\* A child that is known to have set its nodes stays so, and the one whose turn
\* it was becomes so when it matches.
LEMMA TryKeeps ==
  ASSUME NEW nodes, NEW A, GroupRules(nodes, A), Typing(nodes, A), InLoop, TryChild, phase' = "loop"
  PROVE  /\ \A k \in DOMAIN Children : HasSet(k) => HasSet(k)'
         /\ \A k \in matched' : HasSet(k)'
         /\ \A k \in DOMAIN Children :
              Children[k].kind = "one_of" /\ Selected(Children[k].id)' # Selected(Children[k].id) => HasSet(k)'
         /\ Children' = Children /\ matched' \subseteq DOMAIN Children
<1>1. /\ phase = "loop" /\ i \in DOMAIN Children /\ UNCHANGED <<tree, path>>
      /\ \/ NextChild /\ \A id : Selected(id)' = Selected(id)
         \/ \E code : Fail(code)
         \/ \E n \in Leaves(Child) :
              /\ matched' = matched \cup {i}
              /\ Done \cup Sets(n) \subseteq Done'
              /\ \A id : Selected(id)' = IF Child.kind = "one_of" /\ id = Child.id
                                         THEN n.id ELSE Selected(id)
  BY TryFacts
<1>2. Children' = Children /\ Child = Children[i] /\ matched \subseteq DOMAIN Children
  BY <1>1 DEF Children, Mode, Child, Typing
<1>3. CASE NextChild /\ \A id : Selected(id)' = Selected(id)
  <2>1. matched' = matched /\ Done' = Done
    BY <1>3 DEF NextChild, Done
  <2>2. \A k : HasSet(k)' <=> HasSet(k)
    BY <1>2, <1>3, <2>1 DEF HasSet
  <2> QED
    BY <1>1, <1>2, <1>3, <2>1, <2>2 DEF InLoop
<1>4. ASSUME NEW n \in Leaves(Child), matched' = matched \cup {i}, Done \cup Sets(n) \subseteq Done',
             \A id : Selected(id)' = IF Child.kind = "one_of" /\ id = Child.id THEN n.id ELSE Selected(id)
      PROVE  /\ \A k \in DOMAIN Children : HasSet(k) => HasSet(k)'
             /\ \A k \in matched' : HasSet(k)'
             /\ \A k \in DOMAIN Children :
                  Children[k].kind = "one_of" /\ Selected(Children[k].id)' # Selected(Children[k].id) => HasSet(k)'
             /\ matched' \subseteq DOMAIN Children
  <2>1. ASSUME NEW k \in DOMAIN Children, Children[k] = Child PROVE HasSet(k)'
    BY <1>2, <1>4, <2>1 DEF HasSet
  <2>2. ASSUME NEW k \in DOMAIN Children, HasSet(k), Children[k] # Child PROVE HasSet(k)'
    <3>1. Children[k].id # Child.id
      <4>1. Children[k] \in ToSet(Nodes(Children)) /\ Child \in ToSet(Nodes(Children))
        <5>1. Children \in Seq(nodes) /\ \A m \in nodes : m.children \in Seq(nodes)
          BY ChildrenTyped DEF GroupRules, TreesOf
        <5>2. ToSet(Children) \subseteq ToSet(Nodes(Children))
          BY <5>1, ChildAmongNodes
        <5> QED
          BY <1>1, <1>2, <5>2 DEF ToSet
      <4> QED
        BY <2>2, <4>1, ChildrenAreSiblings DEF GroupRules, DistinctIds
    <3>2. PICK m \in Leaves(Children[k]) : /\ Sets(m) \subseteq Done
                                           /\ Children[k].kind = "one_of" => Selected(Children[k].id) = m.id
      BY <2>2 DEF HasSet
    <3>3. Selected(Children[k].id)' = Selected(Children[k].id)
      BY <1>2, <1>4, <3>1
    <3> QED
      BY <1>2, <1>4, <3>2, <3>3 DEF HasSet
  <2>3. ASSUME NEW k \in DOMAIN Children, Children[k].kind = "one_of",
               Selected(Children[k].id)' # Selected(Children[k].id)
        PROVE  HasSet(k)'
    <3>1. Children[k].id = Child.id
      BY <1>2, <1>4, <2>3
    <3>2. Children[k] = Child
      <4>1. Children[k] \in ToSet(Nodes(Children)) /\ Child \in ToSet(Nodes(Children))
        <5>1. Children \in Seq(nodes) /\ \A m \in nodes : m.children \in Seq(nodes)
          BY ChildrenTyped DEF GroupRules, TreesOf
        <5>2. ToSet(Children) \subseteq ToSet(Nodes(Children))
          BY <5>1, ChildAmongNodes
        <5> QED
          BY <1>1, <1>2, <5>2 DEF ToSet
      <4> QED
        BY <3>1, <4>1, ChildrenAreSiblings DEF GroupRules, DistinctIds
    <3> QED
      BY <2>1, <3>2
  <2>4. \A k \in matched : HasSet(k)
    BY <1>1 DEF InLoop
  <2> QED
    BY <1>1, <1>2, <1>4, <2>1, <2>2, <2>3, <2>4
<1>5. \A code : ~Fail(code)
  BY DEF Fail
<1> QED
  BY <1>1, <1>2, <1>3, <1>4, <1>5

\* Which steps lead to, or stay in, the loop
LEMMA StepsOfLoop ==
  ASSUME NEW nodes, NEW A, Typing(nodes, A), [Next]_vars, phase' \in {"root", "submode", "loop"}
  PROVE  \/ TryChild
         \/ phase \in {"root", "submode"} /\ matched' = {} /\ UNCHANGED <<selected, calls>>
         \/ \E words : Call(words)
         \/ UNCHANGED vars
<1>1. phase \in {"root", "submode"} => matched = {}
  BY DEF Typing
<1>2. CASE RootLeaf \/ RootUnknown
  BY <1>1, <1>2 DEF RootLeaf, RootUnknown, NextChild, Fail
<1>3. CASE RootMode
  BY <1>1, <1>3 DEF RootMode, NextChild, Enter
<1>4. CASE SubMode \/ NoSubMode
  BY <1>1, <1>4 DEF SubMode, NoSubMode, NextChild, Enter
<1>5. CASE NoChild \/ LoopEnd \/ RunEnd \/ MissingEnd
  BY <1>5 DEF NoChild, LoopEnd, RunEnd, MissingEnd, Fail
<1>6. CASE RunTarget \/ Missing \/ StageValidation
  BY <1>6 DEF RunTarget, Missing, StageValidation, NextChild, Fail
<1>7. CASE Route \/ RouteLeaf
  BY <1>7 DEF Route, RouteLeaf, Finish, Fail
<1> QED
  BY <1>2, <1>3, <1>4, <1>5, <1>6, <1>7 DEF Next, Step

LEMMA InLoopStep ==
  ASSUME NEW nodes, NEW A, GroupRules(nodes, A)
  PROVE  Typing(nodes, A) /\ InLoop /\ [Next]_vars => InLoop'
<1> SUFFICES ASSUME Typing(nodes, A), InLoop, [Next]_vars, phase' = "loop" PROVE InLoop'
  BY DEF InLoop
<1>1. CASE TryChild
  BY <1>1, TryKeeps DEF InLoop
<1>2. CASE matched' = {}
  BY <1>2 DEF InLoop
<1>3. CASE UNCHANGED vars
  <2>1. UNCHANGED <<phase, tree, path, matched, targets, selected>>
    BY <1>3 DEF vars
  <2>2. \A k : HasSet(k)' <=> HasSet(k)
    BY <2>1 DEF HasSet, Children, Mode, Done, Selected
  <2> QED
    BY <2>1, <2>2 DEF InLoop
<1>4. \A words : ~Call(words)
  BY DEF Call
<1> QED
  BY <1>1, <1>2, <1>3, <1>4, StepsOfLoop
-----------------------------------------------------------------------------
\* Who says "already set" and "only one of"

SetErrors == {"argument_has_already_been_set", "one_of_selected_type_mismatch"}

Quiet == phase # "idle" => thrown = ""

\* The attempt of the child whose turn it is failed for its leaf n.
FailedAt(n, sel) ==
  /\ args # <<>> /\ i \in DOMAIN Children /\ Child.kind # "mode" /\ n \in Leaves(Child)
  /\ thrown' = VerdictOf(Child, n, sel, i \in matched)
  /\ IsNamed(n) => NamedBy(n, Head(args))
  /\ Child.kind = "one_of" => sel = Selected(Child.id)

\* The parse of the target whose turn it is failed because its child has a value.
FailedAgain ==
  /\ phase = "run" /\ i \in DOMAIN targets /\ results[OwnerOf(i)] # Unset
  /\ thrown' = "argument_has_already_been_set"

LEMMA WhoFails ==
  ASSUME NEW nodes, NEW A, GroupRules(nodes, A), Typing(nodes, A), InLoop, Quiet, [Next]_vars,
         thrown' \in SetErrors
  PROVE  \/ UNCHANGED vars
         \/ /\ UNCHANGED <<tree, args, i, path, targets>>
            /\ \/ phase = "loop" /\ \E n, sel : FailedAt(n, sel)
               \/ FailedAgain
<1>1. "" \notin SetErrors /\ SetErrors \cap Codes = {}
  BY DEF SetErrors, Codes
<1>2. ~(phase # "idle" /\ UNCHANGED thrown)
  BY <1>1 DEF Quiet
<1>3. \A code : code \notin SetErrors => ~Fail(code)
  BY DEF Fail
<1>4. CASE TryChild
  <2>1. phase = "loop" /\ args # <<>> /\ i \in DOMAIN Children
    BY <1>4, TryFacts
  <2> DEFINE FailsFor(n, sel, code) ==
               /\ Child.kind # "mode" /\ Fail(code)
               /\ code \in Codes \/ code = VerdictOf(Child, n, sel, i \in matched)
               /\ code # "length_error" /\ IsNamed(n) => NamedBy(n, Head(args))
               /\ Child.kind = "one_of" => sel = Selected(Child.id)
  <2>9. PICK n \in Leaves(Child) : \E sel, code : FailsFor(n, sel, code)
    BY <1>2, <1>4, <2>1, TryFacts DEF NextChild
  <2>2. PICK sel, code : FailsFor(n, sel, code)
    BY <2>9
  <2>3. thrown' = code /\ UNCHANGED <<tree, args, i, path, targets>>
    BY <2>2 DEF Fail
  <2>4. code \notin Codes /\ code # "length_error"
    BY <1>1, <2>3 DEF SetErrors
  <2>5. FailedAt(n, sel)
    BY <2>1, <2>2, <2>3, <2>4 DEF FailedAt
  <2> QED
    BY <2>1, <2>3, <2>5
<1>5. CASE RootLeaf
  <2>1. PICK o : /\ o = PreParseLeaf(Child, Children, {}, args, "accept")
                 /\ \/ UNCHANGED thrown
                    \/ o.kind = "error" /\ Fail(o.code)
                    \/ Fail("unhandled_arguments")
    BY <1>5 DEF RootLeaf, NextChild
  <2>2. phase = "root" /\ i <= Len(Children) /\ "unhandled_arguments" \notin SetErrors
    BY <1>5 DEF RootLeaf, SetErrors
  <2>3. CASE o.kind = "error" /\ Fail(o.code)
    <3>1. /\ Children \in Seq(nodes) /\ Child \in nodes /\ \A n \in nodes : n.children \in Seq(nodes)
          /\ args \in Seq(Words(A)) /\ Parameters(Child)
      BY <2>2, ChildrenTyped DEF GroupRules, TreesOf, Typing, Parameters
    <3>2. o.code \in Codes \/ o.code = "accept"
      BY <2>1, <2>3, <3>1, ErrorCode
    <3>3. "accept" \notin SetErrors
      BY DEF SetErrors
    <3> QED
      BY <1>1, <1>3, <2>3, <3>2, <3>3
  <2> QED
    BY <1>2, <1>3, <2>1, <2>2, <2>3
<1>6. CASE RootMode \/ SubMode \/ NoSubMode \/ LoopEnd \/ RunEnd \/ MissingEnd
  <2>1. phase # "idle" /\ UNCHANGED thrown
    BY <1>6 DEF RootMode, SubMode, NoSubMode, LoopEnd, RunEnd, MissingEnd, Enter, NextChild
  <2> QED
    BY <1>2, <2>1
<1>7. CASE RootUnknown \/ NoChild
  <2>1. {"no_arguments_passed", "unknown_argument", "unhandled_arguments"} \cap SetErrors = {}
    BY DEF SetErrors
  <2> QED
    BY <1>3, <1>7, <2>1 DEF RootUnknown, NoChild
<1>8. \A node, list : Validation(node, list) \notin SetErrors
  BY DEF Validation, SetErrors
<1>9. \A node, target : ParseError(node, target) \notin SetErrors
  BY <1>8 DEF ParseError, SetErrors
<1>10. CASE RunTarget
  <2> DEFINE node  == NodeOf(targets[i].node)
             error == ParseError(node, targets[i])
  <2>1. phase = "run" /\ i \in DOMAIN targets
    <3>1. phase = "run" /\ i <= Len(targets) /\ i \in Nat \ {0}
      BY <1>10 DEF RunTarget, Typing
    <3>2. Len(targets) \in Nat /\ DOMAIN targets = 1 .. Len(targets)
      BY DEF Typing
    <3> QED
      BY <3>1, <3>2
  <2>2. \/ Fail(error)
        \/ Collides(node, results[OwnerOf(i)]) /\ Fail("argument_has_already_been_set")
        \/ UNCHANGED thrown
    BY <1>10 DEF RunTarget, OwnerOf
  <2>3. ~Fail(error)
    BY <1>3, <1>9
  <2> HIDE DEF node, error
  <2>4. Collides(node, results[OwnerOf(i)]) /\ Fail("argument_has_already_been_set")
    BY <1>2, <2>1, <2>2, <2>3
  <2> QED
    BY <2>1, <2>4 DEF Fail, FailedAgain, Collides
<1>11. CASE Missing
  <2>1. MissingError(Child) \notin SetErrors
    BY DEF MissingError, SetErrors
  <2>2. \/ phase # "idle" /\ UNCHANGED thrown
        \/ \E code : Fail(code) /\ code \notin SetErrors
    BY <1>8, <1>11, <2>1 DEF Missing, NextChild, CheckedDefault
  <2> QED
    BY <1>2, <1>3, <2>2
<1>12. CASE StageValidation
  <2>1. \/ phase # "idle" /\ UNCHANGED thrown
        \/ \E code : Fail(code) /\ code \notin SetErrors
    BY <1>1, <1>8, <1>12 DEF StageValidation, NextChild
  <2> QED
    BY <1>2, <1>3, <2>1
<1>13. CASE Route \/ RouteLeaf
  <2>1. "mode_requires_arguments" \notin SetErrors
    BY DEF SetErrors
  <2>2. \/ phase # "idle" /\ UNCHANGED thrown
        \/ \E code : Fail(code) /\ code \notin SetErrors
    BY <1>9, <1>13, <2>1 DEF Route, RouteLeaf, Finish
  <2> QED
    BY <1>2, <1>3, <2>2
<1>14. \A words : ~Call(words)
  BY <1>1 DEF Call
<1> QED
  BY <1>4, <1>5, <1>6, <1>7, <1>10, <1>11, <1>12, <1>13, <1>14 DEF Next, Step

LEMMA QuietStep == Quiet /\ [Next]_vars => Quiet'
<1> SUFFICES ASSUME Quiet, [Next]_vars, phase' # "idle" PROVE thrown' = ""
  BY DEF Quiet
<1>1. \A code : ~Fail(code)
  BY DEF Fail
<1>2. ASSUME phase # "idle", UNCHANGED thrown PROVE thrown' = ""
  BY <1>2 DEF Quiet
<1>3. CASE RootLeaf \/ RootMode \/ RootUnknown \/ SubMode \/ NoSubMode
  BY <1>1, <1>2, <1>3 DEF RootLeaf, RootMode, RootUnknown, SubMode, NoSubMode, NextChild, Enter
<1>4. CASE TryChild \/ NoChild \/ LoopEnd
  BY <1>1, <1>2, <1>4 DEF TryChild, NoChild, LoopEnd, NextChild
<1>5. CASE RunTarget \/ RunEnd
  BY <1>1, <1>2, <1>5 DEF RunTarget, RunEnd
<1>6. CASE Missing \/ MissingEnd \/ StageValidation
  BY <1>1, <1>2, <1>6 DEF Missing, MissingEnd, StageValidation, NextChild
<1>7. CASE Route \/ RouteLeaf
  BY <1>1, <1>2, <1>7 DEF Route, RouteLeaf, Finish
<1>8. CASE UNCHANGED vars
  BY <1>8 DEF vars, Quiet
<1>9. ASSUME NEW words, Call(words) PROVE thrown' = ""
  BY <1>9 DEF Call
<1> QED
  BY <1>3, <1>4, <1>5, <1>6, <1>7, <1>8, <1>9 DEF Next, Step

\* A value that a child has while the targets parse came from one of them.
InRun ==
  phase = "run" =>
    /\ args = <<>>
    /\ \A k \in DOMAIN Children : results[k] # Unset => \E j \in 1 .. i - 1 : OwnerOf(j) = k

LEMMA InRunStep ==
  ASSUME NEW nodes, NEW A, GroupRules(nodes, A)
  PROVE  Typing(nodes, A) /\ Running /\ SetSoFar /\ InRun /\ [Next]_vars => InRun'
<1> SUFFICES ASSUME Typing(nodes, A), Running, SetSoFar, InRun, [Next]_vars, phase' = "run" PROVE InRun'
  BY DEF InRun
<1>1. Parsing'
  BY DEF Parsing
<1>2. CASE UNCHANGED vars
  <2>1. UNCHANGED <<phase, tree, path, args, targets, results, i>>
    BY <1>2 DEF vars
  <2> QED
    BY <2>1, SameOwners DEF InRun
<1>3. CASE LoopEnd
  <2>1. /\ args' = <<>> /\ results' = [k \in DOMAIN Children |-> Unset]
        /\ UNCHANGED <<tree, path, targets>>
    BY <1>3 DEF LoopEnd
  <2> QED
    BY <2>1, SameOwners DEF InRun
<1>4. CASE RunTarget
  <2> DEFINE new == Merged(NodeOf(targets[i].node), results[OwnerOf(i)],
                           Parsed(NodeOf(targets[i].node), targets[i]))
  <2>1. /\ i \in 1 .. Len(targets) /\ phase = "run" /\ i' = i + 1
        /\ results' = IF Valued(OwnerOf(i)) THEN [results EXCEPT ![OwnerOf(i)] = new] ELSE results
        /\ UNCHANGED <<tree, path, targets>>
    BY <1>1, <1>4, TargetParsed DEF GroupRules
  <2> HIDE DEF new
  <2>2. args' = <<>> /\ i \in 1 .. i' - 1 /\ 1 .. i - 1 \subseteq 1 .. i' - 1
    <3>1. UNCHANGED args
      BY <1>4 DEF RunTarget, Fail
    <3> QED
      BY <2>1, <3>1 DEF InRun
  <2>3. \A k \in DOMAIN Children : k # OwnerOf(i) /\ results'[k] # Unset => results[k] # Unset
    <3>1. DOMAIN results = DOMAIN Children
      BY <2>1 DEF SetSoFar, Parsing
    <3> QED
      BY <2>1, <3>1
  <2> QED
    BY <2>1, <2>2, <2>3, SameOwners DEF InRun
<1>5. ~RunEnd /\ ~Missing /\ ~MissingEnd /\ ~StageValidation /\ ~Route
  BY DEF RunEnd, Missing, MissingEnd, StageValidation, Route, NextChild, Fail, Finish
<1> QED
  BY <1>1, <1>2, <1>3, <1>4, <1>5, StepsOfParsing

\* All that the two theorems know of a call
Known(nodes, A) == Typing(nodes, A) /\ Running /\ SetSoFar /\ Quiet /\ InLoop /\ InRun

LEMMA KnownHolds ==
  ASSUME NEW nodes, NEW A, GroupRules(nodes, A)
  PROVE  Spec => []Known(nodes, A)
<1>1. Init => SetSoFar /\ Quiet /\ InLoop /\ InRun
  BY DEF Init, SetSoFar, Parsing, Quiet, InLoop, InRun
<1>2. Typing(nodes, A) /\ Running /\ SetSoFar /\ [Next]_vars => SetSoFar'
  BY SetSoFarStep DEF GroupRules
<1>3. Quiet /\ [Next]_vars => Quiet'
  BY QuietStep
<1>4. Typing(nodes, A) /\ InLoop /\ [Next]_vars => InLoop'
  BY InLoopStep
<1>5. Typing(nodes, A) /\ Running /\ SetSoFar /\ InRun /\ [Next]_vars => InRun'
  BY InRunStep
<1>6. Spec => []Typing(nodes, A)
  BY TypingHolds DEF GroupRules
<1> QED
  BY <1>1, <1>2, <1>3, <1>4, <1>5, <1>6, RunningHolds, PTL DEF Spec, Known

\* The leaves of the child whose turn it is are those it tries.
LEMMA LeavesTried ==
  ASSUME NEW nodes, NEW A, GroupRules(nodes, A), Typing(nodes, A), i \in DOMAIN Children,
         Child.kind # "mode"
  PROVE  Leaves(Child) \subseteq Tried
  BY LeavesTyped DEF Tried, Child

\* An attempt that failed with "already set" failed for a leaf that the front
\* word names, and that leaf, or another one of the alias_group, has been set.
LEMMA SetBefore ==
  ASSUME NEW nodes, NEW A, GroupRules(nodes, A), Typing(nodes, A), InLoop, phase = "loop",
         NEW n, NEW sel, FailedAt(n, sel), thrown' = "argument_has_already_been_set"
  PROVE  /\ n \in Tried /\ NamedBy(n, Head(args))
         /\ \E m \in IF Child.kind = "alias_group" THEN Tried ELSE {n} : Sets(m) \subseteq Done
<1>1. /\ args # <<>> /\ i \in DOMAIN Children /\ Child.kind # "mode" /\ n \in Leaves(Child)
      /\ IsNamed(n) => NamedBy(n, Head(args))
      /\ Child.kind = "one_of" => sel = Selected(Child.id)
  BY DEF FailedAt
<1>2. i \in matched /\ IsNamed(n) /\ (Child.kind = "one_of" => sel \in {"none", n.id})
  <2> DEFINE already == i \in matched
  <2>1. already \in BOOLEAN /\ VerdictOf(Child, n, sel, already) = "argument_has_already_been_set"
    BY DEF FailedAt
  <2> HIDE DEF already
  <2>2. already /\ IsNamed(n) /\ (Child.kind = "one_of" => sel \in {"none", n.id})
    BY <2>1, Verdicts
  <2> QED
    BY <2>2 DEF already
<1>3. PICK m \in Leaves(Child) : /\ Sets(m) \subseteq Done
                                 /\ Child.kind = "one_of" => Selected(Child.id) = m.id
  BY <1>1, <1>2 DEF InLoop, HasSet, Child
<1>4. m \in Tried /\ n \in Tried
  BY <1>1, LeavesTried
<1>5. CASE Child.kind = "alias_group"
  BY <1>1, <1>2, <1>3, <1>4, <1>5
<1>6. CASE Child.kind = "one_of"
  <2>1. /\ m.id # "none" /\ m \in ToSet(Nodes(Children)) /\ n \in ToSet(Nodes(Children))
    BY <1>1, LeavesTyped DEF Child
  <2>2. m.id = n.id
    BY <1>1, <1>2, <1>3, <1>6, <2>1
  <2>3. m = n
    BY <2>1, <2>2, ChildrenAreSiblings DEF GroupRules, DistinctIds
  <2> QED
    BY <1>1, <1>2, <1>3, <1>4, <1>6, <2>3
<1>7. CASE Child.kind \notin {"one_of", "alias_group"}
  <2>1. m = n
    BY <1>1, <1>7 DEF Leaves
  <2> QED
    BY <1>1, <1>2, <1>3, <1>4, <1>7, <2>1
<1> QED
  BY <1>5, <1>6, <1>7

LEMMA AlreadySetStep ==
  ASSUME NEW nodes, NEW A, GroupRules(nodes, A)
  PROVE  Known(nodes, A) /\ AlreadySetIsTrue /\ [Next]_vars => AlreadySetIsTrue'
<1> SUFFICES ASSUME Known(nodes, A), AlreadySetIsTrue, [Next]_vars,
                    thrown' = "argument_has_already_been_set"
             PROVE  AlreadySetIsTrue'
  BY DEF AlreadySetIsTrue
<1>1. Typing(nodes, A) /\ SetSoFar /\ Quiet /\ InLoop /\ InRun
  BY DEF Known
<1>2. CASE UNCHANGED vars
  <2>1. UNCHANGED <<thrown, tree, args, i, path, targets>>
    BY <1>2 DEF vars
  <2>2. Tried' = Tried /\ Child' = Child /\ Done' = Done
    BY <2>1 DEF Tried, Child, Children, Mode, Done
  <2> QED
    BY <2>1, <2>2, SameOwners DEF AlreadySetIsTrue, OwnerOf
<1>3. CASE /\ UNCHANGED <<tree, args, i, path, targets>>
           /\ \/ phase = "loop" /\ \E n, sel : FailedAt(n, sel)
              \/ FailedAgain
  <2>1. Children' = Children /\ Child' = Child /\ Tried' = Tried /\ Done' = Done
    BY <1>3 DEF Children, Mode, Child, Tried, Done
  <2>2. ASSUME NEW n, NEW sel, phase = "loop", FailedAt(n, sel) PROVE AlreadySetIsTrue'
    <3>1. /\ n \in Tried /\ NamedBy(n, Head(args)) /\ args # <<>>
          /\ \E m \in IF Child.kind = "alias_group" THEN Tried ELSE {n} : Sets(m) \subseteq Done
      BY <1>1, <2>2, SetBefore DEF FailedAt
    <3> QED
      BY <1>3, <2>1, <3>1 DEF AlreadySetIsTrue
  <2>3. CASE FailedAgain
    <3>1. phase = "run" /\ i \in DOMAIN targets /\ results[OwnerOf(i)] # Unset
      BY <2>3 DEF FailedAgain
    <3>2. OwnerOf(i) \in DOMAIN Children /\ args = <<>>
      BY <1>1, <3>1, Ownership DEF GroupRules, OwnerOf, InRun
    <3>3. PICK j \in 1 .. i - 1, k \in {i} : OwnerOf(j) = OwnerOf(k)
      BY <1>1, <3>1, <3>2 DEF InRun
    <3>4. j \in DOMAIN targets' /\ k \in DOMAIN targets' /\ j # k
      <4>1. DOMAIN targets = 1 .. Len(targets) /\ Len(targets) \in Nat
        BY <1>1 DEF Typing
      <4> QED
        BY <1>3, <3>1, <4>1
    <3>5. OwnerOf(j)' = OwnerOf(k)'
      BY <1>3, <3>3, SameOwners
    <3>6. args' = <<>>
      BY <1>3, <3>2
    <3> QED
      BY <3>4, <3>5, <3>6 DEF AlreadySetIsTrue, OwnerOf
  <2> QED
    BY <1>3, <2>2, <2>3
<1> QED
  BY <1>1, <1>2, <1>3, WhoFails DEF SetErrors

\* "Already set" is said only of a node that has been set: of one that the
\* front word names or of another one of its alias_group, or, once no words
\* are left, of one with two targets (mode.hpp:285-335, 360-400).
THEOREM AlreadySetHolds ==
  ASSUME NEW nodes, NEW A, TreesOf(nodes, A), DistinctIds(nodes), LeavesInGroups(nodes),
         AliasesExist(nodes)
  PROVE  Spec => []AlreadySetIsTrue
<1>1. GroupRules(nodes, A)
  BY DEF GroupRules
<1>2. Init => AlreadySetIsTrue
  BY DEF Init, AlreadySetIsTrue
<1>3. Known(nodes, A) /\ AlreadySetIsTrue /\ [Next]_vars => AlreadySetIsTrue'
  BY <1>1, AlreadySetStep
<1>4. Spec => []Known(nodes, A)
  BY <1>1, KnownHolds
<1> QED
  BY <1>2, <1>3, <1>4, PTL DEF Spec
-----------------------------------------------------------------------------
\* The first call

\* No one_of has selected before its mode is reached, and what one has then
\* selected is set.
FirstCall ==
  /\ calls = 0 => phase = "idle" /\ selected = <<>>
  /\ phase \in {"root", "submode"} => selected = <<>>
  /\ phase = "loop" =>
       \A k \in DOMAIN Children :
          Children[k].kind = "one_of" /\ Selected(Children[k].id) # "none" => HasSet(k)

LEMMA FirstCallStep ==
  ASSUME NEW nodes, NEW A, GroupRules(nodes, A), MaxCalls <= 1
  PROVE  Typing(nodes, A) /\ InLoop /\ FirstCall /\ [Next]_vars => FirstCall'
<1> SUFFICES ASSUME Typing(nodes, A), InLoop, FirstCall, [Next]_vars PROVE FirstCall'
  OBVIOUS
<1>1. calls \in 0 .. MaxCalls /\ MaxCalls \in Nat
  BY MaxCallsAssumption DEF Typing
<1>2. CASE UNCHANGED vars
  <2>1. UNCHANGED <<calls, phase, tree, path, targets, selected>>
    BY <1>2 DEF vars
  <2>2. \A k : HasSet(k)' <=> HasSet(k)
    BY <2>1 DEF HasSet, Children, Mode, Done, Selected
  <2>3. Children' = Children /\ \A id : Selected(id)' = Selected(id)
    BY <2>1 DEF Children, Mode, Selected
  <2> QED
    BY <2>1, <2>2, <2>3 DEF FirstCall
<1>3. ASSUME NEW words, Call(words) PROVE FirstCall'
  <2>1. calls < MaxCalls /\ calls' = calls + 1 /\ phase' = "root" /\ UNCHANGED selected
    BY <1>3 DEF Call
  <2>2. calls = 0 /\ calls' # 0
    BY <1>1, <2>1
  <2> QED
    BY <2>1, <2>2 DEF FirstCall
<1>4. CASE Step
  <2>1. calls' # 0
    BY <1>4, StepKinds DEF GoesOn, Throws, Returns, FirstCall
  <2>2. CASE TryChild
    <3>1. phase = "loop" /\ phase' # "root" /\ phase' # "submode"
      BY <2>2 DEF TryChild, NextChild, Fail
    <3>2. ASSUME phase' = "loop", NEW k \in DOMAIN Children', Children[k]'.kind = "one_of",
                 Selected(Children[k].id)' # "none"
          PROVE  HasSet(k)'
      <4>1. /\ Children' = Children
            /\ HasSet(k) => HasSet(k)'
            /\ Children[k].kind = "one_of" /\ Selected(Children[k].id)' # Selected(Children[k].id) => HasSet(k)'
        BY <2>2, <3>2, TryKeeps
      <4> QED
        BY <3>1, <3>2, <4>1 DEF FirstCall
    <3> QED
      BY <2>1, <3>1, <3>2 DEF FirstCall
  <2>3. CASE phase \in {"root", "submode"} /\ UNCHANGED selected
    <3>1. selected' = <<>>
      BY <2>3 DEF FirstCall
    <3>2. \A id : Selected(id)' = "none"
      BY <3>1 DEF Selected
    <3> QED
      BY <2>1, <3>1, <3>2 DEF FirstCall
  <2>4. CASE phase' \notin {"root", "submode", "loop"}
    BY <2>1, <2>4 DEF FirstCall
  <2> QED
    BY <1>2, <1>3, <2>2, <2>3, <2>4, StepsOfLoop
<1> QED
  BY <1>2, <1>3, <1>4 DEF Next

LEMMA MismatchStep ==
  ASSUME NEW nodes, NEW A, GroupRules(nodes, A)
  PROVE  Known(nodes, A) /\ FirstCall /\ MismatchIsTrue /\ [Next]_vars => MismatchIsTrue'
<1> SUFFICES ASSUME Known(nodes, A), FirstCall, MismatchIsTrue, [Next]_vars,
                    thrown' = "one_of_selected_type_mismatch"
             PROVE  MismatchIsTrue'
  BY DEF MismatchIsTrue
<1>1. Typing(nodes, A) /\ Quiet /\ InLoop
  BY DEF Known
<1>2. CASE UNCHANGED vars
  <2>1. UNCHANGED <<thrown, tree, args, i, path, targets>>
    BY <1>2 DEF vars
  <2> QED
    BY <2>1 DEF MismatchIsTrue, Tried, Child, Children, Mode, Done
<1>3. CASE /\ UNCHANGED <<tree, args, i, path, targets>>
           /\ phase = "loop" /\ \E n, sel : FailedAt(n, sel)
  <2>1. PICK n, sel : FailedAt(n, sel)
    BY <1>3
  <2>2. /\ args # <<>> /\ i \in DOMAIN Children /\ Child.kind # "mode" /\ n \in Leaves(Child)
        /\ IsNamed(n) => NamedBy(n, Head(args))
        /\ Child.kind = "one_of" => sel = Selected(Child.id)
    BY <2>1 DEF FailedAt
  <2>3. Child.kind = "one_of" /\ sel \notin {"none", n.id}
    <3> DEFINE already == i \in matched
    <3>1. already \in BOOLEAN /\ VerdictOf(Child, n, sel, already) = "one_of_selected_type_mismatch"
      BY <2>1 DEF FailedAt
    <3> HIDE DEF already
    <3> QED
      BY <3>1, Verdicts
  <2>4. PICK m \in Leaves(Child) : Sets(m) \subseteq Done /\ Selected(Child.id) = m.id
    BY <1>3, <2>2, <2>3 DEF FirstCall, HasSet, Child
  <2>5. m \in Tried /\ n \in Tried
    BY <1>1, <2>2, LeavesTried
  <2>6. Tried' = Tried /\ Done' = Done /\ args' = args
    BY <1>3 DEF Children, Mode, Child, Tried, Done
  <2> QED
    BY <2>2, <2>3, <2>4, <2>5, <2>6 DEF MismatchIsTrue
<1>4. ~FailedAgain
  BY DEF FailedAgain
<1> QED
  BY <1>1, <1>2, <1>3, <1>4, WhoFails DEF SetErrors

\* In a first call "only one of" is said only of a command line that has two
\* of them.  What a one_of selected outlives the call, so that of a later call
\* this is not true (one_of.hpp:83-129).
THEOREM MismatchHolds ==
  ASSUME NEW nodes, NEW A, TreesOf(nodes, A), DistinctIds(nodes), LeavesInGroups(nodes),
         AliasesExist(nodes), MaxCalls <= 1
  PROVE  Spec => []MismatchIsTrue
<1>1. GroupRules(nodes, A)
  BY DEF GroupRules
<1>2. Init => FirstCall /\ MismatchIsTrue
  BY DEF Init, FirstCall, MismatchIsTrue
<1>3. Typing(nodes, A) /\ InLoop /\ FirstCall /\ [Next]_vars => FirstCall'
  BY <1>1, FirstCallStep
<1>4. Known(nodes, A) /\ FirstCall /\ MismatchIsTrue /\ [Next]_vars => MismatchIsTrue'
  BY <1>1, MismatchStep
<1>5. Known(nodes, A) => Typing(nodes, A) /\ InLoop
  BY DEF Known
<1>6. Spec => []Known(nodes, A)
  BY <1>1, KnownHolds
<1> QED
  BY <1>2, <1>3, <1>4, <1>5, <1>6, PTL DEF Spec
=============================================================================
