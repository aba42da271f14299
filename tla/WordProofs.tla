----------------------------- MODULE WordProofs -----------------------------
(***************************************************************************)
(* Proofs about Parser that follow the words into the nodes: which nodes   *)
(* are set when another depends on them, which mode gets the words, that   *)
(* every match leaves less of the line, how many tokens a node takes, and  *)
(* where a list ends.                                                      *)
(***************************************************************************)
EXTENDS ResultProofs

\* Dependencies

\* Every target of a node that depends on others is behind targets of those.
DependsSoFar ==
  \A k \in DOMAIN targets : \A n \in ToSet(Nodes(Children)) :
     n.id = targets[k].node /\ "dependent" \in n.policies => n.depends \subseteq Done

LEMMA DependsSoFarStep ==
  ASSUME NEW nodes, NEW A, GroupRules(nodes, A), AliasesOfIndependent(nodes)
  PROVE  Typing(nodes, A) /\ DependsSoFar /\ [Next]_vars => DependsSoFar'
<1> SUFFICES ASSUME Typing(nodes, A), DependsSoFar, [Next]_vars PROVE DependsSoFar'
  OBVIOUS
<1>1. CASE UNCHANGED <<tree, path, targets>>
  <2>1. Done' = Done
    BY <1>1 DEF Done
  <2> QED
    BY <1>1, <2>1, SameOwners DEF DependsSoFar
<1>2. CASE targets' = <<>>
  BY <1>2 DEF DependsSoFar
<1>3. ASSUME UNCHANGED <<tree, path>>, NEW m \in ToSet(Nodes(Children)), NEW verdict, NEW o,
             MatchAdds(A, m, verdict, o)
      PROVE  DependsSoFar'
  <2>1. Children' = Children
    BY <1>3 DEF Children, Mode
  <2>2. ASSUME NEW k \in DOMAIN targets', NEW n \in ToSet(Nodes(Children)), n.id = targets'[k].node,
               "dependent" \in n.policies
        PROVE  n.depends \subseteq Done
    <3>1. CASE k \in DOMAIN targets /\ targets'[k] = targets[k]
      BY <2>2, <3>1 DEF DependsSoFar
    <3>2. ASSUME NEW j \in DOMAIN o.targets, targets'[k] = o.targets[j] PROVE n.depends \subseteq Done
      <4>1. o.targets[j].node \in Settable(m, Children)
        <5>1. o.targets \in Seq(TargetsOf(A, Settable(m, Children)))
          BY <1>3 DEF MatchAdds, WellTyped
        <5>2. o.targets[j] \in TargetsOf(A, Settable(m, Children))
          BY <5>1
        <5> QED
          BY <5>2 DEF TargetsOf
      <4>2. /\ \A a, b \in ToSet(Nodes(Children)) : a.id = b.id => a = b
            /\ n.id \notin m.alias
        BY <2>2, ChildrenAreSiblings DEF GroupRules, DistinctIds, AliasesOfIndependent
      <4>3. n = m
        BY <2>2, <3>2, <4>1, <4>2 DEF Settable
      <4>4. MatchOf(m, Done, verdict, o)
        <5>1. /\ Children \in Seq(nodes) /\ args \in Seq(Words(A))
              /\ \A x \in nodes : x.children \in Seq(nodes) /\ Parameters(x)
          BY ChildrenTyped DEF GroupRules, TreesOf, Parameters, Typing
        <5>2. m \in nodes
          BY <5>1, ChildAmongNodes
        <5>3. "alias" \in m.policies => m.alias \subseteq IdsOf(Children)
          BY ChildrenAreSiblings DEF GroupRules, AliasesExist, IdsOf
        <5>4. o = PreParseLeaf(m, Children, Done, args, verdict) /\ o.kind = "match"
          BY <1>3 DEF MatchAdds
        <5> QED
          BY <5>1, <5>2, <5>3, <5>4, MatchFacts
      <4> QED
        BY <2>2, <4>3, <4>4 DEF MatchOf
    <3> QED
      BY <1>3, <2>2, <3>1, <3>2 DEF MatchAdds
  <2>3. Done \subseteq Done'
    BY <1>3 DEF MatchAdds
  <2> QED
    BY <2>1, <2>2, <2>3 DEF DependsSoFar
<1> QED
  BY <1>1, <1>2, <1>3, TargetsGrow DEF GroupRules

\* The child has a value, and it is that of one node.
Single(k) == Valued(k) /\ (Children[k].children = <<>> \/ ~Multi(k))

\* A value is the default or a target's; that of a child whose targets do not
\* merge is of the node of each of them.
ByTarget ==
  Parsing =>
    /\ \A k \in DOMAIN results : results[k].by \in {Unset.by, "default"} \cup Done
    /\ \A j \in 1 .. Behind : Single(OwnerOf(j)) => results[OwnerOf(j)].by = targets[j].node

LEMMA ByTargetStep ==
  ASSUME NEW nodes, NEW A, TreesOf(nodes, A), DistinctIds(nodes)
  PROVE  Typing(nodes, A) /\ Running /\ SetSoFar /\ ByTarget /\ [Next]_vars => ByTarget'
<1> SUFFICES ASSUME Typing(nodes, A), Running, SetSoFar, ByTarget, [Next]_vars, Parsing' PROVE ByTarget'
  BY DEF ByTarget
<1>1. Len(targets) \in Nat /\ DOMAIN targets = 1 .. Len(targets) /\ i \in Nat \ {0}
  BY DEF Typing
<1>2. ASSUME UNCHANGED <<tree, path, targets>>
      PROVE  /\ Done' = Done /\ \A j : OwnerOf(j)' = OwnerOf(j)
             /\ \A k : Single(k)' = Single(k)
  BY <1>2, SameOwners DEF Done, Single
<1>3. ASSUME Parsing, UNCHANGED <<tree, path, targets, results>>, Behind' = Behind PROVE ByTarget'
  BY <1>2, <1>3 DEF ByTarget
<1>4. CASE UNCHANGED vars
  <2>1. UNCHANGED <<tree, path, targets, results, phase, i, answer>>
    BY <1>4 DEF vars
  <2> QED
    BY <1>3, <2>1 DEF Parsing, Behind
<1>5. CASE LoopEnd
  <2>1. /\ phase' = "run" /\ i' = 1 /\ results' = [k \in DOMAIN Children |-> Unset]
        /\ UNCHANGED <<tree, path, targets>>
    BY <1>5 DEF LoopEnd
  <2>2. Behind' = 0
    BY <2>1 DEF Behind
  <2> QED
    BY <2>1, <2>2 DEF ByTarget
<1>6. CASE Parsing /\ RunTarget
  <2> DEFINE node == NodeOf(targets[i].node)
             new  == Merged(node, results[OwnerOf(i)], Parsed(node, targets[i]))
             k    == OwnerOf(i)
  <2>1. /\ i \in 1 .. Len(targets) /\ phase = "run" /\ phase' = "run" /\ i' = i + 1
        /\ node.multi_stage \/ results[OwnerOf(i)] = Unset
        /\ results' = IF Valued(OwnerOf(i)) THEN [results EXCEPT ![OwnerOf(i)] = new] ELSE results
        /\ UNCHANGED <<tree, path, targets>>
    BY <1>6, TargetParsed
  <2>2. k \in DOMAIN Children /\ node \in ToSet(Nodes(<<Children[k]>>)) /\ node.id = targets[i].node
        /\ Children[k] \in nodes
    BY <1>1, <2>1, Ownership DEF OwnerOf
  <2>3. new.by = targets[i].node
    BY <2>2 DEF Merged, Parsed, Value
  <2> HIDE DEF new, node
  <2>4. Behind = i - 1 /\ Behind' = i
    BY <1>1, <2>1 DEF Behind
  <2>5. /\ DOMAIN results = DOMAIN Children
        /\ \A j \in 1 .. i - 1 : Valued(OwnerOf(j)) => results[OwnerOf(j)] # Unset
    BY <1>6, <2>1, <2>4 DEF SetSoFar
  <2>6. targets[i].node \in Done
    BY <1>1, <2>1 DEF Done
  <2>7. ASSUME NEW j \in 1 .. i, Single(OwnerOf(j)) PROVE results'[OwnerOf(j)].by = targets[j].node
    <3>1. CASE j = i
      BY <2>1, <2>2, <2>3, <2>5, <2>7, <3>1 DEF Single
    <3>2. CASE j # i /\ OwnerOf(j) # k
      <4>1. j \in 1 .. i - 1
        BY <1>1, <3>2
      <4>2. results[OwnerOf(j)].by = targets[j].node
        BY <1>6, <2>4, <2>7, <4>1 DEF ByTarget
      <4> QED
        BY <2>1, <3>2, <4>2
    <3>3. CASE j # i /\ OwnerOf(j) = k
      <4>1. j \in 1 .. i - 1 /\ j \in DOMAIN targets
        BY <1>1, <2>1, <3>3
      <4>2. Multi(k)
        BY <2>1, <2>2, <2>5, <2>7, <3>3, <4>1 DEF Multi, Single
      <4>3. Children[k].children = <<>>
        BY <2>7, <3>3, <4>2 DEF Single
      <4>4. ToSet(Nodes(<<Children[k]>>)) = {Children[k]}
        <5>1. \A n \in nodes : n.children \in Seq(nodes)
          BY DEF TreesOf
        <5>2. ASSUME NEW c \in nodes, c.children = <<>> PROVE ToSet(Nodes(<<c>>)) = {c}
          <6>1. ToSet(Nodes(<<c>>)) = {c} \cup ToSet(c.children)
            BY <5>1, NodesOfOne
          <6>2. ToSet(<<>>) = {}
            BY DEF ToSet
          <6> QED
            BY <5>2, <6>1, <6>2
        <5> QED
          BY <2>2, <4>3, <5>2
      <4>5. /\ NodeOf(targets[j].node) \in ToSet(Nodes(<<Children[k]>>))
            /\ NodeOf(targets[j].node).id = targets[j].node
        BY <3>3, <4>1, Ownership DEF OwnerOf
      <4>6. targets[j].node = targets[i].node
        BY <2>2, <4>4, <4>5 DEF node
      <4> QED
        BY <2>1, <2>2, <2>3, <2>5, <2>7, <3>3, <4>6 DEF Single
    <3> QED
      BY <3>1, <3>2, <3>3
  <2>8. \A x \in DOMAIN results' : results'[x].by \in {Unset.by, "default"} \cup Done
    BY <1>6, <2>1, <2>3, <2>6 DEF ByTarget
  <2> QED
    BY <1>2, <2>1, <2>4, <2>7, <2>8 DEF ByTarget
<1>7. CASE Parsing /\ RunEnd
  <2>1. phase = "run" /\ i > Len(targets) /\ phase' = "missing" /\ UNCHANGED <<tree, path, targets, results>>
    BY <1>7 DEF RunEnd
  <2>2. Behind = i - 1 /\ Behind \in 0 .. Len(targets) /\ Behind' = Len(targets)
    BY <1>7, <2>1 DEF SetSoFar, Behind
  <2> QED
    BY <1>1, <1>3, <1>7, <2>1, <2>2
<1>8. CASE Parsing /\ Missing
  <2>1. /\ phase = "missing" /\ i \in DOMAIN results /\ UNCHANGED <<tree, path, targets, phase>>
        /\ UNCHANGED results \/ (results[i] = Unset
             /\ results' = [results EXCEPT ![i] = Value("default", Child.default)])
    <3>1. /\ phase = "missing" /\ i <= Len(Children) /\ UNCHANGED <<tree, path, targets, phase>>
          /\ UNCHANGED results \/ (results[i] = Unset
               /\ results' = [results EXCEPT ![i] = Value("default", Child.default)])
      BY <1>8, FailStops DEF Missing, NextChild
    <3>2. Children \in Seq(nodes) /\ DOMAIN results = DOMAIN Children
      BY <1>8, ChildrenTyped DEF SetSoFar
    <3> QED
      BY <1>1, <3>1, <3>2
  <2>2. Behind' = Len(targets) /\ Behind = Len(targets)
    BY <2>1 DEF Behind
  <2>3. CASE UNCHANGED results
    BY <1>3, <1>8, <2>1, <2>2, <2>3
  <2>4. CASE results[i] = Unset /\ results' = [results EXCEPT ![i] = Value("default", Child.default)]
    <3>1. \A j \in 1 .. Len(targets) : Single(OwnerOf(j)) => OwnerOf(j) # i
      <4> SUFFICES ASSUME NEW j \in 1 .. Len(targets), Single(OwnerOf(j)), OwnerOf(j) = i PROVE FALSE
        OBVIOUS
      <4>1. results[i].by = targets[j].node
        BY <1>8, <2>2 DEF ByTarget
      <4>2. targets[j].node # Unset.by
        BY <1>1, Ownership
      <4> QED
        BY <2>4, <4>1, <4>2
    <3>2. \A j \in 1 .. Len(targets) : Single(OwnerOf(j)) => results'[OwnerOf(j)].by = targets[j].node
      BY <1>8, <2>2, <2>4, <3>1 DEF ByTarget
    <3>3. Value("default", Child.default).by = "default"
      BY DEF Value
    <3>4. \A x \in DOMAIN results' : results'[x].by \in {Unset.by, "default"} \cup Done
      BY <1>8, <2>1, <2>4, <3>3 DEF ByTarget
    <3> QED
      BY <1>2, <2>1, <2>2, <3>2, <3>4 DEF ByTarget
  <2> QED
    BY <2>1, <2>3, <2>4
<1>9. CASE Parsing /\ (MissingEnd \/ StageValidation \/ Route)
  <2>1. phase # "run" /\ phase' # "run" /\ UNCHANGED <<tree, path, targets, results>>
    BY <1>9 DEF MissingEnd, StageValidation, Route, NextChild, Fail, Finish
  <2> QED
    BY <1>3, <1>9, <2>1 DEF Behind
<1> QED
  BY <1>4, <1>5, <1>6, <1>7, <1>8, <1>9, StepsOfParsing

\* Only a mode has results.
ModeHasResults == path = <<>> => results = <<>>

LEMMA ModeHasResultsStep ==
  ASSUME NEW nodes, NEW A
  PROVE  Typing(nodes, A) /\ ModeHasResults /\ [Next]_vars => ModeHasResults'
<1> SUFFICES ASSUME Typing(nodes, A), ModeHasResults, [Next]_vars PROVE ModeHasResults'
  OBVIOUS
<1>1. ASSUME UNCHANGED <<path, results>> PROVE ModeHasResults'
  BY <1>1 DEF ModeHasResults
<1>2. \A code : Fail(code) => UNCHANGED <<path, results>>
  BY DEF Fail
<1>3. ASSUME phase \in {"loop", "run", "missing", "stages"}, UNCHANGED path PROVE ModeHasResults'
  BY <1>3 DEF ModeHasResults, Typing
<1>4. ASSUME NEW mode, NEW rest, NEW next, Enter(mode, rest, next) PROVE ModeHasResults'
  <2>1. path' = Append(path, mode)
    BY <1>4 DEF Enter
  <2>2. path' # <<>>
    <3>1. path \in Seq(Modes(nodes))
      BY DEF Typing
    <3> QED
      BY <2>1, <3>1
  <2> QED
    BY <2>2 DEF ModeHasResults
<1>5. CASE RootLeaf \/ RootUnknown \/ NoSubMode
  BY <1>1, <1>2, <1>5 DEF RootLeaf, RootUnknown, NoSubMode, NextChild
<1>6. CASE RootMode \/ SubMode
  <2>1. NextChild \/ \E mode, rest, next : Enter(mode, rest, next)
    BY <1>6 DEF RootMode, SubMode
  <2> QED
    BY <1>1, <1>4, <2>1 DEF NextChild
<1>7. CASE TryChild \/ NoChild \/ LoopEnd
  BY <1>3, <1>7 DEF TryChild, NoChild, LoopEnd, NextChild, Fail
<1>8. CASE RunTarget \/ RunEnd \/ Missing \/ MissingEnd
  BY <1>3, <1>8 DEF RunTarget, RunEnd, Missing, MissingEnd, NextChild, Fail
<1>9. CASE StageValidation \/ Route \/ RouteLeaf
  BY <1>1, <1>2, <1>9 DEF StageValidation, Route, RouteLeaf, NextChild, Finish
<1>10. ASSUME NEW words, Call(words) PROVE ModeHasResults'
  BY <1>10 DEF Call, ModeHasResults
<1>11. CASE UNCHANGED vars
  BY <1>1, <1>11 DEF vars
<1> QED
  BY <1>5, <1>6, <1>7, <1>8, <1>9, <1>10, <1>11 DEF Next, Step

\* A node with dependencies reaches the router only together with the nodes it
\* depends on (dependent.hpp:60-92), in every tree in which no alias stands for
\* it, an alias does not ask, in which child modes are apart, and in which what
\* it depends on does not stand for others and does not merge with others.
THEOREM DependenciesAreMet ==
  ASSUME NEW nodes, NEW A, TreesOf(nodes, A), DistinctIds(nodes), LeavesInGroups(nodes),
         AliasesExist(nodes), AliasesOfIndependent(nodes), DependsOnSingle(nodes),
         ModesApart(nodes)
  PROVE  Spec => []DependenciesMet
<1>1. GroupRules(nodes, A)
  BY DEF GroupRules
<1>2. Init => DependsSoFar /\ ByTarget /\ SetSoFar /\ ModeHasResults /\ NoneOfModes
  <2>1. Init => targets = <<>> /\ path = <<>> /\ results = <<>> /\ ~Parsing
    BY DEF Init, Parsing
  <2>2. targets = <<>> => DependsSoFar
    BY DEF DependsSoFar
  <2> QED
    BY <2>1, <2>2 DEF ByTarget, SetSoFar, ModeHasResults, NoneOfModes
<1>3. Typing(nodes, A) /\ DependsSoFar /\ [Next]_vars => DependsSoFar'
  BY <1>1, DependsSoFarStep
<1>4. Typing(nodes, A) /\ Running /\ SetSoFar /\ ByTarget /\ [Next]_vars => ByTarget'
  BY ByTargetStep
<1>5. Typing(nodes, A) /\ Running /\ SetSoFar /\ [Next]_vars => SetSoFar'
  BY SetSoFarStep
<1>6. Typing(nodes, A) /\ ModeHasResults /\ [Next]_vars => ModeHasResults'
  BY ModeHasResultsStep
<1>7. Typing(nodes, A) /\ DependsSoFar /\ ByTarget /\ SetSoFar /\ ModeHasResults /\ Running /\ NoneOfModes
       => DependenciesMet
  <2> SUFFICES ASSUME Typing(nodes, A), DependsSoFar, ByTarget, SetSoFar, ModeHasResults,
                      Running, NoneOfModes, answer = "routed", NEW n \in ToSet(Nodes(Children)),
                      "dependent" \in n.policies, SetByUser(n.id), NEW id \in n.depends
               PROVE  SetByUser(id)
    BY DEF DependenciesMet
  <2>1. PICK k \in DOMAIN results : results[k].by = n.id
    BY DEF SetByUser
  <2>2. path # <<>>
    BY <2>1 DEF ModeHasResults
  <2>3. Parsing
    BY <2>2 DEF Parsing
  <2>9. phase # "run"
    BY DEF Running
  <2>4. n.id \in Done
    <3>1. n.id \notin {Unset.by, "default"}
      BY ChildrenAreSiblings DEF DistinctIds
    <3> QED
      BY <2>1, <2>3, <3>1 DEF ByTarget
  <2>5. id \in Done
    BY <2>4 DEF DependsSoFar, Done
  <2>6. PICK j \in DOMAIN targets : targets[j].node = id
    BY <2>5 DEF Done
  <2>7. Single(OwnerOf(j)) /\ OwnerOf(j) \in DOMAIN Children
    <3>1. /\ OwnerOf(j) \in DOMAIN Children
          /\ NodeOf(id) \in ToSet(Nodes(<<Children[OwnerOf(j)]>>)) /\ NodeOf(id).id = id
      BY <2>6, Ownership DEF OwnerOf
    <3>2. Children[OwnerOf(j)] \in ToSet(Children)
      BY <3>1 DEF ToSet
    <3>3. Children[OwnerOf(j)].kind # "mode"
      BY <2>6 DEF NoneOfModes
    <3> QED
      BY <3>1, <3>2, <3>3, ChildrenAreSiblings DEF DependsOnSingle, Single, Multi, Valued, HasResult
  <2>8. OwnerOf(j) \in DOMAIN results /\ j \in 1 .. Behind
    <3>1. DOMAIN results = DOMAIN Children
      BY <2>3 DEF SetSoFar
    <3>2. Behind = Len(targets)
      BY <2>9 DEF Behind
    <3> QED
      BY <2>7, <3>1, <3>2 DEF Typing
  <2> QED
    BY <2>3, <2>6, <2>7, <2>8 DEF ByTarget, SetByUser
<1>8. Spec => []Typing(nodes, A)
  BY TypingHolds
<1>9. Typing(nodes, A) /\ NoneOfModes /\ [Next]_vars => NoneOfModes'
  BY NoneOfModesStep
<1> QED
  BY <1>2, <1>3, <1>4, <1>5, <1>6, <1>7, <1>8, <1>9, RunningHolds, PTL DEF Spec
-----------------------------------------------------------------------------
\* The search for the mode

\* A mode's attempt at the line: it takes its name, a word, and nothing else.
LEMMA LabelAttempt ==
  ASSUME NEW A, NEW c, c.none # <<>>, c.long = <<>>, c.short = <<>>,
         c.policies \cap LabelPolicies = {}, NEW args0 \in Seq(Words(A)),
         args0 # <<>> => Head(args0).pre = "none",
         NEW o, o = PreParseLeaf(c, <<>>, {}, args0, "accept")
  PROVE  /\ o.kind = "match" => /\ args0 # <<>> /\ Head(args0).name = c.none
                                /\ o.args = Tail(args0)
         /\ o.kind = "none" /\ c.enabled => args0 = <<>> \/ Head(args0).name # c.none
<1> DEFINE s0 == Begin(args0)
           s  == Final(c, <<>>, {}, args0)
<1>1. s0 \in States(A, {}) /\ s0.a = [p |-> <<>>, u |-> args0] /\ s0.act = "valid" /\ s0.subs = <<>>
  <2>1. \A x, act, code, subs : LET t == [a |-> x, act |-> act, code |-> code, subs |-> subs]
                                IN  t.a = x /\ t.act = act /\ t.subs = subs
    OBVIOUS
  <2>2. [p |-> <<>>, u |-> args0] \in Adapters(A) /\ <<>> \in Seq(TargetsOf(A, {}))
    BY DEF Adapters
  <2> QED
    BY <2>1, <2>2 DEF Begin, States, Codes
<1>2. \A t, policy, next : policy \in LabelPolicies => After(t, policy, c, next) = t
  BY DEF After
<1>3. s = After(s0, "runtime_enable", c, RuntimeEnable(c, s0))
  BY <1>2 DEF Final, Counted, Split1, Expand1, Enable1, Mark1, Count1, Alias1, Depend1, LabelPolicies
<1>5. o = Settle(c, s, "accept")
  BY LeafSettles
<1> HIDE DEF s, s0
<1>6. /\ s.a = [p |-> <<>>, u |-> args0] /\ s.act \in {"valid", "skip"} /\ s.subs = <<>>
      /\ c.enabled => s.act = "valid"
  <2>1. /\ Valid(s0).a = s0.a /\ Valid(s0).act = "valid" /\ Valid(s0).subs = s0.subs
        /\ SkipNode(s0).a = s0.a /\ SkipNode(s0).act = "skip" /\ SkipNode(s0).subs = s0.subs
        /\ Valid(s0) \in States(A, {}) /\ SkipNode(s0) \in States(A, {})
    BY <1>1 DEF Valid, SkipNode, States
  <2>2. \A t \in States(A, {}) : LET r == KeepSubs(s0, t)
                                  IN  r.a = t.a /\ r.act = t.act /\ r.subs = t.subs
    BY <1>1 DEF KeepSubs, States
  <2>3. CASE "runtime_enable" \in c.policies
    <3>1. s = KeepSubs(s0, RuntimeEnable(c, s0))
      BY <1>1, <1>3, <2>3 DEF After
    <3> QED
      BY <1>1, <2>1, <2>2, <3>1 DEF RuntimeEnable
  <2>4. CASE "runtime_enable" \notin c.policies
    BY <1>1, <1>3, <2>4 DEF After
  <2> QED
    BY <2>3, <2>4
<1> DEFINE a == WithLabelClaimed(c, s)
<1>7. IsNamed(c) /\ HasNone(c) /\ ~HasLong(c) /\ ~HasShort(c)
  BY DEF IsNamed, HasNone, HasLong, HasShort
<1>8. a = Transfer([p |-> <<>>, u |-> args0], 0)
  <2>1. \A x, y : [p |-> x, u |-> y].p = x
    OBVIOUS
  <2> QED
    BY <1>6, <1>7, <2>1 DEF WithLabelClaimed
<1> HIDE DEF a
<1>9. /\ args0 # <<>> => a = [p |-> <<Head(args0)>>, u |-> Tail(args0)]
      /\ args0 = <<>> => a.p = <<>>
  <2> DEFINE m == Moved(<<>>, args0, 0)
  <2>1. a = [p |-> <<>> \o SubSeq(args0, 1, m), u |-> SubSeq(args0, m + 1, Len(args0))]
    <3>1. <<>> \in Seq(Toks(A)) /\ 0 \in Int
      OBVIOUS
    <3>2. Transfer([p |-> <<>>, u |-> args0], 0)
            = [p |-> <<>> \o SubSeq(args0, 1, m), u |-> SubSeq(args0, m + 1, Len(args0))]
      BY <3>1, TransferMoves
    <3> QED
      BY <1>8, <3>2
  <2>2. /\ args0 # <<>> => m = 1
        /\ args0 = <<>> => m = 0
    BY DEF Moved
  <2>3. args0 # <<>> => /\ <<>> \o SubSeq(args0, 1, 1) = <<Head(args0)>>
                        /\ SubSeq(args0, 1 + 1, Len(args0)) = Tail(args0)
    <3> SUFFICES ASSUME args0 # <<>>
                 PROVE  /\ <<>> \o SubSeq(args0, 1, 1) = <<Head(args0)>>
                        /\ SubSeq(args0, 1 + 1, Len(args0)) = Tail(args0)
      OBVIOUS
    <3>1. SubSeq(args0, 1, 1) = <<Head(args0)>>
      <4> DEFINE front == SubSeq(args0, 1, 1)
      <4>1. front \in Seq(Words(A)) /\ Len(front) = 1 /\ front[1] = args0[1]
        OBVIOUS
      <4>2. Head(args0) = args0[1]
        OBVIOUS
      <4> HIDE DEF front
      <4>3. front = <<front[1]>>
        BY <4>1
      <4> QED
        BY <4>1, <4>2, <4>3 DEF front
    <3>2. SubSeq(args0, 1 + 1, Len(args0)) = Tail(args0)
      OBVIOUS
    <3>3. \A x : <<>> \o <<x>> = <<x>>
      OBVIOUS
    <3> QED
      BY <3>1, <3>2, <3>3
  <2>4. args0 = <<>> => <<>> \o SubSeq(args0, 1, 0) = <<>>
    OBVIOUS
  <2>5. \A x, y : [p |-> x, u |-> y].p = x
    OBVIOUS
  <2> HIDE DEF m
  <2>6. CASE args0 # <<>>
    BY <2>1, <2>2, <2>3, <2>6
  <2>7. CASE args0 = <<>>
    BY <2>1, <2>2, <2>4, <2>5, <2>7
  <2> QED
    BY <2>6, <2>7
<1>10. ASSUME args0 # <<>> PROVE LabelMatches(c, s) <=> Head(args0).name = c.none
  <2>1. a.p # <<>> /\ Head(a.p) = Head(args0) /\ a.u = Tail(args0)
    <3>1. \A x, y : [p |-> <<x>>, u |-> y].p = <<x>> /\ <<x>> # <<>> /\ Head(<<x>>) = x
                    /\ [p |-> <<x>>, u |-> y].u = y
      OBVIOUS
    <3> QED
      BY <1>9, <1>10, <3>1
  <2>2. Head(args0) = Token("none", Head(args0).name)
    <3>1. Head(args0) \in Words(A)
      BY <1>10
    <3> QED
      BY <1>10, <3>1 DEF Words, Token
  <2>3. AsLabelOf(c, Head(args0)) = Head(args0)
    BY <1>7, <1>10, <2>2 DEF AsLabelOf, GetTokenTypeFor, Raw
  <2>4. Match(c, Head(args0)) <=> Head(args0) = Token("none", c.none)
    BY <1>7 DEF Match
  <2>5. \A x, y : Token("none", x) = Token("none", y) <=> x = y
    BY DEF Token
  <2> QED
    BY <1>6, <1>7, <2>1, <2>2, <2>3, <2>4, <2>5 DEF LabelMatches, a
<1>11. args0 = <<>> => ~LabelMatches(c, s)
  BY <1>6, <1>7, <1>9 DEF LabelMatches, a
<1> DEFINE M == Outcome("match", "", a.u, IF s.subs = <<>> THEN <<Target(c.id, IF IsNamed(c) /\ a.p # <<>>
                                                      THEN Tail(a.p) ELSE a.p)>> ELSE s.subs, TRUE)
<1>12. o = IF s.act = "skip" \/ ~LabelMatches(c, s) THEN NotThisNode ELSE M
  BY <1>5, <1>6 DEF Settle, a
<1>13. M.kind = "match" /\ M.args = a.u /\ NotThisNode.kind = "none"
  <2>1. \A x, y : Outcome("match", "", x, y, TRUE).kind = "match" /\ Outcome("match", "", x, y, TRUE).args = x
    BY DEF Outcome
  <2> QED
    BY <2>1 DEF NotThisNode, Outcome
<1> HIDE DEF M
<1>14. o.kind = "match" => args0 # <<>> /\ Head(args0).name = c.none /\ o.args = Tail(args0)
  <2> SUFFICES ASSUME o.kind = "match" PROVE args0 # <<>> /\ Head(args0).name = c.none /\ o.args = Tail(args0)
    OBVIOUS
  <2>1. LabelMatches(c, s) /\ o = M
    BY <1>12, <1>13
  <2>2. args0 # <<>>
    BY <1>11, <2>1
  <2>3. a.u = Tail(args0)
    BY <1>9, <2>2
  <2> QED
    BY <1>10, <1>13, <2>1, <2>2, <2>3
<1>15. ASSUME o.kind = "none", c.enabled, args0 # <<>> PROVE Head(args0).name # c.none
  <2>1. s.act = "valid"
    BY <1>6, <1>15
  <2>2. ~LabelMatches(c, s)
    BY <1>12, <1>13, <1>15, <2>1
  <2> QED
    BY <1>10, <1>15, <2>2
<1> QED
  BY <1>14, <1>15
\* The tokens q are the words of l behind those that name the modes p.
Entered(p, l, q) ==
  /\ Len(p) <= Len(l) /\ Len(q) = Len(l) - Len(p)
  /\ \A k \in 1 .. Len(q) : q[k] = Raw(l[Len(p) + k])
  /\ \A k \in 1 .. Len(p) : IsNamed(p[k]) /\ l[k] = p[k].none

NamedMode(n) == n.kind = "mode" /\ IsNamed(n) /\ n.enabled

\* The word behind the names of p is not the name of one of the first children.
PassedOver(children, j, p, l) ==
  \A k \in DOMAIN children :
     k < j /\ NamedMode(children[k]) /\ Len(p) < Len(l) => l[Len(p) + 1] # children[k].none

\* While modes are searched the leading words are the names of those entered,
\* and the next word is not the name of one that was passed over.
EnteredSoFar ==
  phase \in {"root", "submode"} =>
    Entered(path, line, args) /\ PassedOver(Children, i, path, line)

LEMMA EnteredOne ==
  ASSUME NEW S, NEW T, NEW U, NEW p \in Seq(S), NEW l \in Seq(T), NEW q \in Seq(U), NEW m \in S,
         Entered(p, l, q), q # <<>>, IsNamed(m), Head(q).name = m.none
  PROVE  Entered(Append(p, m), l, Tail(q))
<1>1. /\ Len(Append(p, m)) = Len(p) + 1 /\ Len(Tail(q)) = Len(q) - 1 /\ Len(q) >= 1
      /\ Len(p) \in Nat /\ Len(l) \in Nat /\ Len(q) \in Nat
      /\ \A k \in 1 .. Len(Tail(q)) : Tail(q)[k] = q[k + 1]
      /\ \A k \in 1 .. Len(p) : Append(p, m)[k] = p[k]
      /\ Append(p, m)[Len(p) + 1] = m /\ Head(q) = q[1]
  OBVIOUS
<1>2. q[1].name = l[Len(p) + 1]
  <2>1. q[1] = Raw(l[Len(p) + 1])
    BY <1>1 DEF Entered
  <2>2. \A w : Raw(w).name = w
    BY DEF Raw, Token
  <2> QED
    BY <2>1, <2>2
<1> DEFINE p2 == Append(p, m)
           q2 == Tail(q)
<1> HIDE DEF p2, q2
<1>3. Len(p2) <= Len(l) /\ Len(q2) = Len(l) - Len(p2)
  BY <1>1 DEF Entered, p2, q2
<1>4. ASSUME NEW k \in 1 .. Len(q2) PROVE q2[k] = Raw(l[Len(p2) + k])
  <2>1. k + 1 \in 1 .. Len(q) /\ Len(p2) + k = Len(p) + (k + 1)
    BY <1>1, <1>4 DEF p2, q2
  <2>2. q2[k] = q[k + 1]
    BY <1>1, <1>4 DEF q2
  <2> QED
    BY <2>1, <2>2 DEF Entered
<1>5. ASSUME NEW k \in 1 .. Len(p2) PROVE IsNamed(p2[k]) /\ l[k] = p2[k].none
  <2>1. CASE k \in 1 .. Len(p)
    <3>1. p2[k] = p[k]
      BY <1>1, <2>1 DEF p2
    <3> QED
      BY <2>1, <3>1 DEF Entered
  <2>2. CASE k = Len(p) + 1
    BY <1>1, <1>2, <2>2 DEF p2
  <2> QED
    BY <1>1, <1>5, <2>1, <2>2 DEF p2
<1> QED
  BY <1>3, <1>4, <1>5 DEF Entered, p2, q2

\* What the search knows of the next word
LEMMA NextWord ==
  ASSUME NEW S, NEW T, NEW U, NEW p \in Seq(S), NEW l \in Seq(T), NEW q \in Seq(U), Entered(p, l, q)
  PROVE  /\ Len(p) < Len(l) => q # <<>> /\ Head(q).name = l[Len(p) + 1]
         /\ q # <<>> => Head(q).pre = "none" /\ Len(p) < Len(l)
<1>1. /\ Len(p) \in Nat /\ Len(l) \in Nat /\ Len(q) \in Nat
      /\ q # <<>> => Len(q) >= 1 /\ Head(q) = q[1]
      /\ q = <<>> => Len(q) = 0
  OBVIOUS
<1>2. \A w : Raw(w).name = w /\ Raw(w).pre = "none"
  BY DEF Raw, Token
<1>3. q # <<>> => q[1] = Raw(l[Len(p) + 1])
  BY <1>1 DEF Entered
<1> QED
  BY <1>1, <1>2, <1>3 DEF Entered

LEMMA PassedOne ==
  ASSUME NEW children, NEW j \in Nat, NEW p, NEW l, PassedOver(children, j, p, l),
         DOMAIN children \subseteq Nat,
         NamedMode(children[j]) /\ Len(p) < Len(l) => l[Len(p) + 1] # children[j].none
  PROVE  PassedOver(children, j + 1, p, l)
  BY DEF PassedOver

\* One child's turn in the search
LEMMA ChildSearched ==
  ASSUME NEW nodes, NEW A, TreesOf(nodes, A), Typing(nodes, A), ModeRules(nodes),
         phase \in {"root", "submode"}, EnteredSoFar, i <= Len(Children),
         Child.kind = "mode", IsNamed(Child),
         NEW o, o = PreParseLeaf(Child, <<>>, {}, args, "accept")
  PROVE  /\ o.kind = "match" => Entered(Append(path, Child), line, o.args)
         /\ o.kind = "none" => PassedOver(Children, i + 1, path, line)
<1>1. /\ Children \in Seq(nodes) /\ Child \in Modes(nodes)
      /\ Entered(path, line, args) /\ PassedOver(Children, i, path, line)
  BY ChildrenTyped DEF EnteredSoFar, Modes
<1>2. /\ path \in Seq(Modes(nodes)) /\ line \in Seq(tree.words) /\ args \in Seq(Words(A))
      /\ i \in Nat
  BY DEF Typing
<1>3. /\ Child.long = <<>> /\ Child.short = <<>> /\ Child.none # <<>>
      /\ Child.policies \cap LabelPolicies = {}
  BY <1>1 DEF ModeRules, Modes, IsNamed, HasLong, HasShort, HasNone
<1>4. /\ Len(path) < Len(line) => args # <<>> /\ Head(args).name = line[Len(path) + 1]
      /\ args # <<>> => Head(args).pre = "none" /\ Len(path) < Len(line)
  BY <1>1, <1>2, NextWord
<1>5. /\ o.kind = "match" => args # <<>> /\ Head(args).name = Child.none /\ o.args = Tail(args)
      /\ o.kind = "none" /\ Child.enabled => args = <<>> \/ Head(args).name # Child.none
  BY <1>2, <1>3, <1>4, LabelAttempt
<1>6. ASSUME o.kind = "match" PROVE Entered(Append(path, Child), line, o.args)
  BY <1>1, <1>2, <1>5, <1>6, EnteredOne
<1>7. ASSUME o.kind = "none" PROVE PassedOver(Children, i + 1, path, line)
  <2>1. NamedMode(Children[i]) /\ Len(path) < Len(line) => line[Len(path) + 1] # Children[i].none
    BY <1>4, <1>5, <1>7 DEF NamedMode, Child
  <2>2. DOMAIN Children \subseteq Nat
    BY <1>1
  <2> QED
    BY <1>1, <1>2, <2>1, <2>2, PassedOne
<1> QED
  BY <1>6, <1>7
\* What a step leaves that neither searches a mode nor ends the search
Rests == \/ phase' \notin {"root", "submode", "loop"}
         \/ phase = "loop" /\ phase' = "loop" /\ UNCHANGED <<tree, line, path>>

LEMMA OtherStepsRest ==
  \/ (RootLeaf /\ ~NextChild) \/ RootUnknown \/ TryChild \/ NoChild \/ LoopEnd
  \/ RunTarget \/ RunEnd \/ Missing \/ MissingEnd \/ StageValidation \/ Route \/ RouteLeaf
  => Rests
<1>1. RootLeaf /\ ~NextChild => Rests
  BY DEF RootLeaf, Fail, Rests
<1>2. TryChild => Rests
  BY DEF TryChild, NextChild, Fail, Rests
<1>3. RootUnknown \/ NoChild \/ LoopEnd => Rests
  BY DEF RootUnknown, NoChild, LoopEnd, Fail, Rests
<1>4. RunTarget \/ RunEnd => Rests
  BY DEF RunTarget, RunEnd, Fail, Rests
<1>5. Missing \/ MissingEnd \/ StageValidation => Rests
  BY DEF Missing, MissingEnd, StageValidation, NextChild, Fail, Rests
<1>6. Route \/ RouteLeaf => Rests
  BY DEF Route, RouteLeaf, Finish, Fail, Rests
<1> QED
  BY <1>1, <1>2, <1>3, <1>4, <1>5, <1>6

Deep == EnteredSoFar /\ ModeIsDeepest

\* A mode is entered, and its child modes come next.
LEMMA EnterSearches ==
  ASSUME NEW nodes, NEW A, TreesOf(nodes, A), Typing(nodes, A), NEW rest,
         Child \in Modes(nodes), Entered(Append(path, Child), line, rest),
         Enter(Child, rest, "submode")
  PROVE  Deep'
<1>1. path' = Append(path, Child) /\ line' = line /\ args' = rest /\ phase' = "submode" /\ i' = 1
  BY DEF Enter
<1>2. Append(path, Child) # <<>> /\ Last(Append(path, Child)) = Child
  BY DEF Typing, Last
<1>3. Children' = Child.children
  BY <1>1, <1>2 DEF Children, Mode
<1>4. DOMAIN Child.children \subseteq Nat \ {0}
  BY DEF TreesOf, Modes
<1>5. PassedOver(Child.children, 1, Append(path, Child), line)
  BY <1>4 DEF PassedOver
<1> QED
  BY <1>1, <1>3, <1>5 DEF Deep, EnteredSoFar, ModeIsDeepest

\* The anonymous mode, the last of the root, is entered if no other was.
LEMMA EnterAnonymous ==
  ASSUME NEW nodes, NEW A, TreesOf(nodes, A), Typing(nodes, A), ModeRules(nodes), EnteredSoFar,
         phase = "root", i <= Len(Children), Child.kind = "mode", ~IsNamed(Child),
         Enter(Child, args, "loop")
  PROVE  Deep'
<1>1. /\ path = <<>> /\ Children = tree.children /\ tree \in Trees
      /\ Children \in Seq(nodes) /\ i \in DOMAIN Children
  BY ChildrenTyped DEF Typing, Children
<1>2. /\ path' = Append(path, Child) /\ line' = line /\ phase' = "loop" /\ tree' = tree
  BY DEF Enter
<1>3. Last(Append(path, Child)) = Child
  BY <1>1 DEF Last
<1>4. ~IsNamed(Mode')
  BY <1>2, <1>3 DEF Mode
<1>5. ASSUME NEW k \in DOMAIN Children, NamedMode(Children[k]), Len(line) > 0
      PROVE  line[1] # Children[k].none
  <2>1. k # i /\ Children[k].kind = "mode"
    BY <1>5 DEF NamedMode, Child
  <2>2. ~(i < k)
    <3>1. \A j, n \in DOMAIN tree.children :
            tree.children[j].kind = "mode" /\ ~IsNamed(tree.children[j]) /\ j < n =>
              tree.children[n].kind # "mode"
      BY <1>1 DEF ModeRules
    <3> QED
      BY <1>1, <2>1, <3>1 DEF Child
  <2>3. k < i
    BY <1>1, <2>1, <2>2
  <2>4. PassedOver(Children, i, path, line) /\ Len(path) = 0
    BY <1>1 DEF EnteredSoFar
  <2> QED
    BY <1>5, <2>3, <2>4 DEF PassedOver
<1>6. EnteredSoFar'
  BY <1>2 DEF EnteredSoFar
<1>7. ModeIsDeepest'
  <2>1. Len(<<>>) = 0 /\ 1 .. 0 = {}
    OBVIOUS
  <2>2. ASSUME NEW c \in ToSet(tree.children), c.kind = "mode", IsNamed(c), c.enabled, Len(line) > 0
        PROVE  line[0 + 1] # c.none
    BY <1>1, <1>5, <2>2 DEF ToSet, NamedMode
  <2> QED
    BY <1>2, <1>4, <2>1, <2>2 DEF ModeIsDeepest
<1> QED
  BY <1>6, <1>7 DEF Deep

\* The search ends in the mode entered last.
LEMMA SearchEnds ==
  ASSUME NEW nodes, NEW A, TreesOf(nodes, A), Typing(nodes, A), EnteredSoFar, NoSubMode
  PROVE  Deep'
<1>1. /\ UNCHANGED <<tree, line, path>> /\ phase' = "loop" /\ phase = "submode"
      /\ args = <<>> \/ i > Len(Children)
  BY DEF NoSubMode
<1>2. /\ path \in Seq(Modes(nodes)) /\ path # <<>> /\ Children \in Seq(nodes) /\ i \in Nat
      /\ line \in Seq(tree.words)
  BY <1>1, ChildrenTyped DEF Typing
<1>3. Entered(path, line, args) /\ PassedOver(Children, i, path, line)
  BY <1>1 DEF EnteredSoFar
<1>4. Children' = Children /\ Mode' = Mode
  BY <1>1 DEF Children, Mode
<1>5. IsNamed(Mode)
  BY <1>2, <1>3 DEF Entered, Mode, Last
<1>6. ASSUME NEW c \in ToSet(Children), c.kind = "mode", IsNamed(c), c.enabled, Len(line) > Len(path)
      PROVE  line[Len(path) + 1] # c.none
  <2>1. PICK k \in DOMAIN Children : c = Children[k]
    BY DEF ToSet
  <2>2. args # <<>>
    BY <1>2, <1>3, <1>6 DEF Entered
  <2>3. k < i
    BY <1>1, <1>2, <2>2
  <2> QED
    BY <1>2, <1>3, <1>6, <2>1, <2>3 DEF PassedOver, NamedMode
<1>7. path # <<>> /\ \A k \in 1 .. Len(path) : line[k] = path[k].none
  BY <1>2, <1>3 DEF Entered
<1>8. EnteredSoFar'
  BY <1>1 DEF EnteredSoFar
<1>9. ModeIsDeepest'
  BY <1>1, <1>4, <1>5, <1>6, <1>7 DEF ModeIsDeepest
<1> QED
  BY <1>8, <1>9 DEF Deep

LEMMA DeepStep ==
  ASSUME NEW nodes, NEW A, TreesOf(nodes, A), ModeRules(nodes)
  PROVE  Typing(nodes, A) /\ Deep /\ [Next]_vars => Deep'
<1> SUFFICES ASSUME Typing(nodes, A), Deep, [Next]_vars PROVE Deep'
  OBVIOUS
<1>1. /\ EnteredSoFar /\ Children \in Seq(nodes) /\ i \in Nat
      /\ i <= Len(Children) => Child \in nodes /\ Child \in ToSet(Children)
      /\ path \in Seq(Modes(nodes))
      /\ phase = "root" => path = <<>>
      /\ phase = "submode" => path # <<>>
  BY ChildrenTyped DEF Deep, Typing
<1>2. ASSUME Rests PROVE Deep'
  <2>1. CASE phase' \notin {"root", "submode", "loop"}
    BY <2>1 DEF Deep, EnteredSoFar, ModeIsDeepest
  <2>2. CASE phase = "loop" /\ phase' = "loop" /\ UNCHANGED <<tree, line, path>>
    BY <2>2 DEF Deep, EnteredSoFar, ModeIsDeepest, Children, Mode
  <2> QED
    BY <1>2, <2>1, <2>2 DEF Rests
<1>3. ASSUME NextChild, phase \in {"root", "submode"}, PassedOver(Children, i + 1, path, line)
      PROVE  Deep'
  <2>1. /\ i' = i + 1 /\ UNCHANGED <<path, line, args, phase>> /\ Children' = Children
    BY <1>3 DEF NextChild, Children, Mode
  <2> QED
    BY <1>1, <1>3, <2>1 DEF Deep, EnteredSoFar, ModeIsDeepest
<1>4. ASSUME NextChild, phase \in {"root", "submode"}, i <= Len(Children), Child.kind # "mode"
      PROVE  Deep'
  <2>1. PassedOver(Children, i, path, line) /\ ~NamedMode(Children[i]) /\ DOMAIN Children \subseteq Nat
    BY <1>1, <1>4 DEF EnteredSoFar, NamedMode, Child
  <2> QED
    BY <1>1, <1>3, <1>4, <2>1, PassedOne
<1>5. ASSUME phase \in {"root", "submode"}, i <= Len(Children), Child.kind = "mode", IsNamed(Child),
             NEW o, o = PreParseLeaf(Child, <<>>, {}, args, "accept"),
             \/ o.kind = "none" /\ NextChild
             \/ o.kind = "match" /\ Enter(Child, o.args, "submode")
      PROVE  Deep'
  <2>1. /\ o.kind = "match" => Entered(Append(path, Child), line, o.args)
        /\ o.kind = "none" => PassedOver(Children, i + 1, path, line)
    BY <1>1, <1>5, ChildSearched
  <2>2. Child \in Modes(nodes)
    BY <1>1, <1>5 DEF Modes
  <2> QED
    BY <1>3, <1>5, <2>1, <2>2, EnterSearches
<1>6. CASE RootLeaf
  <2>1. phase = "root" /\ i <= Len(Children) /\ Child.kind # "mode"
    BY <1>6 DEF RootLeaf
  <2> QED
    BY <1>2, <1>4, <1>6, <2>1, OtherStepsRest
<1>7. CASE RootMode
  <2>1. phase = "root" /\ i <= Len(Children) /\ Child.kind = "mode"
    BY <1>7 DEF RootMode
  <2>2. CASE ~IsNamed(Child) /\ Enter(Child, args, "loop")
    BY <1>1, <2>1, <2>2, EnterAnonymous
  <2> QED
    BY <1>5, <1>7, <2>1, <2>2 DEF RootMode
<1>8. CASE SubMode
  <2>1. phase = "submode" /\ i <= Len(Children)
    BY <1>8 DEF SubMode
  <2>2. CASE Child.kind # "mode" /\ NextChild
    BY <1>4, <2>1, <2>2
  <2>3. Child.kind = "mode" => IsNamed(Child)
    <3>1. Mode \in Modes(nodes) /\ Children = Mode.children
      BY <1>1, <2>1 DEF Mode, Last, Children
    <3> QED
      BY <1>1, <2>1, <3>1 DEF ModeRules, Modes
  <2> QED
    BY <1>5, <1>8, <2>1, <2>2, <2>3 DEF SubMode
<1>9. CASE NoSubMode
  BY <1>1, <1>9, SearchEnds
<1>10. CASE RootUnknown \/ TryChild \/ NoChild \/ LoopEnd \/ RunTarget \/ RunEnd \/ Missing \/ MissingEnd
            \/ StageValidation \/ Route \/ RouteLeaf
  BY <1>2, <1>10, OtherStepsRest
<1>11. ASSUME NEW words \in Lines(tree.words), Call(words) PROVE Deep'
  <2>1. /\ line' = words /\ args' = [k \in DOMAIN words |-> Raw(words[k])] /\ phase' = "root"
        /\ i' = 1 /\ path' = <<>> /\ tree' = tree
    BY <1>11 DEF Call
  <2>2. Children' = tree.children /\ DOMAIN tree.children \subseteq Nat \ {0}
    BY <2>1 DEF Children, TreesOf, Typing
  <2>3. words \in Seq(tree.words)
    <3>1. tree.words \subseteq Seq(A)
      BY DEF TreesOf, Typing
    <3> QED
      BY <1>11, <3>1, LineTyped
  <2>4. Entered(<<>>, words, [k \in DOMAIN words |-> Raw(words[k])])
    <3>1. Len(words) \in Nat /\ DOMAIN words = 1 .. Len(words) /\ Len(<<>>) = 0
      BY <2>3
    <3>2. Len([k \in DOMAIN words |-> Raw(words[k])]) = Len(words)
      BY <3>1
    <3> QED
      BY <3>1, <3>2 DEF Entered
  <2>5. PassedOver(tree.children, 1, <<>>, words)
    BY <2>2 DEF PassedOver
  <2> QED
    BY <2>1, <2>2, <2>4, <2>5 DEF Deep, EnteredSoFar, ModeIsDeepest
<1>12. CASE UNCHANGED vars
  BY <1>12 DEF vars, Deep, EnteredSoFar, ModeIsDeepest, Children, Mode
<1> QED
  BY <1>6, <1>7, <1>8, <1>9, <1>10, <1>11, <1>12 DEF Next, Step

\* The children that get the words are those of the deepest enabled mode the
\* leading words name, and the anonymous mode gets them only if the first word
\* names no other (root.hpp:156-167, mode.hpp:247-285).
THEOREM DeepestModeIsFound ==
  ASSUME NEW nodes, NEW A, TreesOf(nodes, A), ModeRules(nodes)
  PROVE  Spec => []ModeIsDeepest
<1>1. Init => Deep
  BY DEF Init, Deep, EnteredSoFar, ModeIsDeepest
<1>2. Typing(nodes, A) /\ Deep /\ [Next]_vars => Deep'
  BY DeepStep
<1>3. Deep => ModeIsDeepest
  BY DEF Deep
<1> QED
  BY <1>1, <1>2, <1>3, TypingHolds, PTL DEF Spec
-----------------------------------------------------------------------------
\* The weight of tokens

LEMMA WeightTyped ==
  ASSUME NEW A, NEW tok \in Toks(A)
  PROVE  WeightOf(tok) \in Nat /\ WeightOf(tok) >= 1
<1>1. tok.name \in Seq(A)
  BY DEF Toks
<1> QED
  BY <1>1 DEF WeightOf

\* g holds the weights of the first tokens of q, up to n of them.
Weighed(q, n, g) ==
  g = [k \in 0 .. n |-> IF k = 0 THEN 0 ELSE g[k - 1] + WeightOf(q[k])]

LEMMA WeightSummed ==
  ASSUME NEW A, NEW q \in Seq(Toks(A))
  PROVE  /\ WeightUpTo(q)[0] = 0
         /\ \A k \in 1 .. Len(q) : WeightUpTo(q)[k] = WeightUpTo(q)[k - 1] + WeightOf(q[k])
<1> DEFINE L == Len(q)
           f == WeightUpTo(q)
           T == {n \in 0 .. L : \E g : Weighed(q, n, g)}
<1>1. L \in Nat
  OBVIOUS
<1>2. 0 \in T
  <2>1. Weighed(q, 0, [k \in 0 .. 0 |-> 0])
    BY DEF Weighed
  <2> QED
    BY <1>1, <2>1
<1>3. ASSUME NEW n \in 1 .. L, n - 1 \in T PROVE n \in T
  <2>1. PICK g : Weighed(q, n - 1, g)
    BY <1>3
  <2> DEFINE h == [k \in 0 .. n |-> IF k = n THEN g[n - 1] + WeightOf(q[n]) ELSE g[k]]
  <2>2. \A k \in 0 .. n - 1 : g[k] = IF k = 0 THEN 0 ELSE g[k - 1] + WeightOf(q[k])
    BY <2>1 DEF Weighed
  <2>3. \A k \in 0 .. n : h[k] = IF k = 0 THEN 0 ELSE h[k - 1] + WeightOf(q[k])
    BY <2>2
  <2>4. Weighed(q, n, h)
    BY <2>3 DEF Weighed
  <2> QED
    BY <2>4
<1> HIDE DEF T
<1>4. L \in T
  <2>1. \A n \in 0 .. L : n \in T
    BY <1>1, <1>2, <1>3, UpTo
  <2> QED
    BY <1>1, <2>1
<1>5. f = CHOOSE g : Weighed(q, L, g)
  BY DEF WeightUpTo, Weighed
<1>6. Weighed(q, L, f)
  BY <1>4, <1>5 DEF T
<1> HIDE DEF f
<1>7. f[0] = 0 /\ \A k \in 1 .. L : f[k] = f[k - 1] + WeightOf(q[k])
  BY <1>1, <1>6 DEF Weighed
<1> QED
  BY <1>7 DEF f

\* Every token weighs at least one.
LEMMA WeightBounds ==
  ASSUME NEW A, NEW q \in Seq(Toks(A))
  PROVE  /\ \A k \in 0 .. Len(q) : WeightUpTo(q)[k] \in Nat
         /\ Weight(q) \in Nat /\ Weight(q) >= Len(q)
<1> DEFINE T == {k \in 0 .. Len(q) : WeightUpTo(q)[k] \in Nat /\ WeightUpTo(q)[k] >= k}
<1>1. Len(q) \in Nat /\ \A k \in 1 .. Len(q) : q[k] \in Toks(A)
  OBVIOUS
<1>2. 0 \in T
  BY <1>1, WeightSummed
<1>3. ASSUME NEW k \in 1 .. Len(q), k - 1 \in T PROVE k \in T
  <2>1. /\ WeightUpTo(q)[k] = WeightUpTo(q)[k - 1] + WeightOf(q[k])
        /\ WeightOf(q[k]) \in Nat /\ WeightOf(q[k]) >= 1
    BY <1>1, WeightSummed, WeightTyped
  <2> QED
    BY <1>3, <2>1
<1>4. \A k \in 0 .. Len(q) : k \in T
  <2> HIDE DEF T
  <2> QED
    BY <1>1, <1>2, <1>3, UpTo
<1> QED
  BY <1>1, <1>4 DEF Weight

LEMMA WeightConcat ==
  ASSUME NEW A, NEW q \in Seq(Toks(A)), NEW r \in Seq(Toks(A))
  PROVE  Weight(q \o r) = Weight(q) + Weight(r)
<1> DEFINE m == Len(q)
           n == Len(r)
           c == q \o r
<1>1. /\ m \in Nat /\ n \in Nat /\ c \in Seq(Toks(A)) /\ Len(c) = m + n
      /\ \A k \in 1 .. m + n : c[k] = IF k <= m THEN q[k] ELSE r[k - m]
  BY ConcatFacts
<1> HIDE DEF c, m, n
<1>2. /\ WeightUpTo(q)[0] = 0
      /\ \A k \in 1 .. m : WeightUpTo(q)[k] = WeightUpTo(q)[k - 1] + WeightOf(q[k])
      /\ \A k \in 0 .. m : WeightUpTo(q)[k] \in Nat
  BY WeightSummed, WeightBounds DEF m
<1>3. /\ WeightUpTo(r)[0] = 0
      /\ \A k \in 1 .. n : WeightUpTo(r)[k] = WeightUpTo(r)[k - 1] + WeightOf(r[k])
      /\ \A k \in 0 .. n : WeightUpTo(r)[k] \in Nat
      /\ \A k \in 1 .. n : WeightOf(r[k]) \in Nat
  <2>1. \A k \in 1 .. n : r[k] \in Toks(A)
    BY DEF n
  <2> QED
    BY <2>1, WeightSummed, WeightBounds, WeightTyped DEF n
<1>4. /\ WeightUpTo(c)[0] = 0
      /\ \A k \in 1 .. m + n : WeightUpTo(c)[k] = WeightUpTo(c)[k - 1] + WeightOf(c[k])
  BY <1>1, WeightSummed
<1>5. WeightUpTo(c)[m] = WeightUpTo(q)[m]
  <2> DEFINE T == {k \in 0 .. m : WeightUpTo(c)[k] = WeightUpTo(q)[k]}
  <2>1. 0 \in T
    BY <1>1, <1>2, <1>4
  <2>2. ASSUME NEW k \in 1 .. m, k - 1 \in T PROVE k \in T
    <3>1. k \in 1 .. m + n /\ c[k] = q[k]
      BY <1>1
    <3> QED
      BY <1>2, <1>4, <2>2, <3>1
  <2> HIDE DEF T
  <2>3. \A k \in 0 .. m : k \in T
    BY <1>1, <2>1, <2>2, UpTo
  <2> QED
    BY <1>1, <2>3 DEF T
<1>6. WeightUpTo(c)[m + n] = WeightUpTo(q)[m] + WeightUpTo(r)[n]
  <2> DEFINE T == {k \in 0 .. n : WeightUpTo(c)[m + k] = WeightUpTo(q)[m] + WeightUpTo(r)[k]}
  <2>1. 0 \in T
    BY <1>1, <1>2, <1>3, <1>5
  <2>2. ASSUME NEW k \in 1 .. n, k - 1 \in T PROVE k \in T
    <3>1. m + k \in 1 .. m + n /\ c[m + k] = r[k] /\ (m + k) - 1 = m + (k - 1)
      BY <1>1
    <3>2. WeightUpTo(c)[m + k] = WeightUpTo(c)[m + (k - 1)] + WeightOf(r[k])
      BY <1>4, <3>1
    <3>3. WeightUpTo(c)[m + (k - 1)] = WeightUpTo(q)[m] + WeightUpTo(r)[k - 1]
      BY <2>2
    <3>4. /\ WeightUpTo(r)[k] = WeightUpTo(r)[k - 1] + WeightOf(r[k])
          /\ WeightUpTo(r)[k - 1] \in Nat /\ WeightOf(r[k]) \in Nat /\ WeightUpTo(q)[m] \in Nat
      BY <1>1, <1>2, <1>3
    <3> QED
      BY <3>2, <3>3, <3>4
  <2> HIDE DEF T
  <2>3. \A k \in 0 .. n : k \in T
    BY <1>1, <2>1, <2>2, UpTo
  <2> QED
    BY <1>1, <2>3 DEF T
<1> QED
  BY <1>1, <1>6 DEF Weight, m, n, c

LEMMA WeightSmall ==
  /\ Weight(<<>>) = 0
  /\ \A A : \A tok \in Toks(A) : Weight(<<tok>>) = WeightOf(tok)
<1>1. Weight(<<>>) = 0
  <2>1. <<>> \in Seq(Toks({})) /\ Len(<<>>) = 0
    OBVIOUS
  <2>2. WeightUpTo(<<>>)[0] = 0
    BY ONLY <2>1, WeightSummed
  <2> QED
    BY <2>1, <2>2 DEF Weight
<1>2. ASSUME NEW A, NEW tok \in Toks(A) PROVE Weight(<<tok>>) = WeightOf(tok)
  <2> DEFINE q == <<tok>>
  <2>1. q \in Seq(Toks(A)) /\ Len(q) = 1 /\ q[1] = tok
    OBVIOUS
  <2> HIDE DEF q
  <2>2. /\ WeightUpTo(q)[0] = 0
        /\ \A k \in 1 .. Len(q) : WeightUpTo(q)[k] = WeightUpTo(q)[k - 1] + WeightOf(q[k])
    BY <2>1, WeightSummed
  <2>3. WeightOf(tok) \in Nat
    BY WeightTyped
  <2> QED
    BY <2>1, <2>2, <2>3 DEF Weight, q
<1> QED
  BY <1>1, <1>2

\* Parts of tokens weigh what the whole does.
LEMMA WeightSplit ==
  ASSUME NEW A, NEW q \in Seq(Toks(A)), NEW n \in 0 .. Len(q)
  PROVE  /\ Weight(q) = Weight(SubSeq(q, 1, n)) + Weight(SubSeq(q, n + 1, Len(q)))
         /\ SubSeq(q, 1, n) \in Seq(Toks(A)) /\ SubSeq(q, n + 1, Len(q)) \in Seq(Toks(A))
         /\ Len(SubSeq(q, 1, n)) = n
         /\ Weight(SubSeq(q, 1, n)) \in Nat /\ Weight(SubSeq(q, n + 1, Len(q))) \in Nat
<1> DEFINE f == SubSeq(q, 1, n)
           b == SubSeq(q, n + 1, Len(q))
<1>1. f \in Seq(Toks(A)) /\ b \in Seq(Toks(A)) /\ Len(f) = n
  OBVIOUS
<1>2. f \o b = q
  BY Split
<1> HIDE DEF f, b
<1>3. Weight(q) = Weight(f) + Weight(b) /\ Weight(f) \in Nat /\ Weight(b) \in Nat
  BY <1>1, <1>2, WeightConcat, WeightBounds
<1> QED
  BY <1>1, <1>3 DEF f, b

LEMMA WeightSplice ==
  ASSUME NEW A, NEW q \in Seq(Toks(A)), NEW r \in Seq(Toks(A)), NEW n \in 0 .. Len(q)
  PROVE  Weight(Splice(q, n, r)) = Weight(q) + Weight(r)
<1> DEFINE f == SubSeq(q, 1, n)
           b == SubSeq(q, n + 1, Len(q))
<1>1. /\ f \in Seq(Toks(A)) /\ b \in Seq(Toks(A)) /\ Weight(q) = Weight(f) + Weight(b)
      /\ Weight(f) \in Nat /\ Weight(b) \in Nat /\ Weight(r) \in Nat
  BY WeightSplit, WeightBounds
<1>2. Splice(q, n, r) = f \o r \o b
  BY DEF Splice
<1> HIDE DEF f, b
<1>3. f \o r \in Seq(Toks(A)) /\ Weight(f \o r) = Weight(f) + Weight(r)
  BY <1>1, WeightConcat, ConcatFacts
<1>4. Weight((f \o r) \o b) = Weight(f \o r) + Weight(b)
  BY <1>1, <1>3, WeightConcat
<1> QED
  BY <1>1, <1>2, <1>3, <1>4

\* Every token that is cut out is at least one less.
LEMMA WeightCut ==
  ASSUME NEW A, NEW q \in Seq(Toks(A)), NEW j \in Nat, NEW n \in Nat, j + n <= Len(q)
  PROVE  Weight(Cut(q, j, n)) + n <= Weight(q)
<1> DEFINE f == SubSeq(q, 1, j)
           b == SubSeq(q, j + 1, Len(q))
           g == SubSeq(b, 1, n)
           d == SubSeq(b, n + 1, Len(b))
<1>0. j \in 0 .. Len(q) /\ Len(q) \in Nat /\ j + 1 \in 1 .. Len(q) + 1 /\ Len(q) \in (j + 1) - 1 .. Len(q)
  OBVIOUS
<1>1. /\ f \in Seq(Toks(A)) /\ b \in Seq(Toks(A)) /\ Weight(q) = Weight(f) + Weight(b)
      /\ Weight(f) \in Nat /\ Weight(b) \in Nat
  BY <1>0, WeightSplit
<1>1a. /\ Len(b) = Len(q) - j
       /\ \A k \in 1 .. Len(q) - j : b[k] = q[k + j]
  BY <1>0, SubSeqFacts
<1>2. d = SubSeq(q, j + n + 1, Len(q))
  <2>1. /\ n + 1 \in 1 .. Len(b) + 1 /\ Len(b) \in (n + 1) - 1 .. Len(b)
        /\ j + n + 1 \in 1 .. Len(q) + 1 /\ Len(q) \in (j + n + 1) - 1 .. Len(q)
    BY <1>0, <1>1a
  <2> DEFINE e == SubSeq(q, j + n + 1, Len(q))
  <2>2. /\ d \in Seq(Toks(A)) /\ Len(d) = Len(b) - n
        /\ \A k \in 1 .. Len(b) - n : d[k] = b[k + n]
    <3> HIDE DEF b
    <3> QED
      BY <1>1, <2>1, SubSeqFacts
  <2>3. /\ e \in Seq(Toks(A)) /\ Len(e) = Len(q) - (j + n)
        /\ \A k \in 1 .. Len(q) - (j + n) : e[k] = q[k + (j + n)]
    BY <1>0, <2>1, SubSeqFacts
  <2> HIDE DEF d, e, b
  <2>4. Len(d) = Len(e) /\ \A k \in 1 .. Len(d) : d[k] = e[k]
    BY <1>0, <1>1a, <2>2, <2>3
  <2>5. d = e
    BY ONLY <2>2, <2>3, <2>4, SeqEqual
  <2> QED
    BY <2>5 DEF e
<1>3. n \in 0 .. Len(b)
  BY <1>0, <1>1a
<1> HIDE DEF f, b
<1>4. /\ g \in Seq(Toks(A)) /\ d \in Seq(Toks(A)) /\ Weight(b) = Weight(g) + Weight(d)
      /\ Weight(g) \in Nat /\ Weight(d) \in Nat /\ Len(g) = n
  BY <1>1, <1>3, WeightSplit
<1> HIDE DEF g, d
<1>5. Weight(g) >= n
  BY <1>4, WeightBounds
<1>6. Cut(q, j, n) = f \o d
  BY <1>2 DEF Cut, f
<1>7. Weight(f \o d) = Weight(f) + Weight(d)
  BY <1>1, <1>4, WeightConcat
<1> QED
  BY <1>1, <1>4, <1>5, <1>6, <1>7

LEMMA WeightReplaced ==
  ASSUME NEW A, NEW q \in Seq(Toks(A)), Len(q) >= 1, NEW v \in Toks(A)
  PROVE  Weight([q EXCEPT ![1] = v]) = Weight(q) - WeightOf(q[1]) + WeightOf(v)
<1> DEFINE b == SubSeq(q, 2, Len(q))
           r == [q EXCEPT ![1] = v]
           f == SubSeq(q, 1, 1)
<1>1. /\ 1 \in 0 .. Len(q) /\ q[1] \in Toks(A)
  OBVIOUS
<1>2. /\ f \in Seq(Toks(A)) /\ Len(f) = 1 /\ b \in Seq(Toks(A))
      /\ Weight(q) = Weight(f) + Weight(b) /\ Weight(b) \in Nat /\ f[1] = q[1]
  <2>1. 1 + 1 = 2 /\ f[1] = q[1]
    OBVIOUS
  <2> QED
    BY ONLY <1>1, <2>1, WeightSplit, q \in Seq(Toks(A))
<1>3. f = <<q[1]>>
  <2> HIDE DEF f
  <2> QED
    BY <1>2
<1>4. <<v>> \o b = r
  <2>1. /\ Len(b) = Len(q) - 1 /\ Len(q) \in Nat
        /\ \A k \in 1 .. Len(q) - 1 : b[k] = q[k + 1]
    OBVIOUS
  <2>2. r \in Seq(Toks(A)) /\ Len(r) = Len(q) /\ \A k \in 1 .. Len(q) : r[k] = IF k = 1 THEN v ELSE q[k]
    OBVIOUS
  <2> HIDE DEF b, r
  <2>3. /\ <<v>> \in Seq(Toks(A)) /\ Len(<<v>>) = 1 /\ <<v>>[1] = v
    OBVIOUS
  <2>4. \A k \in 1 .. Len(r) - 1 : b[k] = r[k + 1]
    BY <2>1, <2>2
  <2> QED
    BY <1>1, <1>2, <2>1, <2>2, <2>3, <2>4, Parts
<1> HIDE DEF b, r, f
<1>5. /\ Weight(r) = Weight(<<v>>) + Weight(b) /\ Weight(<<v>>) = WeightOf(v)
      /\ Weight(f) = WeightOf(q[1])
  <2>1. <<v>> \in Seq(Toks(A))
    OBVIOUS
  <2> QED
    BY <1>1, <1>2, <1>3, <1>4, <2>1, WeightConcat, WeightSmall
<1>6. WeightOf(v) \in Nat /\ WeightOf(q[1]) \in Nat
  BY <1>1, WeightTyped
<1> QED
  BY <1>2, <1>5, <1>6 DEF r

\* Tokens of one atom each weigh as many as they are.
LEMMA WeightUnits ==
  ASSUME NEW A, NEW q \in Seq(Toks(A)), \A k \in 1 .. Len(q) : WeightOf(q[k]) = 1
  PROVE  Weight(q) = Len(q)
<1> DEFINE T == {k \in 0 .. Len(q) : WeightUpTo(q)[k] = k}
<1>1. Len(q) \in Nat
  OBVIOUS
<1>2. 0 \in T
  BY <1>1, WeightSummed
<1>3. ASSUME NEW k \in 1 .. Len(q), k - 1 \in T PROVE k \in T
  <2>1. WeightUpTo(q)[k] = WeightUpTo(q)[k - 1] + WeightOf(q[k])
    BY WeightSummed
  <2> QED
    BY <1>3, <2>1
<1>4. \A k \in 0 .. Len(q) : k \in T
  <2> HIDE DEF T
  <2> QED
    BY <1>1, <1>2, <1>3, UpTo
<1> QED
  BY <1>1, <1>4 DEF Weight

\* A word weighs no more without its prefix.
LEMMA LabelWeight ==
  ASSUME NEW A, NEW node, NEW tok \in Toks(A)
  PROVE  WeightOf(AsLabelOf(node, tok)) <= WeightOf(tok)
<1>1. tok.name \in Seq(A) /\ Len(tok.name) \in Nat
  BY DEF Toks
<1>2. \A pre, name : WeightOf(Token(pre, name)) = IF name = <<>> THEN 1 ELSE Len(name)
  BY DEF WeightOf, Token
<1>3. WeightOf(tok) \in Nat /\ WeightOf(tok) = IF tok.name = <<>> THEN 1 ELSE Len(tok.name)
  BY <1>1 DEF WeightOf
<1>4. tok.name # <<>> => Len(Tail(tok.name)) = Len(tok.name) - 1 /\ Len(tok.name) >= 1
  BY <1>1
<1>5. \A pre : tok.name # <<>> => WeightOf(Token(pre, Tail(tok.name))) <= WeightOf(tok)
  <2> SUFFICES ASSUME NEW pre, tok.name # <<>>
               PROVE  WeightOf(Token(pre, Tail(tok.name))) <= WeightOf(tok)
    OBVIOUS
  <2> DEFINE x == Tail(tok.name)
             n == Len(tok.name)
  <2>1. WeightOf(Token(pre, x)) = IF x = <<>> THEN 1 ELSE Len(x)
    BY ONLY <1>2
  <2>2. n \in Nat /\ n >= 1 /\ Len(x) = n - 1 /\ WeightOf(tok) = n
    BY <1>1, <1>3, <1>4
  <2> HIDE DEF x, n
  <2>3. WeightOf(Token(pre, x)) <= WeightOf(tok)
    BY ONLY <2>1, <2>2
  <2> QED
    BY <2>3 DEF x
<1>6. WeightOf(Raw(tok.name)) <= WeightOf(tok)
  BY <1>2, <1>3 DEF Raw
<1>7. WeightOf(GetTokenTypeFor(node, tok.name)) <= WeightOf(tok)
  BY <1>5, <1>6 DEF GetTokenTypeFor, StartsWith
<1> QED
  BY <1>3, <1>7 DEF AsLabelOf
-----------------------------------------------------------------------------
\* What the adapter's operations do to the weight of its tokens, and to the
\* number of those that are claimed

Load(a) == Weight(a.p) + Weight(a.u)

AtLeastOne(n) == IF n = 0 THEN 1 ELSE n

LEMMA LoadTyped ==
  ASSUME NEW A, NEW a \in Adapters(A)
  PROVE  /\ a.p \in Seq(Toks(A)) /\ a.u \in Seq(Words(A)) /\ a.u \in Seq(Toks(A))
         /\ Len(a.p) \in Nat /\ Len(a.u) \in Nat /\ Size(a) = Len(a.p) + Len(a.u)
         /\ Weight(a.p) \in Nat /\ Weight(a.u) \in Nat /\ Weight(a.p) >= Len(a.p)
         /\ Load(a) = Weight(Tokens(a)) /\ Load(a) \in Nat
         /\ Size(a) \in Nat /\ Size(a) <= Load(a)
<1>1. a.p \in Seq(Toks(A)) /\ a.u \in Seq(Words(A))
  BY DEF Adapters
<1>2. a.u \in Seq(Toks(A))
  BY <1>1, WordsAreTokens
<1>3. /\ Weight(a.p) \in Nat /\ Weight(a.u) \in Nat /\ Weight(a.p) >= Len(a.p)
      /\ Weight(a.u) >= Len(a.u) /\ Weight(a.p \o a.u) = Weight(a.p) + Weight(a.u)
  BY <1>1, <1>2, WeightBounds, WeightConcat
<1>4. Len(a.p) \in Nat /\ Len(a.u) \in Nat /\ Size(a) = Len(a.p) + Len(a.u)
  BY <1>1 DEF Size
<1>5. Load(a) = Weight(a.p) + Weight(a.u) /\ Tokens(a) = a.p \o a.u
  BY DEF Load, Tokens
<1>6. Load(a) = Weight(Tokens(a))
  BY ONLY <1>3, <1>5
<1>7. Load(a) \in Nat /\ Size(a) \in Nat /\ Size(a) <= Load(a)
  <2> DEFINE k == Weight(a.p)
             l == Len(a.p)
             m == Weight(a.u)
             n == Len(a.u)
  <2>1. k \in Nat /\ l \in Nat /\ m \in Nat /\ n \in Nat /\ k >= l /\ m >= n
    BY ONLY <1>3, <1>4
  <2>2. Load(a) = k + m /\ Size(a) = l + n
    BY ONLY <1>4, <1>5
  <2> HIDE DEF k, l, m, n
  <2> QED
    BY ONLY <2>1, <2>2
<1> QED
  BY ONLY <1>1, <1>2, <1>3, <1>4, <1>6, <1>7

LEMMA TransferLoad ==
  ASSUME NEW A, NEW a \in Adapters(A), NEW it \in Int
  PROVE  Load(Transfer(a, it)) = Load(a)
BY TransferTyped, LoadTyped

\* The first token is claimed.
LEMMA FirstClaimed ==
  ASSUME NEW A, NEW a \in Adapters(A), Size(a) # 0
  PROVE  \E p \in Seq(Toks(A)), u \in Seq(Words(A)) :
           /\ Transfer(a, 0) = [p |-> p, u |-> u]
           /\ Len(p) = AtLeastOne(Len(a.p)) /\ Len(p) \in Nat \ {0} /\ Len(u) \in Nat
           /\ p[1] = First(a)
           /\ Weight(p) \in Nat /\ Weight(u) \in Nat /\ Weight(p) + Weight(u) = Load(a)
<1>1. /\ Len(a.p) \in Nat /\ Len(a.u) \in Nat /\ Size(a) = Len(a.p) + Len(a.u)
  BY LoadTyped
<1>2. /\ Transfer(a, 0) \in Adapters(A) /\ Len(Transfer(a, 0).p) = AtLeastOne(Len(a.p))
      /\ First(Transfer(a, 0)) = First(a) /\ Load(Transfer(a, 0)) = Load(a)
  <2>1. Len(Transfer(a, 0).p) = Len(a.p) + Moved(a.p, a.u, 0)
    BY TransferTyped
  <2>2. Len(a.p) + Moved(a.p, a.u, 0) = AtLeastOne(Len(a.p))
    <3>1. Len(a.p) + Len(a.u) # 0
      BY <1>1
    <3>2. \A m, n \in Nat :
            m + n # 0 => m + (IF 0 >= m + n THEN n ELSE IF 0 < m THEN 0 ELSE 0 + 1 - m) = AtLeastOne(m)
      BY DEF AtLeastOne
    <3>3. Moved(a.p, a.u, 0) = IF 0 >= Len(a.p) + Len(a.u) THEN Len(a.u)
                               ELSE IF 0 < Len(a.p) THEN 0 ELSE 0 + 1 - Len(a.p)
      BY DEF Moved
    <3> QED
      BY ONLY <1>1, <3>1, <3>2, <3>3
  <2> QED
    BY <2>1, <2>2, TransferTyped, TransferLoad, FirstKept
<1>3. PICK p \in Seq(Toks(A)), u \in Seq(Words(A)) :
        Transfer(a, 0) = [p |-> p, u |-> u] /\ Len(p) \in Nat /\ Len(u) \in Nat
  BY <1>2, AdapterParts
<1>4. Transfer(a, 0).p = p /\ Transfer(a, 0).u = u
  BY <1>3
<1>5. Len(p) = AtLeastOne(Len(a.p)) /\ Len(p) \in Nat \ {0}
  <2>1. Len(p) = AtLeastOne(Len(a.p))
    BY ONLY <1>2, <1>4
  <2> QED
    BY ONLY <1>1, <2>1 DEF AtLeastOne
<1>6. First(Transfer(a, 0)) = p[1]
  BY <1>3, <1>5 DEF First, At
<1>7. Weight(p) \in Nat /\ Weight(u) \in Nat /\ Weight(p) + Weight(u) = Load(a)
  <2>1. /\ Weight(Transfer(a, 0).p) \in Nat /\ Weight(Transfer(a, 0).u) \in Nat
    BY <1>2, LoadTyped
  <2> QED
    BY <1>2, <1>4, <2>1 DEF Load
<1> QED
  BY <1>2, <1>3, <1>5, <1>6, <1>7

\* The load and the front of an adapter that is given by its two parts
LEMMA PartsLoad ==
  \A p, u : /\ Load([p |-> p, u |-> u]) = Weight(p) + Weight(u)
            /\ [p |-> p, u |-> u].p = p /\ [p |-> p, u |-> u].u = u
            /\ ~(0 >= Len(p)) => First([p |-> p, u |-> u]) = p[1]
BY DEF Load, First, At

LEMMA InsertLoad ==
  ASSUME NEW A, NEW a \in Adapters(A), Size(a) # 0, NEW v \in Toks(A)
  PROVE  /\ Load(Insert(a, 1, <<v>>)) = Load(a) + WeightOf(v)
         /\ First(Insert(a, 1, <<v>>)) = First(a)
         /\ Len(Insert(a, 1, <<v>>).p) = AtLeastOne(Len(a.p)) + 1
<1>1. PICK p \in Seq(Toks(A)) : \E u \in Seq(Words(A)) :
           /\ Transfer(a, 0) = [p |-> p, u |-> u]
           /\ Len(p) = AtLeastOne(Len(a.p)) /\ Len(p) \in Nat \ {0} /\ Len(u) \in Nat
           /\ p[1] = First(a)
           /\ Weight(p) \in Nat /\ Weight(u) \in Nat /\ Weight(p) + Weight(u) = Load(a)
  BY FirstClaimed
<1>2. PICK u \in Seq(Words(A)) :
           /\ Transfer(a, 0) = [p |-> p, u |-> u] /\ Len(u) \in Nat
           /\ Weight(u) \in Nat /\ Weight(p) + Weight(u) = Load(a)
  BY <1>1
<1> DEFINE at == IF IsEnd([p |-> p, u |-> u], 1) THEN Len(p) ELSE 1
           q  == Splice(p, at, <<v>>)
<1>3. Insert(a, 1, <<v>>) = [p |-> q, u |-> u]
  BY <1>2, EndAssumption DEF Insert, Prev
<1>4. at \in 0 .. Len(p) /\ 1 <= at
  BY ONLY <1>1
<1> HIDE DEF at
<1>5. <<v>> \in Seq(Toks(A)) /\ Len(<<v>>) = 1 /\ Weight(<<v>>) = WeightOf(v) /\ WeightOf(v) \in Nat
  BY WeightSmall, WeightTyped
<1>6. /\ Weight(q) = Weight(p) + Weight(<<v>>) /\ Len(q) = Len(p) + 1
      /\ \A k \in 1 .. at : q[k] = p[k]
  <2>1. Weight(q) = Weight(p) + Weight(<<v>>)
    BY <1>4, <1>5, WeightSplice
  <2>2. Len(q) = Len(p) + 1
    BY <1>4, <1>5, SpliceType
  <2>3. \A k \in 1 .. at : q[k] = p[k]
    BY <1>4, <1>5, SpliceFacts
  <2> QED
    BY ONLY <2>1, <2>2, <2>3
<1> HIDE DEF q
<1>7. q[1] = p[1] /\ ~(0 >= Len(q))
  BY ONLY <1>1, <1>4, <1>6
<1>8. /\ Load(Insert(a, 1, <<v>>)) = Weight(q) + Weight(u)
      /\ First(Insert(a, 1, <<v>>)) = q[1] /\ Insert(a, 1, <<v>>).p = q
  BY ONLY <1>3, <1>7, PartsLoad
<1> QED
  BY ONLY <1>1, <1>2, <1>5, <1>6, <1>7, <1>8

LEMMA SetLoad ==
  ASSUME NEW A, NEW a \in Adapters(A), Size(a) # 0, NEW v \in Toks(A)
  PROVE  /\ Load(SetAt(a, 0, v)) = Load(a) - WeightOf(First(a)) + WeightOf(v)
         /\ Len(SetAt(a, 0, v).p) = AtLeastOne(Len(a.p))
<1>1. PICK p \in Seq(Toks(A)) : \E u \in Seq(Words(A)) :
           /\ Transfer(a, 0) = [p |-> p, u |-> u]
           /\ Len(p) = AtLeastOne(Len(a.p)) /\ Len(p) \in Nat \ {0} /\ Len(u) \in Nat
           /\ p[1] = First(a)
           /\ Weight(p) \in Nat /\ Weight(u) \in Nat /\ Weight(p) + Weight(u) = Load(a)
  BY FirstClaimed
<1>2. PICK u \in Seq(Words(A)) :
           /\ Transfer(a, 0) = [p |-> p, u |-> u] /\ Len(u) \in Nat
           /\ Weight(u) \in Nat /\ Weight(p) + Weight(u) = Load(a)
  BY <1>1
<1> DEFINE q == [p EXCEPT ![1] = v]
<1>3. SetAt(a, 0, v) = [p |-> q, u |-> u]
  BY <1>2 DEF SetAt
<1>4. Weight(q) = Weight(p) - WeightOf(p[1]) + WeightOf(v) /\ Len(q) = Len(p)
  <2>1. Len(p) >= 1 /\ Len(q) = Len(p)
    BY <1>1
  <2>2. p \in Seq(Toks(A)) /\ v \in Toks(A)
    OBVIOUS
  <2> QED
    BY ONLY <2>1, <2>2, WeightReplaced
<1>5. WeightOf(p[1]) \in Nat /\ WeightOf(v) \in Nat
  <2>1. p[1] \in Toks(A)
    BY <1>1
  <2> QED
    BY <2>1, WeightTyped
<1> HIDE DEF q
<1>6. Load(SetAt(a, 0, v)) = Weight(q) + Weight(u) /\ SetAt(a, 0, v).p = q
  BY ONLY <1>3, PartsLoad
<1> QED
  BY ONLY <1>1, <1>2, <1>4, <1>5, <1>6

\* The flags behind the first of a collapsed word weigh one each.
LEMMA LeaveLoad ==
  ASSUME NEW A, NEW a \in Adapters(A), Size(a) # 0, NEW name \in Seq(A)
  PROVE  LET b == Leave(Transfer(a, 0), Rest(name))
         IN  /\ Load(b) = Load(a) + (AtLeastOne(Len(name)) - 1)
             /\ First(b) = First(a)
             /\ Len(b.p) = AtLeastOne(Len(a.p))
<1>1. PICK p \in Seq(Toks(A)) : \E u \in Seq(Words(A)) :
           /\ Transfer(a, 0) = [p |-> p, u |-> u]
           /\ Len(p) = AtLeastOne(Len(a.p)) /\ Len(p) \in Nat \ {0} /\ Len(u) \in Nat
           /\ p[1] = First(a)
           /\ Weight(p) \in Nat /\ Weight(u) \in Nat /\ Weight(p) + Weight(u) = Load(a)
  BY FirstClaimed
<1>2. PICK u \in Seq(Words(A)) :
           /\ Transfer(a, 0) = [p |-> p, u |-> u] /\ Len(u) \in Nat
           /\ Weight(u) \in Nat /\ Weight(p) + Weight(u) = Load(a)
  BY <1>1
<1> DEFINE n == AtLeastOne(Len(name)) - 1
           r == Rest(name)
<1>3. n \in Nat /\ 1 .. Len(name) - 1 = 1 .. n
  <2>1. Len(name) \in Nat
    OBVIOUS
  <2> QED
    BY <2>1 DEF AtLeastOne
<1>4. r = [k \in 1 .. n |-> Token("short", <<name[k + 1]>>)]
  BY <1>3 DEF Rest
<1>5. \A k \in 1 .. n : /\ Token("short", <<name[k + 1]>>) \in Toks(A)
                        /\ WeightOf(Token("short", <<name[k + 1]>>)) = 1
  <2> SUFFICES ASSUME NEW k \in 1 .. n
               PROVE  /\ Token("short", <<name[k + 1]>>) \in Toks(A)
                      /\ WeightOf(Token("short", <<name[k + 1]>>)) = 1
    OBVIOUS
  <2>1. name[k + 1] \in A
    BY <1>3 DEF AtLeastOne
  <2>2. Token("short", <<name[k + 1]>>).name = <<name[k + 1]>>
    BY DEF Token
  <2>3. <<name[k + 1]>> # <<>> /\ Len(<<name[k + 1]>>) = 1
    OBVIOUS
  <2> QED
    BY <2>1, <2>2, <2>3 DEF Token, Toks, WeightOf
<1> HIDE DEF r, n
<1>6. r \in Seq(Toks(A)) /\ Len(r) = n /\ \A k \in 1 .. Len(r) : WeightOf(r[k]) = 1
  BY <1>3, <1>4, <1>5
<1>7. Weight(r) = n
  BY <1>6, WeightUnits
<1>8. Weight(r \o u) = Weight(r) + Weight(u)
  BY <1>6, WordsAreTokens, WeightConcat
<1>9. Leave(Transfer(a, 0), Rest(name)) = [p |-> p, u |-> r \o u]
  <2>1. \A q, w, x : [[p |-> q, u |-> w] EXCEPT !.u = x] = [p |-> q, u |-> x]
    OBVIOUS
  <2> DEFINE b == Transfer(a, 0)
  <2>2. b = [p |-> p, u |-> u]
    BY <1>2
  <2> HIDE DEF b
  <2>3. Leave(b, Rest(name)) = [b EXCEPT !.u = r \o u]
    <3>1. b.u = u
      BY ONLY <2>2
    <3> QED
      BY ONLY <3>1 DEF Leave, r
  <2>4. Leave(b, Rest(name)) = [p |-> p, u |-> r \o u]
    BY ONLY <2>1, <2>2, <2>3
  <2> QED
    BY <2>4 DEF b
<1>10. ~(0 >= Len(p))
  BY <1>1
<1> DEFINE b == Leave(Transfer(a, 0), Rest(name))
<1>11. Load(b) = Weight(p) + Weight(r \o u) /\ First(b) = p[1] /\ b.p = p
  BY ONLY <1>9, <1>10, PartsLoad
<1> HIDE DEF b
<1>12. Load(b) = Load(a) + n
  BY ONLY <1>1, <1>2, <1>3, <1>7, <1>8, <1>11
<1> QED
  BY <1>1, <1>11, <1>12 DEF b, n

\* A token that is erased is gone.
LEMMA EraseLoad ==
  ASSUME NEW A, NEW a \in Adapters(A), NEW it \in Nat
  PROVE  /\ Load(Erase(a, it)) <= Load(a)
         /\ it < Size(a) => Load(Erase(a, it)) < Load(a)
<1>1. PICK p \in Seq(Toks(A)), u \in Seq(Words(A)) :
        /\ a = [p |-> p, u |-> u]
        /\ Size(a) = Len(p) + Len(u)
        /\ Len(p) \in Nat /\ Len(u) \in Nat
  BY AdapterParts
<1>2. /\ Load(a) = Weight(p) + Weight(u) /\ Weight(p) \in Nat /\ Weight(u) \in Nat
      /\ u \in Seq(Toks(A))
  BY <1>1, WordsAreTokens, WeightBounds DEF Load
<1>3. CASE IsEnd(a, it)
  <2>1. Erase(a, it) = a /\ ~(it < Size(a))
    BY <1>1, <1>3, EndAssumption DEF Erase, IsEnd
  <2> QED
    BY <1>2, <2>1
<1>4. CASE ~IsEnd(a, it) /\ it < Len(p)
  <2>1. Erase(a, it) = [p |-> Cut(p, it, 1), u |-> u]
    BY <1>1, <1>4 DEF Erase
  <2>2. it + 1 <= Len(p) /\ 1 \in Nat
    BY <1>1, <1>4
  <2>3. Cut(p, it, 1) \in Seq(Toks(A)) /\ Weight(Cut(p, it, 1)) + 1 <= Weight(p)
    BY <2>2, CutType, WeightCut
  <2>4. Weight(Cut(p, it, 1)) \in Nat
    BY <2>3, WeightBounds
  <2>5. Load(Erase(a, it)) = Weight(Cut(p, it, 1)) + Weight(u)
    BY <2>1, PartsLoad
  <2> QED
    BY ONLY <1>2, <2>3, <2>4, <2>5
<1>5. CASE ~IsEnd(a, it) /\ ~(it < Len(p))
  <2> DEFINE j == it - Len(p)
  <2>1. Erase(a, it) = [p |-> p, u |-> Cut(u, j, 1)]
    BY <1>1, <1>5 DEF Erase
  <2>2. j \in Nat /\ j + 1 <= Len(u) /\ 1 \in Nat
    <3>1. ~(it >= Len(p) + Len(u))
      BY <1>1, <1>5 DEF IsEnd
    <3> QED
      BY ONLY <1>1, <1>5, <3>1, it \in Nat
  <2> HIDE DEF j
  <2>3. Cut(u, j, 1) \in Seq(Toks(A)) /\ Weight(Cut(u, j, 1)) + 1 <= Weight(u)
    BY <1>2, <2>2, CutType, WeightCut
  <2>4. Weight(Cut(u, j, 1)) \in Nat
    BY <2>3, WeightBounds
  <2>5. Load(Erase(a, it)) = Weight(p) + Weight(Cut(u, j, 1))
    BY <2>1, PartsLoad
  <2> QED
    BY ONLY <1>2, <2>3, <2>4, <2>5
<1> QED
  BY <1>3, <1>4, <1>5
-----------------------------------------------------------------------------
\* The phases

\* The state t leaves no more of the command line than s, less if the node's
\* targets are replaced in it.
Lightens(s, t) == Load(t.a) <= Load(s.a) /\ (t.act = "subs" => Load(t.a) < Load(s.a))

LEMMA ActsLight ==
  ASSUME NEW A, NEW ids, NEW s \in States(A, ids)
  PROVE  /\ s.a \in Adapters(A) /\ Load(s.a) \in Nat
         /\ \A code : \A t \in {Valid(s), SkipNode(s), Error(s, code), Throw(s, code)} :
              Lightens(s, t) /\ t.a = s.a /\ t.act # "subs"
         /\ \A b : /\ Valid([s EXCEPT !.a = b]).a = b
                   /\ Valid([s EXCEPT !.a = b]).act = "valid"
                   /\ Load(b) <= Load(s.a) => Lightens(s, Valid([s EXCEPT !.a = b]))
<1>1. s.a \in Adapters(A)
  BY DEF States
<1>2. Load(s.a) \in Nat
  BY <1>1, LoadTyped
<1>3. \A code : \A t \in {Valid(s), SkipNode(s), Error(s, code), Throw(s, code)} :
        t.a = s.a /\ t.act # "subs"
  BY DEF Valid, SkipNode, Error, Throw, States
<1>4. \A b : /\ Valid([s EXCEPT !.a = b]).a = b
             /\ Valid([s EXCEPT !.a = b]).act = "valid"
  BY DEF Valid, States
<1>5. \A t : t.a = s.a /\ t.act # "subs" => Lightens(s, t)
  BY <1>2 DEF Lightens
<1>6. ASSUME NEW b, Load(b) <= Load(s.a) PROVE Lightens(s, Valid([s EXCEPT !.a = b]))
  <2> DEFINE t == Valid([s EXCEPT !.a = b])
  <2>1. t.a = b /\ t.act = "valid"
    BY <1>4
  <2> HIDE DEF t
  <2> QED
    BY <1>6, <2>1 DEF Lightens, t
<1> QED
  BY <1>1, <1>2, <1>3, <1>4, <1>5, <1>6

\* The place of the separator in a text
LEMMA SeparatorPlace ==
  ASSUME NEW A, NEW text \in Seq(A)
  PROVE  SelectInSeq(text, LAMBDA atom : atom = Separator) \in 0 .. Len(text)
<1> DEFINE I  == {k \in 1 .. Len(text) : text[k] = Separator}
           at == SelectInSeq(text, LAMBDA atom : atom = Separator)
<1>1. at = IF I # {} THEN Min(I) ELSE 0
  BY DEF SelectInSeq
<1>2. I \in SUBSET Nat /\ I \subseteq 1 .. Len(text) /\ Len(text) \in Nat
  OBVIOUS
<1> HIDE DEF I, at
<1>3. at = 0 \/ at \in 1 .. Len(text)
  BY <1>1, <1>2, MinIn
<1>4. at \in 0 .. Len(text)
  BY ONLY <1>2, <1>3
<1> QED
  BY <1>4 DEF at

\* A label that is cut off its word, and the value behind it
LEMMA SplitLoad ==
  ASSUME NEW A, NEW ids, NEW node, NEW s \in States(A, ids)
  PROVE  LET t == ValueSeparator(node, s)
         IN  /\ Lightens(s, t)
             /\ \/ t.a = s.a
                \/ Len(t.a.p) = AtLeastOne(AtLeastOne(Len(s.a.p)) + 1)
<1> DEFINE first == First(s.a)
           at    == SelectInSeq(first.name, LAMBDA atom : atom = Separator)
           value == SubSeq(first.name, at + 1, Len(first.name))
           label == SubSeq(first.name, 1, at - 1)
           v     == Token("none", value)
           l     == Token(first.pre, label)
           b     == Insert(s.a, 1, <<v>>)
           c     == SetAt(b, 0, l)
<1>1. s.a \in Adapters(A) /\ Load(s.a) \in Nat
  BY ActsLight
<1>2. CASE ValueSeparator(node, s) \in {Valid(s), SkipNode(s), Error(s, "missing_value_separator")}
  BY <1>2, ActsLight
<1>3. CASE IsEmpty(s.a)
  <2>1. ValueSeparator(node, s) = Valid(s)
    BY <1>3 DEF ValueSeparator
  <2> QED
    BY <1>2, <2>1
<1>4. CASE ~IsEmpty(s.a)
  <2>1. first \in Toks(A) /\ Size(s.a) # 0
    BY <1>1, <1>4, FirstTyped DEF IsEmpty
  <2> HIDE DEF first
  <2>2. first.name \in Seq(A) /\ Len(first.name) \in Nat /\ first.pre \in {"none", "short", "long"}
    BY <2>1 DEF Toks
  <2>3. at \in 0 .. Len(first.name)
    BY <2>2, SeparatorPlace
  <2> HIDE DEF at
  <2>10. CASE at = 0 \/ value = <<>>
    <3>1. at = 0 \/ (at > 0 /\ value = <<>>)
      BY <2>2, <2>3, <2>10
    <3>2. ValueSeparator(node, s) \in {Valid(s), SkipNode(s), Error(s, "missing_value_separator")}
      BY <1>4, <3>1 DEF ValueSeparator, first, at
    <3> QED
      BY <1>2, <3>2
  <2>11. CASE at # 0 /\ value # <<>>
    <3>1. ValueSeparator(node, s) = Valid([s EXCEPT !.a = c])
      BY <1>4, <2>3, <2>11 DEF ValueSeparator, first, at
    <3>2. /\ value \in Seq(A) /\ Len(value) = Len(first.name) - at
          /\ label \in Seq(A) /\ Len(label) = at - 1
      BY <2>2, <2>3, <2>11, SubSeqFacts
    <3>3. v \in Toks(A) /\ l \in Toks(A) /\ v.name = value /\ l.name = label
      BY <2>2, <3>2 DEF Toks, Token
    <3> HIDE DEF v, l
    <3>4. at \in Nat /\ at >= 1 /\ at <= Len(first.name) /\ Len(first.name) \in Nat
      BY <2>2, <2>3, <2>11
    <3>5. WeightOf(v) + WeightOf(l) <= WeightOf(first) /\ WeightOf(v) \in Nat /\ WeightOf(l) \in Nat
      <4>1. WeightOf(v) = Len(first.name) - at
        BY <2>11, <3>2, <3>3 DEF WeightOf
      <4>2. WeightOf(first) = Len(first.name)
        BY <2>2, <3>4 DEF WeightOf
      <4>3. WeightOf(l) = IF at = 1 THEN 1 ELSE at - 1
        <5>1. label = <<>> <=> at = 1
          BY <3>2, <3>4
        <5> QED
          BY <3>2, <3>3, <5>1 DEF WeightOf
      <4> QED
        BY ONLY <3>4, <4>1, <4>2, <4>3
    <3>6. /\ b \in Adapters(A) /\ Size(b) # 0 /\ First(b) = first
          /\ Load(b) = Load(s.a) + WeightOf(v) /\ Len(b.p) = AtLeastOne(Len(s.a.p)) + 1
      BY <1>1, <2>1, <3>3, InsertTyped, InsertLoad DEF first
    <3> HIDE DEF b
    <3>7. Load(c) = Load(b) - WeightOf(first) + WeightOf(l) /\ Len(c.p) = AtLeastOne(Len(b.p))
      BY <3>3, <3>6, SetLoad
    <3> HIDE DEF c
    <3>8. Load(c) <= Load(s.a)
      <4>1. WeightOf(first) \in Nat
        BY <2>1, WeightTyped
      <4> QED
        BY ONLY <1>1, <3>5, <3>6, <3>7, <4>1
    <3> QED
      BY <3>1, <3>6, <3>7, <3>8, ActsLight
  <2> QED
    BY <2>10, <2>11
<1> QED
  BY <1>3, <1>4

\* A collapsed word and the flags it is taken apart into
LEMMA ExpandLoad ==
  ASSUME NEW A, NEW ids, NEW node, NEW s \in States(A, ids)
  PROVE  LET t == ShortFormExpander(node, s)
         IN  /\ Lightens(s, t)
             /\ \/ t.a = s.a
                \/ Len(t.a.p) = AtLeastOne(AtLeastOne(Len(s.a.p)))
<1> DEFINE first == AsLabelOf(node, First(s.a))
           label == Token("short", SubSeq(first.name, 1, Smaller(1, Len(first.name))))
           b     == Leave(Transfer(s.a, 0), Rest(first.name))
           c     == SetAt(b, 0, label)
<1>1. s.a \in Adapters(A) /\ Load(s.a) \in Nat
  BY ActsLight
<1>2. CASE ShortFormExpander(node, s) \in {Valid(s), Throw(s, "length_error")}
  BY <1>2, ActsLight
<1>3. CASE ~IsEmpty(s.a) /\ ShortFormExpander(node, s) = Valid([s EXCEPT !.a = c])
  <2>1. First(s.a) \in Toks(A) /\ first \in Toks(A) /\ Size(s.a) # 0
    BY <1>1, <1>3, FirstTyped, LabelTyped DEF IsEmpty
  <2>2. WeightOf(first) <= WeightOf(First(s.a)) /\ WeightOf(first) \in Nat /\ WeightOf(First(s.a)) \in Nat
    BY <2>1, LabelWeight, WeightTyped
  <2> HIDE DEF first
  <2>3. first.name \in Seq(A) /\ Len(first.name) \in Nat
    BY <2>1 DEF Toks
  <2>4. WeightOf(first) = AtLeastOne(Len(first.name))
    BY <2>3 DEF WeightOf, AtLeastOne
  <2>5. label \in Toks(A) /\ WeightOf(label) = 1
    <3> DEFINE n == Smaller(1, Len(first.name))
               x == SubSeq(first.name, 1, n)
    <3>1. n \in Nat /\ n <= Len(first.name) /\ n <= 1
      BY <2>3 DEF Smaller
    <3> HIDE DEF n
    <3>2. x \in Seq(A) /\ Len(x) = n
      BY <2>3, <3>1, SubSeqFacts
    <3>3. label.name = x /\ label \in Toks(A)
      BY <3>2 DEF Token, Toks, n
    <3> HIDE DEF x
    <3>4. x # <<>> => Len(x) = 1
      BY <3>1, <3>2
    <3> QED
      BY <3>3, <3>4 DEF WeightOf
  <2> HIDE DEF label
  <2>6. /\ b \in Adapters(A) /\ Size(b) # 0
        /\ Load(b) = Load(s.a) + (AtLeastOne(Len(first.name)) - 1)
        /\ First(b) = First(s.a) /\ Len(b.p) = AtLeastOne(Len(s.a.p))
    BY <1>1, <2>1, <2>3, LeaveTyped, LeaveLoad
  <2> HIDE DEF b
  <2>7. /\ Load(c) = Load(b) - WeightOf(First(s.a)) + WeightOf(label)
        /\ Len(c.p) = AtLeastOne(Len(b.p))
    BY <2>5, <2>6, SetLoad
  <2> HIDE DEF c
  <2>8. Load(c) <= Load(s.a)
    BY ONLY <1>1, <2>2, <2>4, <2>5, <2>6, <2>7
  <2> QED
    BY <1>3, <2>6, <2>7, <2>8, ActsLight
<1>4. \/ ShortFormExpander(node, s) \in {Valid(s), Throw(s, "length_error")}
      \/ ~IsEmpty(s.a) /\ ShortFormExpander(node, s) = Valid([s EXCEPT !.a = c])
  <2>1. CASE IsEmpty(s.a)
    BY <2>1 DEF ShortFormExpander
  <2>2. CASE ~IsEmpty(s.a)
    BY <2>2 DEF ShortFormExpander
  <2> QED
    BY <2>1, <2>2
<1> QED
  BY <1>2, <1>3, <1>4

LEMMA NoLoad ==
  ASSUME NEW A, NEW a \in Adapters(A), Size(a) = 0
  PROVE  Load(a) = 0
<1>1. /\ a.p \in Seq(Toks(A)) /\ a.u \in Seq(Toks(A)) /\ Len(a.p) \in Nat /\ Len(a.u) \in Nat
      /\ Size(a) = Len(a.p) + Len(a.u)
  BY LoadTyped
<1>2. Len(a.p) = 0 /\ Len(a.u) = 0
  <2> DEFINE m == Len(a.p)
             n == Len(a.u)
  <2>1. m \in Nat /\ n \in Nat /\ m + n = 0
    BY <1>1
  <2> HIDE DEF m, n
  <2>2. m = 0 /\ n = 0
    BY ONLY <2>1
  <2> QED
    BY <2>2 DEF m, n
<1>3. a.p = <<>> /\ a.u = <<>>
  BY <1>1, <1>2
<1> QED
  BY <1>3, WeightSmall DEF Load

\* If the marker is all there is to claim, it is used up.
LEMMA MarkLoad ==
  ASSUME NEW A, NEW ids, NEW node, NEW s \in States(A, ids)
  PROVE  LET t == TokenEndMarker(node, s)
         IN  /\ Lightens(s, t)
             /\ t.a.p # <<>> \/ Load(t.a) < Load(s.a) \/ Load(t.a) = 0
<1> DEFINE t == TokenEndMarker(node, s)
<1>1. PICK it \in Nat : t = Valid([s EXCEPT !.a = Erase(Transfer(s.a, it), it)])
  BY MarkErases
<1> DEFINE b == Transfer(s.a, it)
           c == Erase(b, it)
<1>2. s.a \in Adapters(A) /\ Load(s.a) \in Nat
  BY ActsLight
<1>3. /\ b \in Adapters(A) /\ Size(b) = Size(s.a) /\ Load(b) = Load(s.a)
      /\ Len(b.p) = Len(s.a.p) + Moved(s.a.p, s.a.u, it)
  <2>1. it \in Int
    BY <1>1
  <2>2. /\ b \in Adapters(A) /\ Size(b) = Size(s.a)
        /\ Len(b.p) = Len(s.a.p) + Moved(s.a.p, s.a.u, it)
    BY <1>2, <2>1, TransferTyped
  <2>3. Load(b) = Load(s.a)
    BY <1>2, <2>1, TransferLoad
  <2> QED
    BY ONLY <2>2, <2>3
<1>4. /\ Len(s.a.p) \in Nat /\ Len(s.a.u) \in Nat /\ Size(s.a) = Len(s.a.p) + Len(s.a.u)
  BY <1>2, LoadTyped
<1>5. t.a = c
  BY <1>1, <1>2, ActsLight
<1> HIDE DEF b
<1>6. Load(c) <= Load(b) /\ (it < Size(b) => Load(c) < Load(b))
  BY <1>3, EraseLoad
<1>7. CASE it < Size(s.a)
  BY <1>1, <1>3, <1>5, <1>6, <1>7, ActsLight DEF b
<1>8. CASE ~(it < Size(s.a)) /\ Size(s.a) = 0
  <2>1. Load(s.a) = 0
    BY <1>2, <1>8, NoLoad
  <2>2. c \in Adapters(A)
    BY <1>3, EraseTyped
  <2> HIDE DEF c
  <2>3. Load(c) \in Nat
    BY <2>2, LoadTyped
  <2> QED
    BY <1>1, <1>3, <1>5, <1>6, <2>1, <2>3, ActsLight DEF b, c
<1>9. CASE ~(it < Size(s.a)) /\ Size(s.a) # 0
  <2>0. Size(s.a) \in Nat /\ it >= Size(s.a)
    <3>1. Size(s.a) \in Nat
      BY <1>2, LoadTyped
    <3> HIDE DEF c
    <3> QED
      BY ONLY <1>9, <3>1, it \in Nat
  <2>1. c = b
    BY <1>3, <2>0 DEF Erase, IsEnd
  <2>2. it >= Len(s.a.p) + Len(s.a.u)
    BY ONLY <1>4, <2>0
  <2>3. Len(b.p) = Size(s.a)
    BY <1>3, <1>4, <2>2 DEF Moved
  <2>4. b.p # <<>>
    BY <1>4, <1>9, <2>3
  <2> QED
    BY <1>1, <1>3, <1>5, <1>6, <2>1, <2>4, ActsLight DEF b
<1> QED
  BY <1>7, <1>8, <1>9

\* What the rules say of a leaf's counts
Counts(node) ==
  /\ Parameters(node) /\ node.min <= node.max /\ node.max <= SizeMax
  /\ IsNamed(node) \/ node.max > 0

Fewest(node) == WithLabel(node.min, node)
Most(node)   == WithLabel(node.max, node)

LEMMA LabelCounts ==
  ASSUME NEW node, Counts(node)
  PROVE  /\ Fewest(node) \in Nat /\ Most(node) \in 1 .. SizeMax /\ Fewest(node) <= Most(node)
         /\ IsNamed(node) => Fewest(node) >= 1
         /\ \A n \in Nat : 2 * n <= SizeMax /\ Fewest(node) <= n /\ n <= Most(node) =>
              n - NamedOffset(node) \in node.min .. node.max
<1>1. /\ node.min \in Nat /\ node.max \in Nat /\ node.min <= node.max /\ node.max <= 255
      /\ NamedOffset(node) = IF IsNamed(node) THEN 1 ELSE 0
      /\ IsNamed(node) \/ node.max > 0
  BY DEF Counts, Parameters, SizeMax, NamedOffset
<1>2. /\ Fewest(node) = IF node.min = 255 THEN node.min ELSE node.min + NamedOffset(node)
      /\ Most(node) = IF node.max = 255 THEN node.max ELSE node.max + NamedOffset(node)
  BY DEF Fewest, Most, WithLabel, SizeMax
<1> DEFINE lo == node.min
           hi == node.max
           named == IsNamed(node)
<1> HIDE DEF lo, hi, named
<1>3. /\ lo \in Nat /\ hi \in Nat /\ lo <= hi /\ hi <= 255 /\ (named \/ hi > 0)
      /\ NamedOffset(node) = IF named THEN 1 ELSE 0
      /\ Fewest(node) = IF lo = 255 THEN lo ELSE lo + NamedOffset(node)
      /\ Most(node) = IF hi = 255 THEN hi ELSE hi + NamedOffset(node)
  BY <1>1, <1>2 DEF lo, hi, named
<1>4. /\ Fewest(node) \in Nat /\ Most(node) \in 1 .. 255 /\ Fewest(node) <= Most(node)
      /\ named => Fewest(node) >= 1
  BY ONLY <1>3
<1>5. \A n \in Nat : 2 * n <= 255 /\ Fewest(node) <= n /\ n <= Most(node) =>
        n - NamedOffset(node) \in lo .. hi
  BY ONLY <1>3
<1> QED
  BY <1>4, <1>5 DEF lo, hi, named, SizeMax

\* How many tokens a count claims of l claimed ones and m others, at least n
\* and at most k: the iterator it is the last one's, or none's.
LEMMA Counting ==
  ASSUME NEW l \in Nat, NEW m \in Nat, NEW k \in 1 .. SizeMax, 2 * (l + m) <= SizeMax,
         NEW marked \in BOOLEAN, marked \/ l <= k,
         NEW n \in Nat, n <= k,
         NEW num, num = IF marked THEN l ELSE l + m,
         ~(marked /\ num > k), ~(num < n),
         NEW p, NEW u, Len(p) = l, Len(u) = m,
         NEW it, it = AsOffset(Smaller(MinusOne(k), MinusOne(num)))
  PROVE  /\ it \in Int
         /\ Moved(p, u, it) \in 0 .. m => /\ n <= l + Moved(p, u, it) /\ l + Moved(p, u, it) <= k
                                          /\ num # 0 => l + Moved(p, u, it) >= 1
<1>1. k \in Nat /\ 1 <= k /\ k <= 255 /\ 2 * (l + m) <= 255 /\ num \in Nat /\ num <= l + m
  BY DEF SizeMax
<1>2. MinusOne(k) = k - 1 /\ MinusOne(num) = IF num = 0 THEN 255 ELSE num - 1
  BY <1>1 DEF MinusOne, SizeMax
<1>3. Moved(p, u, it) = IF it >= l + m THEN m ELSE IF it < l THEN 0 ELSE it + 1 - l
  BY DEF Moved
<1>4. CASE num = 0
  <2>1. it = AsOffset(k - 1)
    BY <1>1, <1>2, <1>4 DEF Smaller
  <2>2. it \in Int /\ it <= k - 1
    BY <1>1, <2>1 DEF AsOffset, SizeMax
  <2>3. n = 0 /\ l = 0 /\ (m = 0 \/ marked)
    BY <1>1, <1>4
  <2> QED
    BY <1>1, <1>3, <1>4, <2>2, <2>3
<1>5. CASE num # 0
  <2>1. Smaller(MinusOne(k), MinusOne(num)) = IF k < num THEN k - 1 ELSE num - 1
    BY <1>1, <1>2, <1>5 DEF Smaller
  <2>2. it = IF k < num THEN k - 1 ELSE num - 1
    BY <1>1, <1>5, <2>1 DEF AsOffset, SizeMax
  <2>3. CASE marked
    <3>1. it = l - 1 /\ num = l /\ l <= k /\ l >= 1
      BY <1>1, <1>5, <2>2, <2>3
    <3>2. Moved(p, u, it) = 0
      BY <1>1, <1>3, <3>1
    <3> QED
      BY <1>1, <3>1, <3>2
  <2>4. CASE ~marked
    <3>1. num = l + m /\ l <= k /\ n <= l + m
      BY <1>1, <2>4
    <3> QED
      BY <1>1, <1>3, <1>5, <2>2, <3>1
  <2> QED
    BY <2>3, <2>4
<1> QED
  BY <1>4, <1>5

LEMMA CountLoad ==
  ASSUME NEW A, NEW ids, NEW node, Counts(node), NEW s \in States(A, ids), 2 * Load(s.a) <= SizeMax,
         "token_end_marker" \in node.policies \/ Len(s.a.p) <= Most(node)
  PROVE  LET t == MinMaxCount(node, s)
         IN  /\ Lightens(s, t)
             /\ ~Ended(t) => /\ Fewest(node) <= Len(t.a.p) /\ Len(t.a.p) <= Most(node)
                             /\ \/ t.a.p # <<>> \/ Load(s.a) = 0
                                \/ "token_end_marker" \in node.policies /\ s.a.p = <<>>
<1> DEFINE marked == "token_end_marker" \in node.policies
           num    == IF marked THEN Len(s.a.p) ELSE Size(s.a)
           it     == AsOffset(Smaller(MinusOne(Most(node)), MinusOne(num)))
           b      == Transfer(s.a, it)
           l      == Len(s.a.p)
           m      == Len(s.a.u)
           t      == MinMaxCount(node, s)
<1>1. /\ s.a \in Adapters(A) /\ Load(s.a) \in Nat
      /\ l \in Nat /\ m \in Nat /\ Size(s.a) = l + m /\ Size(s.a) <= Load(s.a)
  BY ActsLight, LoadTyped
<1>2. /\ Fewest(node) \in Nat /\ Most(node) \in 1 .. SizeMax /\ Fewest(node) <= Most(node)
  BY LabelCounts
<1>3. CASE marked /\ num > Most(node)
  <2>1. t = Error(s, "maximum_count_exceeded")
    BY <1>3 DEF MinMaxCount, Most
  <2> HIDE DEF t
  <2>2. Ended(t)
    BY <2>1 DEF Ended, Error, States
  <2> QED
    BY <2>1, <2>2, ActsLight DEF t
<1>4. CASE ~(marked /\ num > Most(node)) /\ num < Fewest(node)
  <2>1. t = Error(s, "minimum_count_not_reached")
    BY <1>4 DEF MinMaxCount, Most, Fewest
  <2> HIDE DEF t
  <2>2. Ended(t)
    BY <2>1 DEF Ended, Error, States
  <2> QED
    BY <2>1, <2>2, ActsLight DEF t
<1>5. CASE ~(marked /\ num > Most(node)) /\ ~(num < Fewest(node))
  <2>1. t = Valid([s EXCEPT !.a = b])
    BY <1>5 DEF MinMaxCount, Most, Fewest
  <2>2. 2 * (l + m) <= SizeMax
    <3>1. 2 * Load(s.a) <= SizeMax
      OBVIOUS
    <3> HIDE DEF l, m
    <3> QED
      BY ONLY <1>1, <3>1 DEF SizeMax
  <2>3. num = IF marked THEN l ELSE l + m
    BY <1>1
  <2>4. marked \/ l <= Most(node)
    OBVIOUS
  <2> HIDE DEF t
  <2>5. /\ it \in Int
        /\ Moved(s.a.p, s.a.u, it) \in 0 .. m =>
             /\ Fewest(node) <= l + Moved(s.a.p, s.a.u, it) /\ l + Moved(s.a.p, s.a.u, it) <= Most(node)
             /\ num # 0 => l + Moved(s.a.p, s.a.u, it) >= 1
    <3>1. marked \in BOOLEAN
      OBVIOUS
    <3>2. Len(s.a.p) = l /\ Len(s.a.u) = m
      OBVIOUS
    <3> DEFINE i1 == it
    <3>3. i1 = AsOffset(Smaller(MinusOne(Most(node)), MinusOne(num)))
      OBVIOUS
    <3> HIDE DEF i1, l, m, num, marked
    <3>4. /\ i1 \in Int
          /\ Moved(s.a.p, s.a.u, i1) \in 0 .. m =>
               /\ Fewest(node) <= l + Moved(s.a.p, s.a.u, i1) /\ l + Moved(s.a.p, s.a.u, i1) <= Most(node)
               /\ num # 0 => l + Moved(s.a.p, s.a.u, i1) >= 1
      BY ONLY <1>1, <1>2, <1>5, <2>2, <2>3, <2>4, <3>1, <3>2, <3>3, Counting
    <3> QED
      BY <3>4 DEF i1
  <2> HIDE DEF it
  <2>6. Moved(s.a.p, s.a.u, it) \in 0 .. m
    <3>1. s.a.p \in Seq(Toks(A)) /\ s.a.u \in Seq(Words(A))
      BY <1>1, LoadTyped
    <3> QED
      BY <2>5, <3>1, TransferMoves
  <2>7. /\ b \in Adapters(A) /\ Load(b) = Load(s.a) /\ Len(b.p) = l + Moved(s.a.p, s.a.u, it)
    BY <1>1, <2>5, TransferTyped, TransferLoad
  <2> HIDE DEF b
  <2>8. t.a = b /\ Lightens(s, t)
    BY <1>1, <2>1, <2>7, ActsLight
  <2>9. Fewest(node) <= Len(t.a.p) /\ Len(t.a.p) <= Most(node) /\ (num # 0 => t.a.p # <<>>)
    <3>1. num # 0 => Len(b.p) >= 1
      BY ONLY <2>5, <2>6, <2>7
    <3>2. Len(b.p) >= 1 => b.p # <<>>
      OBVIOUS
    <3> QED
      BY <2>5, <2>6, <2>7, <2>8, <3>1, <3>2
  <2>10. num = 0 => Load(s.a) = 0 \/ (marked /\ s.a.p = <<>>)
    <3>1. CASE marked
      <4>1. s.a.p \in Seq(Toks(A))
        BY <1>1, LoadTyped
      <4> QED
        BY <3>1, <4>1
    <3>2. CASE ~marked
      BY <1>1, <3>2, NoLoad
    <3> QED
      BY <3>1, <3>2
  <2> QED
    BY <2>8, <2>9, <2>10 DEF t
<1> QED
  BY <1>3, <1>4, <1>5

\* What a phase leaves: r, with its state s, and t if it runs
LeftBy(node, policy, s, t, r) ==
  /\ r.act \in {s.act, t.act}
  /\ r = s \/ r.a = t.a
  /\ policy \notin node.policies => r = s
  /\ ~Ended(r) => ~Ended(s)
  /\ ~Ended(r) /\ policy \in node.policies =>
       /\ ~Ended(t) /\ r.a = t.a /\ r.subs = t.subs
       /\ s.act = "subs" \/ t.act = "subs" => r.act = "subs"

LEMMA AfterLeaves ==
  ASSUME NEW A, NEW ids, NEW node, NEW policy, NEW s \in States(A, ids), NEW t \in States(A, ids)
  PROVE  LeftBy(node, policy, s, t, After(s, policy, node, t))
<1> DEFINE k == KeepSubs(s, t)
           r == After(s, policy, node, t)
<1>1. /\ k.a = t.a /\ k.subs = t.subs /\ k.act \in {s.act, t.act}
      /\ Ended(t) => Ended(k)
      /\ ~Ended(t) /\ (s.act = "subs" \/ t.act = "subs") => k.act = "subs"
  BY DEF KeepSubs, States, Ended
<1> HIDE DEF k
<1>2. r = IF policy \notin node.policies \/ Ended(s) THEN s ELSE k
  BY DEF After, Ended, k
<1> HIDE DEF r
<1> QED
  BY <1>1, <1>2 DEF k, r, LeftBy

\* The targets of an alias take as many tokens as its count says, and these
\* tokens are gone.
Replaces(node, s, t) ==
  Lightens(s, t) /\ (~Ended(t) => \A k \in DOMAIN t.subs : Len(t.subs[k].tokens) = node.max)

LEMMA AliasLoad ==
  ASSUME NEW A, NEW nodes, \A n \in nodes : n.children \in Seq(nodes), NEW children \in Seq(nodes),
         NEW node, Parameters(node), NEW ids, NEW s \in States(A, ids), s.subs = <<>>
  PROVE  Replaces(node, s, Alias(node, children, s))
<1> DEFINE c    == Transfer(s.a, node.max)
           ts   == AliasTargets(node, children, c.p)
           rest == Cut(c.p, 0, node.max + 1)
           b    == [c EXCEPT !.p = rest]
           x    == [s EXCEPT !.act = "subs", !.subs = @ \o ts, !.a = b]
           t    == Alias(node, children, s)
<1>1. s.a \in Adapters(A) /\ Load(s.a) \in Nat /\ Size(s.a) \in Nat /\ node.max \in Nat
  BY ActsLight, LoadTyped DEF Parameters
<1>2. CASE t \in {Error(s, "too_few_values_for_alias"), SkipNode(s)}
  <2>1. Ended(Error(s, "too_few_values_for_alias")) /\ Ended(SkipNode(s))
    BY DEF Ended, Error, SkipNode, States
  <2> QED
    BY <1>2, <2>1, ActsLight DEF Replaces
<1>3. CASE ~(node.max + 1 > Size(s.a)) /\ t = x
  <2>1. node.max < Size(s.a) /\ node.max \in Int
    BY <1>1, <1>3
  <2>2. /\ c \in Adapters(A) /\ Load(c) = Load(s.a) /\ Len(c.p) >= node.max + 1
    BY <1>1, <2>1, TransferTyped, TransferLoad
  <2> HIDE DEF c, t
  <2>3. PICK T : /\ ts \in Seq(T)
                 /\ \A y \in T : y.tokens = SubSeq(c.p, 2, node.max + 1)
    <3> DEFINE q == c.p
    <3> HIDE DEF q
    <3>1. \E T : /\ AliasTargets(node, children, q) \in Seq(T)
                 /\ \A y \in T : y.tokens = SubSeq(q, 2, node.max + 1)
      BY AliasIds
    <3> QED
      BY Zenon, <3>1 DEF q
  <2> HIDE DEF ts
  <2>4. PICK p \in Seq(Toks(A)), u \in Seq(Words(A)) :
          c = [p |-> p, u |-> u] /\ Len(p) \in Nat /\ Len(u) \in Nat
    BY <2>2, AdapterParts
  <2>5. c.p = p /\ c.u = u /\ Len(p) >= node.max + 1
    BY <2>2, <2>4
  <2>6. rest = Cut(p, 0, node.max + 1)
    BY <2>5
  <2>7. rest \in Seq(Toks(A)) /\ Weight(rest) + (node.max + 1) <= Weight(p)
    BY <1>1, <2>4, <2>5, <2>6, CutType, WeightCut
  <2> HIDE DEF rest
  <2>8. b = [p |-> rest, u |-> u]
    BY <2>4
  <2> HIDE DEF b
  <2>9. Load(b) < Load(s.a)
    <3>1. Weight(rest) \in Nat /\ Weight(p) \in Nat
      BY <2>7, WeightBounds
    <3>2. Weight(u) \in Nat
      BY WordsAreTokens, WeightBounds
    <3>3. Load(b) = Weight(rest) + Weight(u) /\ Load(c) = Weight(p) + Weight(u)
      BY <2>4, <2>8, PartsLoad
    <3> QED
      BY ONLY <1>1, <2>2, <2>7, <3>1, <3>2, <3>3
  <2>10. x.a = b /\ x.subs = <<>> \o ts
    BY DEF States
  <2> HIDE DEF x
  <2>11. Lightens(s, t)
    <3>1. b \in Adapters(A)
      BY <2>7, <2>8 DEF Adapters
    <3>2. Load(b) \in Nat
      BY <3>1, LoadTyped
    <3>3. t.a = b
      BY <1>3, <2>10
    <3> QED
      BY <1>1, <2>9, <3>2, <3>3 DEF Lightens
  <2>12. \A k \in DOMAIN ts : Len(ts[k].tokens) = node.max
    <3>1. \A k \in DOMAIN ts : ts[k].tokens = SubSeq(p, 2, node.max + 1)
      BY <2>3, <2>5
    <3>2. Len(SubSeq(p, 2, node.max + 1)) = node.max
      BY <1>1, <2>4, <2>5, SubSeqFacts
    <3> QED
      BY <3>1, <3>2
  <2>13. <<>> \o ts = ts
    BY <2>3
  <2> QED
    BY <1>3, <2>10, <2>11, <2>12, <2>13 DEF t, Replaces
<1>4. \/ t \in {Error(s, "too_few_values_for_alias"), SkipNode(s)}
      \/ ~(node.max + 1 > Size(s.a)) /\ t = x
  <2>1. CASE node.max + 1 > Size(s.a)
    BY <2>1 DEF Alias
  <2>2. CASE ~(node.max + 1 > Size(s.a))
    <3>1. node.max + 1 <= Size(s.a)
      BY <1>1, <2>2
    <3> QED
      BY <2>2, <3>1 DEF Alias
  <2> QED
    BY <2>1, <2>2
<1> QED
  BY <1>2, <1>3, <1>4

\* A state has used up words, or its node's targets are not replaced.
Light(weight, s) == Load(s.a) <= weight /\ (s.act = "subs" => Load(s.a) < weight)

LEMMA StillLight ==
  ASSUME NEW A, NEW ids, NEW node, NEW policy, NEW s \in States(A, ids), NEW t \in States(A, ids),
         Lightens(s, t), NEW weight \in Nat, Light(weight, s)
  PROVE  Light(weight, After(s, policy, node, t))
<1> DEFINE r == After(s, policy, node, t)
<1>1. LeftBy(node, policy, s, t, r)
  BY AfterLeaves
<1> HIDE DEF r
<1>2. Load(s.a) \in Nat /\ Load(t.a) \in Nat
  BY ActsLight
<1>3. Light(weight, r)
  BY <1>1, <1>2 DEF Light, Lightens, LeftBy
<1> QED
  BY <1>3 DEF r

\* The phases before the counts are looked at claim a label, and the value
\* behind its separator.
FewClaimed(node, s) == Len(s.a.p) <= IF "value_separator" \in node.policies THEN 2 ELSE 1

LEMMA FewStay ==
  ASSUME NEW A, NEW ids, NEW node, NEW s \in States(A, ids), FewClaimed(node, s)
  PROVE  /\ s.a.p = <<>> => FewClaimed(node, Split1(node, s))
         /\ FewClaimed(node, Expand1(node, s))
         /\ FewClaimed(node, Enable1(node, s))
<1>1. s.a \in Adapters(A) /\ Len(s.a.p) \in Nat
  BY ActsLight, LoadTyped
<1>2. \A t \in States(A, ids) : \A policy :
        LET r == After(s, policy, node, t)
        IN  (r = s \/ r.a = t.a) /\ (policy \notin node.policies => r = s)
  <2> SUFFICES ASSUME NEW t \in States(A, ids), NEW policy
               PROVE  LET r == After(s, policy, node, t)
                      IN  (r = s \/ r.a = t.a) /\ (policy \notin node.policies => r = s)
    OBVIOUS
  <2> DEFINE r == After(s, policy, node, t)
  <2>1. LeftBy(node, policy, s, t, r)
    BY AfterLeaves
  <2> QED
    BY <2>1 DEF LeftBy
<1>3. ASSUME s.a.p = <<>> PROVE FewClaimed(node, Split1(node, s))
  <2> DEFINE t == ValueSeparator(node, s)
             r == Split1(node, s)
  <2>1. t \in States(A, ids) /\ (t.a = s.a \/ Len(t.a.p) = AtLeastOne(AtLeastOne(Len(s.a.p)) + 1))
    BY ValueSeparatorTyped, SplitLoad
  <2>2. AtLeastOne(AtLeastOne(0) + 1) = 2 /\ Len(s.a.p) = 0
    BY <1>3 DEF AtLeastOne
  <2> HIDE DEF t
  <2>3. r.a = s.a \/ ("value_separator" \in node.policies /\ r.a = t.a)
    BY <1>2, <2>1 DEF Split1, t
  <2> HIDE DEF r
  <2>4. Len(r.a.p) = 0 \/ ("value_separator" \in node.policies /\ Len(r.a.p) = 2)
    BY <2>1, <2>2, <2>3
  <2> DEFINE n == Len(r.a.p)
  <2>5. n = 0 \/ ("value_separator" \in node.policies /\ n = 2)
    BY <2>4
  <2> HIDE DEF n
  <2>6. n <= IF "value_separator" \in node.policies THEN 2 ELSE 1
    BY <2>5
  <2>7. FewClaimed(node, r)
    BY <2>6 DEF FewClaimed, n
  <2> QED
    BY <2>7 DEF r
<1>4. FewClaimed(node, Expand1(node, s))
  <2> DEFINE t == ShortFormExpander(node, s)
             r == Expand1(node, s)
  <2>1. t \in States(A, ids) /\ (t.a = s.a \/ Len(t.a.p) = AtLeastOne(AtLeastOne(Len(s.a.p))))
    BY ShortFormExpanderTyped, ExpandLoad
  <2>2. AtLeastOne(AtLeastOne(Len(s.a.p))) = IF Len(s.a.p) = 0 THEN 1 ELSE Len(s.a.p)
    BY <1>1 DEF AtLeastOne
  <2> HIDE DEF t
  <2>3. r.a = s.a \/ r.a = t.a
    BY <1>2, <2>1 DEF Expand1, t
  <2> HIDE DEF r
  <2> DEFINE most == IF "value_separator" \in node.policies THEN 2 ELSE 1
  <2>4. most \in {1, 2} /\ Len(s.a.p) <= most
    BY DEF FewClaimed
  <2> HIDE DEF most
  <2>5. Len(r.a.p) <= most
    BY ONLY <1>1, <2>1, <2>2, <2>3, <2>4
  <2> QED
    BY <2>5 DEF FewClaimed, r, most
<1>5. FewClaimed(node, Enable1(node, s))
  <2> DEFINE t == RuntimeEnable(node, s)
             r == Enable1(node, s)
  <2>1. t \in States(A, ids) /\ t.a = s.a
    BY RuntimeEnableTyped, ActsLight DEF RuntimeEnable
  <2> HIDE DEF t
  <2>2. r.a = s.a
    BY <1>2, <2>1 DEF Enable1, t
  <2> QED
    BY <2>2 DEF FewClaimed
<1> QED
  BY <1>3, <1>4, <1>5

\* What a node's counts ask of the tree
HasCounts(node) ==
  /\ "min_max_count" \in node.policies /\ Counts(node)
  /\ "value_separator" \in node.policies => IsNamed(node) /\ node.max = 1

\* The node has claimed as many tokens as its counts allow, and has used up
\* words of a line that weighs w unless there were none.
Claimed(node, w, s) ==
  /\ Fewest(node) <= Len(s.a.p) /\ Len(s.a.p) <= Most(node)
  /\ w > 0 => s.a.p # <<>> \/ Load(s.a) < w

\* The counts phase makes that so, if only labels are claimed before it, or
\* what comes before a marker.
LEMMA CountClaims ==
  ASSUME NEW A, NEW ids, NEW node, NEW s \in States(A, ids), HasCounts(node), NEW w \in Nat,
         2 * w <= SizeMax, Load(s.a) <= w,
         "token_end_marker" \notin node.policies => FewClaimed(node, s),
         "token_end_marker" \in node.policies /\ ~Ended(s) =>
           s.a.p # <<>> \/ Load(s.a) < w \/ Load(s.a) = 0,
         ~Ended(Count1(node, s))
  PROVE  Claimed(node, w, Count1(node, s))
<1> DEFINE t == MinMaxCount(node, s)
           r == Count1(node, s)
<1>1. s.a \in Adapters(A) /\ Load(s.a) \in Nat /\ Len(s.a.p) \in Nat /\ Counts(node) /\ Parameters(node)
  BY ActsLight, LoadTyped DEF HasCounts, Counts
<1>2. t \in States(A, ids)
  BY <1>1, MinMaxCountTyped
<1>3. Most(node) >= 1 /\ Most(node) \in Nat
  <2>1. Most(node) \in 1 .. SizeMax
    BY <1>1, LabelCounts
  <2>2. \A m \in 1 .. SizeMax : m >= 1 /\ m \in Nat
    BY DEF SizeMax
  <2> QED
    BY <2>1, <2>2
<1>4. "token_end_marker" \in node.policies \/ Len(s.a.p) <= Most(node)
  <2> SUFFICES ASSUME "token_end_marker" \notin node.policies PROVE Len(s.a.p) <= Most(node)
    OBVIOUS
  <2> DEFINE n == Len(s.a.p)
             m == Most(node)
  <2>1. n <= IF "value_separator" \in node.policies THEN 2 ELSE 1
    BY DEF FewClaimed
  <2>2. "value_separator" \in node.policies => m = 2
    BY DEF HasCounts, Most, WithLabel, SizeMax, NamedOffset
  <2>3. n \in Nat /\ m \in Nat /\ m >= 1
    BY <1>1, <1>3
  <2> HIDE DEF n, m
  <2>4. n <= m
    BY <2>1, <2>2, <2>3
  <2> QED
    BY <2>4 DEF n, m
<1>5. 2 * Load(s.a) <= SizeMax
  <2> DEFINE l == Load(s.a)
  <2>1. l \in Nat /\ l <= w /\ 2 * w <= 255
    BY <1>1 DEF SizeMax
  <2> HIDE DEF l
  <2>2. 2 * l <= 255
    BY ONLY <2>1, w \in Nat
  <2> QED
    BY <2>2 DEF l, SizeMax
<1>6. /\ Lightens(s, t)
      /\ ~Ended(t) => /\ Fewest(node) <= Len(t.a.p) /\ Len(t.a.p) <= Most(node)
                      /\ \/ t.a.p # <<>> \/ Load(s.a) = 0
                         \/ "token_end_marker" \in node.policies /\ s.a.p = <<>>
  BY <1>1, <1>4, <1>5, CountLoad
<1> HIDE DEF t
<1>7. LeftBy(node, "min_max_count", s, t, r)
  BY <1>2, AfterLeaves DEF Count1, t
<1> HIDE DEF r
<1>8. ~Ended(s) /\ ~Ended(t) /\ r.a = t.a
  BY <1>7 DEF LeftBy, HasCounts, r
<1>9. Load(t.a) \in Nat /\ Load(t.a) <= Load(s.a)
  BY <1>2, <1>6, ActsLight DEF Lightens
<1>10. w > 0 => t.a.p # <<>> \/ Load(t.a) < w
  <2>1. CASE Load(s.a) < w \/ Load(s.a) = 0
    BY <1>1, <1>9, <2>1
  <2>2. CASE ~(Load(s.a) < w \/ Load(s.a) = 0)
    BY <1>6, <1>8, <2>2
  <2> QED
    BY <2>1, <2>2
<1> QED
  BY <1>6, <1>8, <1>10 DEF Claimed, r

\* The phases up to the counts leave no more than the line, and make a node
\* claim what its counts allow.
LEMMA CountedLoad ==
  ASSUME NEW A, NEW ids, NEW node, Parameters(node), NEW args0 \in Seq(Words(A))
  PROVE  LET s == Counted(node, args0)
             w == Weight(args0)
         IN  /\ Light(w, s)
             /\ HasCounts(node) /\ 2 * w <= SizeMax /\ ~Ended(s) => Claimed(node, w, s)
<1> DEFINE w  == Weight(args0)
           s0 == Begin(args0)
           s1 == Split1(node, s0)
           s2 == Expand1(node, s1)
           s3 == Enable1(node, s2)
           s4 == Mark1(node, s3)
           s5 == Count1(node, s4)
<1>1. w \in Nat
  <2>1. args0 \in Seq(Toks(A))
    BY WordsAreTokens
  <2> QED
    BY <2>1, WeightBounds
<1>2. s0 \in States(A, ids) /\ s0.a = [p |-> <<>>, u |-> args0] /\ s0.act = "valid"
  BY DEF States, Adapters, Codes, Begin
<1>3. s0.a.p = <<>> /\ Load(s0.a) = w /\ FewClaimed(node, s0)
  <2>1. Load([p |-> <<>>, u |-> args0]) = 0 + w
    BY PartsLoad, WeightSmall
  <2>2. s0.a.p = <<>> /\ Load(s0.a) = w
    BY <1>1, <1>2, <2>1
  <2>3. Len(s0.a.p) = 0
    BY <2>2
  <2> QED
    BY <2>2, <2>3 DEF FewClaimed
<1>4. Light(w, s0)
  BY <1>1, <1>2, <1>3 DEF Light
<1>5. ASSUME NEW s \in States(A, ids), Light(w, s)
      PROVE  /\ Split1(node, s) \in States(A, ids) /\ Light(w, Split1(node, s))
             /\ Expand1(node, s) \in States(A, ids) /\ Light(w, Expand1(node, s))
             /\ Enable1(node, s) \in States(A, ids) /\ Light(w, Enable1(node, s))
             /\ Mark1(node, s) \in States(A, ids) /\ Light(w, Mark1(node, s))
             /\ Count1(node, s) \in States(A, ids)
  <2>1. /\ ValueSeparator(node, s) \in States(A, ids) /\ ShortFormExpander(node, s) \in States(A, ids)
        /\ RuntimeEnable(node, s) \in States(A, ids) /\ TokenEndMarker(node, s) \in States(A, ids)
        /\ MinMaxCount(node, s) \in States(A, ids)
    BY ValueSeparatorTyped, ShortFormExpanderTyped, RuntimeEnableTyped, TokenEndMarkerTyped,
       MinMaxCountTyped
  <2>2. /\ Lightens(s, ValueSeparator(node, s)) /\ Lightens(s, ShortFormExpander(node, s))
        /\ Lightens(s, TokenEndMarker(node, s))
    BY SplitLoad, ExpandLoad, MarkLoad
  <2>3. Lightens(s, RuntimeEnable(node, s))
    BY ActsLight DEF RuntimeEnable
  <2> HIDE DEF w
  <2>4. \A policy : \A t \in States(A, ids) :
          Lightens(s, t) => /\ After(s, policy, node, t) \in States(A, ids)
                            /\ Light(w, After(s, policy, node, t))
    BY <1>1, <1>5, StillLight, PhaseTyped
  <2>5. Count1(node, s) \in States(A, ids)
    BY <2>1, PhaseTyped DEF Count1
  <2> QED
    BY <2>1, <2>2, <2>3, <2>4, <2>5 DEF Split1, Expand1, Enable1, Mark1
<1>6. /\ s1 \in States(A, ids) /\ s2 \in States(A, ids) /\ s3 \in States(A, ids)
      /\ s4 \in States(A, ids) /\ s5 \in States(A, ids)
      /\ Light(w, s3) /\ Light(w, s4)
  <2> HIDE DEF w, s0
  <2> QED
    BY <1>2, <1>4, <1>5
<1>7. FewClaimed(node, s3)
  <2>1. FewClaimed(node, s1)
    BY <1>2, <1>3, FewStay
  <2> HIDE DEF s1
  <2>2. FewClaimed(node, s2)
    BY <1>6, <2>1, FewStay
  <2> HIDE DEF s2
  <2> QED
    BY <1>6, <2>2, FewStay
<1>8. s5 = Counted(node, args0)
  BY DEF Counted
<1> HIDE DEF w, s0, s1, s2, s3
<1>9. "token_end_marker" \notin node.policies => FewClaimed(node, s4)
  BY <1>7 DEF Mark1, After
<1>10. "token_end_marker" \in node.policies /\ ~Ended(s4) =>
         s4.a.p # <<>> \/ Load(s4.a) < w \/ Load(s4.a) = 0
  <2> DEFINE t == TokenEndMarker(node, s3)
  <2>1. t \in States(A, ids) /\ (t.a.p # <<>> \/ Load(t.a) < Load(s3.a) \/ Load(t.a) = 0)
    BY <1>6, TokenEndMarkerTyped, MarkLoad
  <2> HIDE DEF t
  <2>2. LeftBy(node, "token_end_marker", s3, t, s4)
    BY <1>6, <2>1, AfterLeaves DEF Mark1, t
  <2>3. Load(s3.a) \in Nat /\ Load(s3.a) <= w /\ Load(t.a) \in Nat
    BY <1>6, <2>1, ActsLight DEF Light
  <2> HIDE DEF s4
  <2>4. t.a.p # <<>> \/ Load(t.a) < w \/ Load(t.a) = 0
    BY <1>1, <2>1, <2>3
  <2> QED
    BY <2>2, <2>4 DEF LeftBy
<1> HIDE DEF s4
<1>11. Load(s4.a) \in Nat /\ Load(s4.a) <= w
  BY <1>6, ActsLight DEF Light
<1>12. Light(w, s5)
  <2> DEFINE t == MinMaxCount(node, s4)
  <2>1. t \in States(A, ids)
    BY <1>6, MinMaxCountTyped
  <2>2. Lightens(s4, t)
    <3>1. \/ t = Error(s4, "maximum_count_exceeded")
          \/ t = Error(s4, "minimum_count_not_reached")
          \/ \E it \in Int : t = Valid([s4 EXCEPT !.a = Transfer(s4.a, it)])
      BY <1>6, CountTransfers
    <3> HIDE DEF t
    <3>2. ASSUME NEW it \in Int, t = Valid([s4 EXCEPT !.a = Transfer(s4.a, it)])
          PROVE  Lightens(s4, t)
      <4> DEFINE b == Transfer(s4.a, it)
      <4>1. s4.a \in Adapters(A)
        BY <1>6, ActsLight
      <4>2. Load(b) = Load(s4.a)
        BY <4>1, TransferLoad
      <4>3. t = Valid([s4 EXCEPT !.a = b])
        BY <3>2
      <4> HIDE DEF b
      <4>4. Load(b) <= Load(s4.a)
        BY ONLY <1>11, <4>2
      <4> QED
        BY <1>6, <4>3, <4>4, ActsLight
    <3>3. \A code : Lightens(s4, Error(s4, code))
      BY <1>6, ActsLight
    <3> QED
      BY Zenon, <3>1, <3>2, <3>3
  <2> HIDE DEF t
  <2>3. Light(w, After(s4, "min_max_count", node, t))
    BY <1>1, <1>6, <2>1, <2>2, StillLight
  <2> QED
    BY <2>3 DEF Count1, t
<1>13. ASSUME HasCounts(node), 2 * w <= SizeMax, ~Ended(s5) PROVE Claimed(node, w, s5)
  BY <1>1, <1>6, <1>9, <1>10, <1>11, <1>13, CountClaims
<1> QED
  BY <1>8, <1>12, <1>13 DEF w

\* An alias that replaces targets has used up words, and its targets have as
\* many tokens as its count says; dependent leaves the words alone.
LEMMA FinalLoad ==
  ASSUME NEW A, NEW nodes, \A n \in nodes : n.children \in Seq(nodes),
         NEW children \in Seq(nodes), NEW node, Parameters(node), NEW done,
         NEW args0 \in Seq(Words(A)), ~Ended(Final(node, children, done, args0))
  PROVE  LET s  == Counted(node, args0)
             s7 == Final(node, children, done, args0)
         IN  /\ s7 \in States(A, Settable(node, children)) /\ Light(Weight(args0), s7)
             /\ ~Ended(s)
             /\ "alias" \notin node.policies => s7.a = s.a /\ s7.subs = <<>>
             /\ "alias" \in node.policies =>
                  /\ s7.act = "subs" /\ Ids(s7.subs) = node.alias \cap IdsOf(children)
                  /\ \A k \in DOMAIN s7.subs : Len(s7.subs[k].tokens) = node.max
<1> DEFINE ids == Settable(node, children)
           w   == Weight(args0)
           s   == Counted(node, args0)
           t6  == Alias(node, children, s)
           s6  == Alias1(node, children, s)
           t7  == Dependent(node, done, s6)
           s7  == Depend1(node, done, s6)
<1>1. s \in States(A, ids) /\ s.subs = <<>> /\ Light(w, s)
  BY CountedTyped, CountedLoad
<1>2. w \in Nat
  <2>1. args0 \in Seq(Toks(A))
    BY WordsAreTokens
  <2> QED
    BY <2>1, WeightBounds
<1>3. s7 = Final(node, children, done, args0)
  BY DEF Final
<1> HIDE DEF s, w
<1>4. t6 \in States(A, ids)
  BY <1>1, AliasTyped
<1>5. /\ Lightens(s, t6)
      /\ ~Ended(t6) => \A k \in DOMAIN t6.subs : Len(t6.subs[k].tokens) = node.max
  <2>1. Replaces(node, s, t6)
    BY <1>1, AliasLoad
  <2> HIDE DEF t6
  <2> QED
    BY <2>1 DEF Replaces
<1>6. ~Ended(t6) => t6.act = "subs" /\ Ids(t6.subs) = node.alias \cap IdsOf(children)
  BY <1>1, AliasSubs
<1> HIDE DEF ids, t6
<1>7. s6 \in States(A, ids) /\ Light(w, s6) /\ LeftBy(node, "alias", s, t6, s6)
  BY <1>1, <1>2, <1>4, <1>5, PhaseTyped, StillLight, AfterLeaves DEF Alias1, t6
<1> HIDE DEF s6
<1>8. t7 \in States(A, ids) /\ Lightens(s6, t7) /\ t7.a = s6.a /\ t7.subs = s6.subs
  <2>1. t7 \in States(A, ids)
    BY <1>7, DependentTyped
  <2>2. t7 \in {Valid(s6), Error(s6, "dependent_argument_missing")}
    BY DEF Dependent
  <2> HIDE DEF t7
  <2>3. Valid(s6).subs = s6.subs /\ \A code : Error(s6, code).subs = s6.subs
    BY <1>7 DEF Valid, Error, States
  <2>4. /\ Lightens(s6, Valid(s6)) /\ Valid(s6).a = s6.a
        /\ LET t == Error(s6, "dependent_argument_missing")
           IN  Lightens(s6, t) /\ t.a = s6.a
    BY <1>7, ActsLight
  <2> QED
    BY <2>1, <2>2, <2>3, <2>4
<1> HIDE DEF t7
<1>9. s7 \in States(A, ids) /\ Light(w, s7) /\ LeftBy(node, "dependent", s6, t7, s7)
  BY <1>2, <1>7, <1>8, PhaseTyped, StillLight, AfterLeaves DEF Depend1, t7
<1>10. ~Ended(s7)
  BY <1>3
<1> HIDE DEF s7
<1>11. ~Ended(s6) /\ ~Ended(s)
  BY <1>7, <1>9, <1>10 DEF LeftBy
<1>12. s7.a = s6.a /\ s7.subs = s6.subs /\ (s6.act = "subs" => s7.act = "subs")
  BY <1>8, <1>9, <1>10 DEF LeftBy
<1>13. "alias" \notin node.policies => s6 = s
  BY <1>7 DEF LeftBy
<1>14. "alias" \in node.policies => ~Ended(t6) /\ s6.subs = t6.subs /\ (t6.act = "subs" => s6.act = "subs")
  BY <1>7, <1>11 DEF LeftBy
<1> QED
  BY <1>1, <1>3, <1>5, <1>6, <1>9, <1>11, <1>12, <1>13, <1>14 DEF ids, s, w

\* The targets of a match of node hold as many tokens as its counts say, those
\* of an alias exactly as many as its own maximum.
InCounts(node, o) ==
  \A k \in DOMAIN o.targets :
    LET n == Len(o.targets[k].tokens)
    IN  IF "alias" \in node.policies THEN n = node.max ELSE n \in node.min .. node.max

\* An alias stands for some nodes of its mode.
StandsFor(node, children) ==
  "alias" \in node.policies => node.alias # {} /\ node.alias \subseteq IdsOf(children)

\* A match leaves no more of the line, less if the node has a count and the
\* line has words, and its targets hold as many tokens as the counts say.
MatchFits(node, children, args0, o) ==
  /\ Weight(o.args) <= Weight(args0)
  /\ StandsFor(node, children) =>
       /\ "alias" \in node.policies => InCounts(node, o)
       /\ HasCounts(node) /\ 2 * Weight(args0) <= SizeMax =>
            InCounts(node, o) /\ (args0 # <<>> => Weight(o.args) < Weight(args0))

LEMMA MatchUses ==
  ASSUME NEW A, NEW nodes, \A n \in nodes : n.children \in Seq(nodes),
         NEW children \in Seq(nodes), NEW node, Parameters(node), NEW done,
         NEW args0 \in Seq(Words(A)), NEW verdict, NEW o,
         o = PreParseLeaf(node, children, done, args0, verdict), o.kind = "match"
  PROVE  MatchFits(node, children, args0, o)
<1> DEFINE w  == Weight(args0)
           s  == Counted(node, args0)
           s7 == Final(node, children, done, args0)
           a  == WithLabelClaimed(node, s7)
<1>1. w \in Nat /\ (args0 # <<>> => w > 0)
  <2>1. args0 \in Seq(Toks(A)) /\ Len(args0) \in Nat
    BY WordsAreTokens
  <2>2. w \in Nat /\ w >= Len(args0)
    BY <2>1, WeightBounds
  <2>3. args0 # <<>> => Len(args0) > 0
    BY <2>1
  <2> HIDE DEF w
  <2> QED
    BY <2>1, <2>2, <2>3
<1>2. o = Settle(node, s7, verdict)
  BY LeafSettles
<1>3. /\ ~Ended(s7) /\ o.args = a.u
      /\ o.targets = IF s7.subs = <<>> THEN <<Target(node.id, OwnTokens(node, s7))>> ELSE s7.subs
  <2> HIDE DEF s7
  <2> QED
    BY <1>2, MatchSettles DEF Ended
<1>4. /\ s7 \in States(A, Settable(node, children)) /\ Light(w, s7) /\ ~Ended(s)
      /\ "alias" \notin node.policies => s7.a = s.a /\ s7.subs = <<>>
      /\ "alias" \in node.policies =>
           /\ s7.act = "subs" /\ Ids(s7.subs) = node.alias \cap IdsOf(children)
           /\ \A k \in DOMAIN s7.subs : Len(s7.subs[k].tokens) = node.max
  BY <1>3, FinalLoad
<1>5. HasCounts(node) /\ 2 * w <= SizeMax => Claimed(node, w, s)
  BY <1>4, CountedLoad
<1>6. s7.a \in Adapters(A) /\ Load(s7.a) \in Nat /\ Load(s7.a) <= w /\ (s7.act = "subs" => Load(s7.a) < w)
  BY <1>4, ActsLight DEF Light
<1>7. StandsFor(node, children) /\ "alias" \in node.policies => s7.subs # <<>>
  <2>1. Ids(<<>>) = {}
    BY DEF Ids
  <2>2. StandsFor(node, children) /\ "alias" \in node.policies =>
           node.alias \cap IdsOf(children) # {}
    BY DEF StandsFor
  <2> HIDE DEF s7
  <2> QED
    BY <1>4, <2>1, <2>2
<1> HIDE DEF w, s, s7
<1>8. a \in Adapters(A) /\ Load(a) = Load(s7.a) /\ (s7.a.p # <<>> => a = s7.a)
  <2>1. /\ Transfer(s7.a, 0) \in Adapters(A)
        /\ Load(Transfer(s7.a, 0)) = Load(s7.a)
    BY <1>6, TransferTyped, TransferLoad
  <2>2. a = s7.a \/ (s7.a.p = <<>> /\ a = Transfer(s7.a, 0))
    BY DEF WithLabelClaimed
  <2> HIDE DEF a
  <2> QED
    BY <1>6, <2>1, <2>2
<1> HIDE DEF a
<1>9. Weight(a.u) \in Nat /\ Weight(a.u) <= Load(a) /\ (a.p # <<>> => Weight(a.u) < Load(a))
  <2>1. /\ a.p \in Seq(Toks(A)) /\ Len(a.p) \in Nat /\ Weight(a.p) \in Nat /\ Weight(a.u) \in Nat
        /\ Weight(a.p) >= Len(a.p) /\ Load(a) = Weight(a.p) + Weight(a.u)
    BY <1>8, LoadTyped DEF Load
  <2>2. a.p # <<>> => Len(a.p) > 0
    BY <2>1
  <2> QED
    BY ONLY <2>1, <2>2
<1>10. Weight(o.args) <= w
  BY ONLY <1>1, <1>3, <1>6, <1>8, <1>9
<1>11. ASSUME HasCounts(node), 2 * w <= SizeMax, args0 # <<>> PROVE Weight(o.args) < w
  <2>1. CASE "alias" \in node.policies
    <3>1. Load(s7.a) < w
      BY <1>4, <1>6, <2>1
    <3> QED
      BY ONLY <1>1, <1>3, <1>6, <1>8, <1>9, <3>1
  <2>2. CASE "alias" \notin node.policies
    <3>1. s7.a.p # <<>> \/ Load(s7.a) < w
      BY <1>1, <1>4, <1>5, <1>11, <2>2 DEF Claimed
    <3>2. CASE s7.a.p # <<>>
      <4>1. Weight(a.u) < Load(a)
        BY <1>8, <1>9, <3>2
      <4> QED
        BY ONLY <1>1, <1>3, <1>6, <1>8, <1>9, <4>1
    <3>3. CASE Load(s7.a) < w
      BY ONLY <1>1, <1>3, <1>6, <1>8, <1>9, <3>3
    <3> QED
      BY <3>1, <3>2, <3>3
  <2> QED
    BY <2>1, <2>2
<1>12. ASSUME StandsFor(node, children), "alias" \in node.policies PROVE InCounts(node, o)
  <2>1. o.targets = s7.subs
    BY <1>3, <1>7, <1>12
  <2> QED
    BY <1>4, <1>12, <2>1 DEF InCounts
<1>13. ASSUME StandsFor(node, children), HasCounts(node), 2 * w <= SizeMax PROVE InCounts(node, o)
  <2>1. CASE "alias" \in node.policies
    BY <1>12, <1>13, <2>1
  <2>2. CASE "alias" \notin node.policies
    <3> DEFINE p == s7.a.p
               x == OwnTokens(node, s7)
    <3>1. o.targets = <<Target(node.id, x)>>
      BY <1>3, <1>4, <2>2
    <3>2. /\ Fewest(node) <= Len(p) /\ Len(p) <= Most(node)
      BY <1>4, <1>5, <1>13, <2>2 DEF Claimed
    <3>3. p \in Seq(Toks(A)) /\ Len(p) \in Nat /\ Len(p) <= Load(s7.a)
      <4>1. p \in Seq(Toks(A)) /\ Len(p) \in Nat /\ Len(s7.a.u) \in Nat
            /\ Size(s7.a) = Len(p) + Len(s7.a.u) /\ Size(s7.a) <= Load(s7.a)
        BY <1>6, LoadTyped
      <4> DEFINE m == Len(s7.a.u)
                 l == Len(p)
      <4>2. l \in Nat /\ m \in Nat /\ l + m <= Load(s7.a)
        BY <4>1
      <4> HIDE DEF m, l
      <4>3. l <= Load(s7.a)
        BY ONLY <1>6, <4>2
      <4> QED
        BY <4>1, <4>3 DEF l
    <3>4. 2 * Len(p) <= SizeMax
      <4> HIDE DEF p
      <4> QED
        BY ONLY <1>1, <1>6, <1>13, <3>3 DEF SizeMax
    <3>5. Counts(node) /\ Fewest(node) \in Nat /\ (IsNamed(node) => Fewest(node) >= 1)
      BY <1>13, LabelCounts DEF HasCounts
    <3> HIDE DEF p
    <3>6. Len(p) - NamedOffset(node) \in node.min .. node.max
      BY <3>2, <3>3, <3>4, <3>5, LabelCounts
    <3>7. IsNamed(node) => p # <<>>
      BY <3>2, <3>3, <3>5
    <3>8. x = IF IsNamed(node) THEN Tail(p) ELSE p
      BY <3>7 DEF OwnTokens, WithLabelClaimed, p
    <3> HIDE DEF x
    <3>9. Len(x) = Len(p) - NamedOffset(node)
      BY <3>3, <3>7, <3>8 DEF NamedOffset
    <3>10. Len(x) \in node.min .. node.max
      BY <3>6, <3>9
    <3>11. DOMAIN o.targets = {1} /\ o.targets[1].tokens = x
      BY <3>1 DEF Target
    <3> QED
      BY <2>2, <3>10, <3>11 DEF InCounts
  <2> QED
    BY <2>1, <2>2
<1> QED
  BY <1>10, <1>11, <1>12, <1>13 DEF w, MatchFits
-----------------------------------------------------------------------------
\* The calls

\* The line is short enough for an iterator's offset.
LineFits == 2 * Weight(args) <= SizeMax

\* No step of a call makes the line longer.
LEMMA LineShrinks ==
  ASSUME NEW nodes, NEW A, TreesOf(nodes, A), Typing(nodes, A), Step
  PROVE  Weight(args') <= Weight(args)
<1>1. /\ Children \in Seq(nodes) /\ \A n \in nodes : n.children \in Seq(nodes) /\ Parameters(n)
      /\ i <= Len(Children) => Child \in nodes
      /\ args \in Seq(Words(A)) /\ args \in Seq(Toks(A))
  BY ChildrenTyped, WordsAreTokens DEF TreesOf, Parameters, Typing
<1>2. Weight(args) \in Nat
  BY <1>1, WeightBounds
<1>3. UNCHANGED args => Weight(args') <= Weight(args)
  BY <1>2
<1>4. \A code : Fail(code) => UNCHANGED args
  BY DEF Fail
<1>5. NextChild => UNCHANGED args
  BY DEF NextChild
<1>6. ASSUME NEW children \in Seq(nodes), NEW node \in nodes, NEW done, NEW verdict, NEW o,
             o = PreParseLeaf(node, children, done, args, verdict), o.kind = "match"
      PROVE  Weight(o.args) <= Weight(args)
  <2>1. MatchFits(node, children, args, o)
    BY <1>1, <1>6, MatchUses
  <2> QED
    BY <2>1 DEF MatchFits
<1>7. CASE RootLeaf
  <2>1. PICK o : /\ i <= Len(Children) /\ o = PreParseLeaf(Child, Children, {}, args, "accept")
                 /\ \/ NextChild
                    \/ \E code : Fail(code)
                    \/ o.kind = "match" /\ args' = o.args
    BY <1>7 DEF RootLeaf
  <2> QED
    BY <1>1, <1>3, <1>4, <1>5, <1>6, <2>1
<1>8. CASE RootMode \/ SubMode
  <2>1. <<>> \in Seq(nodes) /\ i <= Len(Children)
    BY <1>8 DEF RootMode, SubMode
  <2>2. \/ NextChild
        \/ UNCHANGED args
        \/ \E o : /\ o = PreParseLeaf(Child, <<>>, {}, args, "accept")
                  /\ o.kind = "match" /\ args' = o.args
    BY <1>8 DEF RootMode, SubMode, Enter
  <2> QED
    BY <1>1, <1>3, <1>5, <1>6, <2>1, <2>2
<1>9. CASE TryChild
  <2>1. i <= Len(Children)
    BY <1>9 DEF TryChild
  <2>2. CASE Child.kind = "mode"
    BY <1>3, <1>5, <1>9, <2>2 DEF TryChild
  <2>3. CASE Child.kind # "mode"
    <3>1. PICK r : /\ r = PreParse(Child, Children, Done, args, Selected(Child.id), i \in matched)
                   /\ \/ NextChild
                      \/ Fail(r.o.code)
                      \/ r.o.kind = "match" /\ args' = r.o.args
      BY <1>9, <2>3 DEF TryChild, Taken
    <3>2. CASE r.o.kind = "match" /\ args' = r.o.args
      <4>1. Child.children \in Seq(nodes)
        BY <1>1, <2>1
      <4>2. PICK n \in Leaves(Child) :
              \E verdict : r.o = PreParseLeaf(n, Children, Done, args, verdict)
        BY <3>1, <3>2, <4>1, PreParseTries
      <4>3. n \in nodes
        BY <1>1, <2>1, <4>1 DEF Leaves, ToSet
      <4> QED
        BY <1>1, <1>6, <3>2, <4>2, <4>3
    <3> QED
      BY <1>3, <1>4, <1>5, <3>1, <3>2
  <2> QED
    BY <2>2, <2>3
<1>10. CASE RootUnknown \/ NoChild
  BY <1>3, <1>4, <1>10 DEF RootUnknown, NoChild
<1>11. CASE NoSubMode \/ LoopEnd \/ RunEnd \/ MissingEnd
  BY <1>3, <1>11 DEF NoSubMode, LoopEnd, RunEnd, MissingEnd
<1>12. CASE RunTarget
  BY <1>3, <1>4, <1>12 DEF RunTarget
<1>13. CASE Missing \/ StageValidation
  BY <1>3, <1>4, <1>5, <1>13 DEF Missing, StageValidation
<1>14. CASE Route \/ RouteLeaf
  BY <1>3, <1>4, <1>14 DEF Route, RouteLeaf, Finish
<1> QED
  BY <1>7, <1>8, <1>9, <1>10, <1>11, <1>12, <1>13, <1>14 DEF Step

LEMMA LineFitsStep ==
  ASSUME NEW nodes, NEW A, TreesOf(nodes, A), ShortLines
  PROVE  Typing(nodes, A) /\ LineFits /\ [Next]_vars => LineFits'
<1> SUFFICES ASSUME Typing(nodes, A), LineFits, [Next]_vars PROVE LineFits'
  OBVIOUS
<1>1. CASE Step
  <2>1. Weight(args') <= Weight(args)
    BY <1>1, LineShrinks
  <2>2. Weight(args) \in Nat
    BY WordsAreTokens, WeightBounds DEF Typing
  <2>3. Weight(args') \in Nat
    <3>1. args' \in Seq(Words(A))
      BY TypingStep DEF Typing
    <3>2. args' \in Seq(Toks(A))
      BY <3>1, WordsAreTokens
    <3> QED
      BY <3>2, WeightBounds
  <2> QED
    BY <2>1, <2>2, <2>3 DEF LineFits, SizeMax
<1>2. ASSUME NEW words \in Lines(tree.words), Call(words) PROVE LineFits'
  <2>1. args' = [k \in DOMAIN words |-> Raw(words[k])] /\ tree \in Trees
    BY <1>2 DEF Call, Typing
  <2> QED
    BY <2>1 DEF ShortLines, LineFits
<1>3. CASE UNCHANGED vars
  BY <1>3 DEF vars, LineFits
<1> QED
  BY <1>1, <1>2, <1>3 DEF Next

LEMMA LineFitsHolds ==
  ASSUME NEW nodes, NEW A, TreesOf(nodes, A), ShortLines
  PROVE  Spec => []LineFits
<1>1. Init => LineFits
  <2>1. Init => args = <<>>
    BY DEF Init
  <2> QED
    BY <2>1, WeightSmall DEF LineFits, SizeMax
<1> QED
  BY <1>1, LineFitsStep, TypingHolds, PTL DEF Spec

\* The premises of the two theorems
CountedTrees(nodes, A) ==
  GroupRules(nodes, A) /\ CountRules(nodes) /\ AliasCounts(nodes) /\ ShortLines

LEMMA CountsOf ==
  ASSUME NEW nodes, NEW A, CountedTrees(nodes, A), Typing(nodes, A), NEW n \in ToSet(Nodes(Children))
  PROVE  /\ n \in nodes /\ Parameters(n) /\ StandsFor(n, Children)
         /\ "min_max_count" \in n.policies => HasCounts(n)
<1>1. ToSet(Nodes(Children)) \subseteq nodes /\ TreesOf(nodes, A)
  BY ChildrenTyped, ChildAmongNodes DEF TreesOf, CountedTrees, GroupRules
<1>2. n \in nodes /\ Parameters(n)
  BY <1>1 DEF Parameters, TreesOf
<1>3. StandsFor(n, Children)
  BY <1>2, ChildrenAreSiblings DEF StandsFor, CountedTrees, GroupRules, AliasesExist, AliasCounts, IdsOf
<1>4. "min_max_count" \in n.policies => HasCounts(n)
  BY <1>2 DEF HasCounts, Counts, CountedTrees, CountRules
<1> QED
  BY <1>2, <1>3, <1>4

LEMMA RoundStep ==
  ASSUME NEW nodes, NEW A, CountedTrees(nodes, A), Typing(nodes, A), LineFits, Next,
         phase = "loop", phase' = "loop", i' = 1
  PROVE  Weight(args') < Weight(args)
<1>1. TryChild
  <2>1. ~Fail("unhandled_arguments") /\ ~Fail("unknown_argument")
    BY DEF Fail
  <2> QED
    BY <2>1 DEF Next, Step, Call, RootLeaf, RootMode, RootUnknown, SubMode, NoSubMode, NoChild, LoopEnd,
             RunTarget, RunEnd, Missing, MissingEnd, StageValidation, Route, RouteLeaf
<1>2. /\ args # <<>> /\ i \in DOMAIN Children /\ Child = Children[i] /\ Children \in Seq(nodes)
      /\ args \in Seq(Words(A)) /\ i \in Nat \ {0} /\ \A n \in nodes : n.children \in Seq(nodes)
  <2>1. TreesOf(nodes, A) /\ \A n \in nodes : n.children \in Seq(nodes)
    BY DEF CountedTrees, GroupRules, TreesOf
  <2>2. Children \in Seq(nodes)
    BY <2>1, ChildrenTyped
  <2>3. args # <<>> /\ i <= Len(Children)
    BY <1>1 DEF TryChild
  <2>4. args \in Seq(Words(A)) /\ i \in Nat \ {0}
    BY DEF Typing
  <2> QED
    BY <2>1, <2>2, <2>3, <2>4 DEF Child
<1>3. ~NextChild
  BY <1>2 DEF NextChild
<1>4. \A code : ~Fail(code)
  BY DEF Fail
<1>5. Child.kind # "mode"
  BY <1>1, <1>3 DEF TryChild
<1>6. PICK r : /\ r = PreParse(Child, Children, Done, args, Selected(Child.id), i \in matched)
               /\ r.o.kind = "match" /\ args' = r.o.args
  BY <1>1, <1>3, <1>4, <1>5 DEF TryChild, Taken
<1>7. Child.children \in Seq(nodes)
  BY <1>2
<1>8. PICK n \in Leaves(Child) :
        \E verdict : r.o = PreParseLeaf(n, Children, Done, args, verdict)
  BY <1>6, <1>7, PreParseTries
<1>9. n \in ToSet(Nodes(Children)) /\ n.kind \in {"leaf", "flag"}
  BY <1>2, <1>5, LeavesTyped DEF CountedTrees
<1>10. Parameters(n) /\ StandsFor(n, Children) /\ HasCounts(n)
  BY <1>9, CountsOf DEF CountedTrees, CountRules
<1>11. MatchFits(n, Children, args, r.o)
  BY <1>2, <1>6, <1>8, <1>10, MatchUses
<1> QED
  BY <1>2, <1>6, <1>10, <1>11 DEF MatchFits, LineFits

\* A round of the mode's loop that ends in a match leaves less of the command
\* line (mode.hpp:285-335), although a collapsed word becomes several tokens
\* (short_form_expander.hpp) and an alias several targets: so the loop ends, for
\* every tree and every command line.  Every leaf must have a count
\* (min_max_count.hpp:34-40).
THEOREM LoopConsumes ==
  ASSUME NEW nodes, NEW A, CountedTrees(nodes, A)
  PROVE  Spec => RoundsConsume
<1>1. TreesOf(nodes, A) /\ ShortLines
  BY DEF CountedTrees, GroupRules
<1>2. Typing(nodes, A) /\ LineFits /\ [Next]_vars =>
        [phase = "loop" /\ matched' # {} /\ i' = 1 /\ phase' = "loop" => Weight(args') < Weight(args)]_vars
  BY RoundStep
<1> QED
  BY <1>1, <1>2, TypingHolds, LineFitsHolds, PTL DEF Spec, RoundsConsume

\* What a match adds is within the counts of the nodes whose targets it adds.
LEMMA MatchInCounts ==
  ASSUME NEW nodes, NEW A, CountedTrees(nodes, A), Typing(nodes, A), LineFits,
         NEW m \in ToSet(Nodes(Children)), NEW verdict, NEW o, MatchAdds(A, m, verdict, o),
         NEW j \in DOMAIN o.targets, NEW node, node = NodeOf(o.targets[j].node),
         "min_max_count" \in node.policies
  PROVE  LET n == Len(o.targets[j].tokens)
         IN  n >= node.min /\ (node.max = Unbounded \/ n <= node.max)
<1> DEFINE n == Len(o.targets[j].tokens)
<1>1. /\ Children \in Seq(nodes) /\ \A x \in nodes : x.children \in Seq(nodes)
      /\ args \in Seq(Words(A))
      /\ \A a, b \in ToSet(Nodes(Children)) : a.id = b.id => a = b
  BY ChildrenTyped, ChildrenAreSiblings DEF Typing, CountedTrees, GroupRules, TreesOf, DistinctIds
<1>2. m \in nodes /\ Parameters(m) /\ StandsFor(m, Children)
  BY CountsOf
<1>3. o = PreParseLeaf(m, Children, Done, args, verdict) /\ o.kind = "match"
  BY DEF MatchAdds
<1>4. MatchFits(m, Children, args, o) /\ MatchOf(m, Done, verdict, o)
  BY <1>1, <1>2, <1>3, MatchUses, MatchFacts DEF StandsFor
<1>5. \A x \in ToSet(Nodes(Children)) : NodeOf(x.id) = x
  BY <1>1 DEF NodeOf
<1>6. CASE "alias" \notin m.policies
  <2>1. PICK values : o.targets = <<Target(m.id, values)>>
    BY <1>4, <1>6 DEF MatchOf
  <2>2. j = 1 /\ o.targets[j].node = m.id
    BY <2>1 DEF Target
  <2>3. node = m
    BY <1>5, <2>2
  <2>4. InCounts(m, o)
    BY <1>2, <1>4, <2>3, CountsOf DEF MatchFits, LineFits
  <2>5. n \in m.min .. m.max /\ m.min \in Nat /\ m.max \in Nat
    BY <1>2, <1>6, <2>4 DEF InCounts, Parameters
  <2> QED
    BY <2>3, <2>5
<1>7. CASE "alias" \in m.policies
  <2>1. Ids(o.targets) = m.alias /\ m.alias \subseteq IdsOf(Children)
    BY <1>2, <1>4, <1>7 DEF MatchOf, StandsFor
  <2>2. o.targets[j].node \in m.alias
    BY <2>1 DEF Ids
  <2>3. PICK x \in ToSet(Nodes(Children)) : x.id = o.targets[j].node
    BY <2>1, <2>2 DEF IdsOf
  <2>4. node = x /\ x.id \in m.alias
    BY <1>5, <2>2, <2>3
  <2>5. x.min = m.max /\ x.max = m.max
    BY <1>7, <2>4, ChildrenAreSiblings DEF CountedTrees, AliasCounts
  <2>6. n = m.max /\ m.max \in Nat
    BY <1>2, <1>4, <1>7 DEF MatchFits, InCounts, Parameters
  <2> QED
    BY <2>4, <2>5, <2>6
<1> QED
  BY <1>6, <1>7

LEMMA CountsStep ==
  ASSUME NEW nodes, NEW A, CountedTrees(nodes, A)
  PROVE  Typing(nodes, A) /\ LineFits /\ CountsWithin /\ [Next]_vars => CountsWithin'
<1> SUFFICES ASSUME Typing(nodes, A), LineFits, CountsWithin, [Next]_vars PROVE CountsWithin'
  OBVIOUS
<1>1. UNCHANGED <<tree, path>> => \A id : NodeOf(id)' = NodeOf(id)
  <2>1. UNCHANGED <<tree, path>> => Children' = Children
    BY DEF Children, Mode
  <2> QED
    BY <2>1 DEF NodeOf
<1>2. CASE targets' = <<>>
  BY <1>2 DEF CountsWithin
<1>3. CASE UNCHANGED <<tree, path, targets>>
  BY <1>1, <1>3 DEF CountsWithin
<1>4. ASSUME UNCHANGED <<tree, path>>, NEW m \in ToSet(Nodes(Children)), NEW verdict, NEW o,
             MatchAdds(A, m, verdict, o)
      PROVE  CountsWithin'
  <2> DEFINE Within(t) == LET node == NodeOf(t.node)
                              n    == Len(t.tokens)
                          IN  "min_max_count" \in node.policies =>
                                n >= node.min /\ (node.max = Unbounded \/ n <= node.max)
  <2>1. \A j \in DOMAIN o.targets : Within(o.targets[j])
    BY <1>4, MatchInCounts
  <2>2. \A k \in DOMAIN targets : Within(targets[k])
    BY DEF CountsWithin
  <2>3. \A k \in DOMAIN targets' : Within(targets'[k])
    BY <1>4, <2>1, <2>2 DEF MatchAdds
  <2> QED
    BY <1>1, <1>4, <2>3 DEF CountsWithin
<1>5. TreesOf(nodes, A)
  BY DEF CountedTrees, GroupRules
<1> QED
  BY <1>2, <1>3, <1>4, <1>5, TargetsGrow

\* Every target, also one that an alias made, holds at least as many values as
\* its node's minimum and at most as many as its maximum
\* (min_max_count.hpp:66-150, alias.hpp:163-179), for every tree whose counts
\* keep the rules and every command line that an iterator's offset can span.
THEOREM CountsHold ==
  ASSUME NEW nodes, NEW A, CountedTrees(nodes, A)
  PROVE  Spec => []CountsWithin
<1>1. Init => CountsWithin
  <2>1. Init => targets = <<>>
    BY DEF Init
  <2>2. targets = <<>> => CountsWithin
    BY DEF CountsWithin
  <2> QED
    BY <2>1, <2>2
<1>2. TreesOf(nodes, A) /\ ShortLines
  BY DEF CountedTrees, GroupRules
<1> QED
  BY <1>1, <1>2, CountsStep, TypingHolds, LineFitsHolds, PTL DEF Spec
-----------------------------------------------------------------------------
\* Token end markers

\* The place of the node's marker among some tokens, 0 if it is not there
MarkerAt(node, q) ==
  SelectInSubSeq(q, NamedOffset(node) + 1, Len(q), LAMBDA t : t.name = <<node.marker>>)

LEMMA MarkerPlace ==
  ASSUME NEW T, NEW node, NEW q \in Seq(T)
  PROVE  MarkerAt(node, q) = 0 \/ MarkerAt(node, q) \in NamedOffset(node) + 1 .. Len(q)
<1> DEFINE at == MarkerAt(node, q)
           I  == {k \in NamedOffset(node) + 1 .. Len(q) : q[k].name = <<node.marker>>}
<1>1. at = IF I # {} THEN Min(I) ELSE 0
  BY DEF MarkerAt, SelectInSubSeq
<1>2. I \in SUBSET Nat
  BY DEF NamedOffset
<1>3. I # {} => Min(I) \in I
  BY <1>2, MinIn
<1>4. I \subseteq NamedOffset(node) + 1 .. Len(q)
  OBVIOUS
<1> HIDE DEF I, at
<1> QED
  BY <1>1, <1>3, <1>4 DEF at

\* The marker's phase claims what is in front of the marker, and drops it.
UpToMarker(node, q) ==
  [p |-> SubSeq(q, 1, MarkerAt(node, q) - 1), u |-> SubSeq(q, MarkerAt(node, q) + 1, Len(q))]

LEMMA MarkClaims ==
  ASSUME NEW A, NEW ids, NEW node, NEW s \in States(A, ids), NEW q \in Seq(Words(A)),
         s.a = [p |-> <<>>, u |-> q], MarkerAt(node, q) > 0
  PROVE  TokenEndMarker(node, s).a = UpToMarker(node, q)
<1> DEFINE at == MarkerAt(node, q)
           b  == [p |-> SubSeq(q, 1, at), u |-> SubSeq(q, at + 1, Len(q))]
<1>1. /\ Len(q) \in Nat /\ q \in Seq(Toks(A))
      /\ at \in Nat /\ at \in 1 .. Len(q)
  <2>1. at \in NamedOffset(node) + 1 .. Len(q)
    BY MarkerPlace
  <2> HIDE DEF at
  <2> QED
    BY <2>1, WordsAreTokens DEF NamedOffset
<1>2. Tokens(s.a) = q /\ Size(s.a) = Len(q)
  <2>1. <<>> \o q = q /\ Len(<<>>) = 0
    OBVIOUS
  <2> QED
    BY <1>1, <2>1 DEF Tokens, Size
<1>3. TokenEndMarker(node, s) = Valid([s EXCEPT !.a = Erase(Transfer(s.a, at - 1), at - 1)])
  BY <1>1, <1>2 DEF TokenEndMarker, MarkerAt
<1>4. TokenEndMarker(node, s).a = Erase(Transfer(s.a, at - 1), at - 1)
  <2> DEFINE c == Erase(Transfer(s.a, at - 1), at - 1)
  <2>1. TokenEndMarker(node, s) = Valid([s EXCEPT !.a = c])
    BY <1>3
  <2> HIDE DEF c
  <2>2. TokenEndMarker(node, s).a = c
    BY <2>1, ActsLight
  <2> QED
    BY <2>2 DEF c
<1> HIDE DEF at
<1>5. Transfer(s.a, at - 1) = b
  <2>1. Moved(<<>>, q, at - 1) = at
    BY <1>1 DEF Moved
  <2>2. <<>> \in Seq(Toks(A)) /\ at - 1 \in Int
    BY <1>1
  <2>3. Transfer([p |-> <<>>, u |-> q], at - 1)
          = [p |-> <<>> \o SubSeq(q, 1, at), u |-> SubSeq(q, at + 1, Len(q))]
    BY <2>1, <2>2, TransferMoves
  <2>4. <<>> \o SubSeq(q, 1, at) = SubSeq(q, 1, at)
    BY <1>1, SubSeqFacts
  <2> QED
    BY <2>3, <2>4
<1>6. /\ SubSeq(q, 1, at) \in Seq(Words(A)) /\ Len(SubSeq(q, 1, at)) = at
      /\ SubSeq(q, at + 1, Len(q)) \in Seq(Words(A))
      /\ Len(SubSeq(q, at + 1, Len(q))) = Len(q) - at
      /\ \A k \in 1 .. at : SubSeq(q, 1, at)[k] = q[k]
  BY <1>1, SubSeqFacts
<1>7. Erase(b, at - 1) = [p |-> Cut(SubSeq(q, 1, at), at - 1, 1), u |-> SubSeq(q, at + 1, Len(q))]
  <2>1. b.p = SubSeq(q, 1, at) /\ b.u = SubSeq(q, at + 1, Len(q))
    OBVIOUS
  <2>2. Size(b) = Len(q)
    BY <1>1, <1>6, <2>1 DEF Size
  <2>3. at - 1 # End /\ ~(at - 1 >= Len(q)) /\ at - 1 < at
    BY <1>1, EndAssumption
  <2> QED
    BY <1>6, <2>1, <2>2, <2>3 DEF Erase, IsEnd
<1>8. Cut(SubSeq(q, 1, at), at - 1, 1) = SubSeq(q, 1, at - 1)
  <2> DEFINE x == SubSeq(q, 1, at)
  <2>1. /\ x \in Seq(Words(A)) /\ Len(x) = at /\ \A k \in 1 .. at : x[k] = q[k]
    BY <1>6
  <2>2. Cut(x, at - 1, 1) \in Seq(Words(A)) /\ Len(Cut(x, at - 1, 1)) = at - 1
        /\ \A k \in 1 .. at - 1 : Cut(x, at - 1, 1)[k] = x[k]
    <3> HIDE DEF x
    <3>1. at - 1 \in Nat /\ 1 \in Nat /\ (at - 1) + 1 <= Len(x)
      BY <1>1, <2>1
    <3>2. Cut(x, at - 1, 1) \in Seq(Words(A)) /\ Len(Cut(x, at - 1, 1)) = Len(x) - 1
      BY ONLY <2>1, <3>1, CutType
    <3>3. \A k \in 1 .. Len(x) - 1 :
            Cut(x, at - 1, 1)[k] = IF k <= at - 1 THEN x[k] ELSE x[k + 1]
      BY ONLY <2>1, <3>1, CutFacts
    <3> QED
      BY ONLY <2>1, <3>1, <3>2, <3>3
  <2> HIDE DEF x
  <2> DEFINE y == Cut(x, at - 1, 1)
             z == SubSeq(q, 1, at - 1)
  <2>3. z \in Seq(Words(A)) /\ Len(z) = at - 1 /\ \A k \in 1 .. at - 1 : z[k] = q[k]
    BY <1>1, SubSeqFacts
  <2> HIDE DEF y, z
  <2>4. y \in Seq(Words(A)) /\ Len(y) = at - 1 /\ \A k \in 1 .. at - 1 : y[k] = q[k]
    BY <1>1, <2>1, <2>2 DEF y
  <2>5. y = z
    BY ONLY <1>1, <2>3, <2>4
  <2> QED
    BY <2>5 DEF x, y, z
<1> QED
  BY <1>4, <1>5, <1>7, <1>8 DEF UpToMarker, at

\* The counts of a list leave what the marker's phase has claimed as it is.
ListCounts(node) ==
  /\ Parameters(node) /\ node.max <= SizeMax
  /\ IsNamed(node) \/ node.min > 0 \/ node.max = Unbounded

LEMMA CountKeeps ==
  ASSUME NEW A, NEW ids, NEW node, ListCounts(node), "token_end_marker" \in node.policies,
         NEW s \in States(A, ids), 2 * Len(s.a.p) <= SizeMax, IsNamed(node) => s.a.p # <<>>,
         ~Ended(MinMaxCount(node, s))
  PROVE  MinMaxCount(node, s).a = s.a
<1> DEFINE l  == Len(s.a.p)
           m  == Len(s.a.u)
           mn == Fewest(node)
           mx == Most(node)
           it == AsOffset(Smaller(MinusOne(mx), MinusOne(l)))
           t  == MinMaxCount(node, s)
<1>1. /\ s.a \in Adapters(A) /\ l \in Nat /\ m \in Nat /\ Size(s.a) = l + m
      /\ 2 * l <= 255 /\ (IsNamed(node) => l > 0)
  <2>1. s.a \in Adapters(A) /\ s.a.p \in Seq(Toks(A)) /\ l \in Nat /\ m \in Nat /\ Size(s.a) = l + m
    BY ActsLight, LoadTyped
  <2>2. s.a.p # <<>> => l > 0
    BY <2>1
  <2> QED
    BY <2>1, <2>2 DEF SizeMax
<1>2. t = CASE l > mx -> Error(s, "maximum_count_exceeded")
            [] ~(l > mx) /\ l < mn -> Error(s, "minimum_count_not_reached")
            [] OTHER -> Valid([s EXCEPT !.a = Transfer(s.a, it)])
  BY DEF MinMaxCount, Most, Fewest
<1>3. \A code : Ended(Error(s, code))
  BY DEF Ended, Error, States
<1> HIDE DEF t
<1>4. ~(l > mx) /\ ~(l < mn) /\ t = Valid([s EXCEPT !.a = Transfer(s.a, it)])
  BY <1>2, <1>3 DEF t
<1>5. /\ mx \in Nat /\ mx <= 255 /\ mn \in Nat
      /\ l = 0 => mn > 0 \/ mx = 255
  <2> DEFINE lo    == node.min
             hi    == node.max
             named == IsNamed(node)
  <2>1. /\ mn = IF lo = 255 THEN lo ELSE lo + NamedOffset(node)
        /\ mx = IF hi = 255 THEN hi ELSE hi + NamedOffset(node)
        /\ NamedOffset(node) = IF named THEN 1 ELSE 0
    BY DEF Most, Fewest, WithLabel, SizeMax, NamedOffset
  <2>2. /\ lo \in Nat /\ hi \in Nat /\ hi <= 255
        /\ named \/ lo > 0 \/ hi = 255
    BY DEF ListCounts, Parameters, SizeMax, Unbounded
  <2>3. named => l > 0
    BY <1>1
  <2> HIDE DEF lo, hi, named, l, mn, mx
  <2> QED
    BY ONLY <1>1, <2>1, <2>2, <2>3
<1> HIDE DEF l, m, mn, mx
<1>6. it \in Int /\ it < l /\ it < l + m
  <2>0. ASSUME NEW n \in Nat, n <= 255
        PROVE  MinusOne(n) = IF n = 0 THEN 255 ELSE n - 1
    <3>1. MinusOne(n) = (n - 1) % 256
      BY DEF MinusOne, SizeMax
    <3> QED
      BY ONLY <2>0, <3>1
  <2>1. CASE l = 0
    <3>1. mx = 255
      BY ONLY <1>1, <1>4, <1>5, <2>1
    <3>2. MinusOne(mx) = 254 /\ MinusOne(l) = 255
      BY ONLY <1>1, <1>5, <2>0, <2>1, <3>1
    <3>3. it = -2
      BY <3>2 DEF Smaller, AsOffset, SizeMax
    <3> QED
      BY ONLY <1>1, <2>1, <3>3
  <2>2. CASE l # 0
    <3>1. l > 0 /\ mx > 0 /\ l <= 255 /\ l <= mx
      BY ONLY <1>1, <1>4, <1>5, <2>2
    <3>2. MinusOne(mx) = mx - 1 /\ MinusOne(l) = l - 1
      BY ONLY <1>1, <1>5, <2>0, <3>1
    <3>3. Smaller(MinusOne(mx), MinusOne(l)) = l - 1
      BY ONLY <1>1, <1>5, <3>1, <3>2 DEF Smaller
    <3>4. it = l - 1
      BY ONLY <1>1, <3>1, <3>3 DEF it, AsOffset, SizeMax
    <3> QED
      BY ONLY <1>1, <3>1, <3>4
  <2> QED
    BY <2>1, <2>2
<1> HIDE DEF it
<1>7. Transfer(s.a, it) = s.a
  <2>1. it # End /\ ~(it >= Size(s.a)) /\ it < Len(s.a.p)
    BY <1>1, <1>6, EndAssumption DEF l
  <2> QED
    BY <2>1 DEF Transfer, IsEnd
<1>8. t = Valid([s EXCEPT !.a = s.a])
  BY <1>4, <1>7
<1>9. t.a = s.a
  BY <1>8, ActsLight
<1> QED
  BY <1>9 DEF t

\* A list that a marker may end: no other phase edits the tokens before or
\* after it.
MarkedList(node) ==
  /\ ListCounts(node) /\ "token_end_marker" \in node.policies
  /\ node.policies \cap {"value_separator", "short_form_expander", "alias"} = {}

LEMMA ListMatch ==
  ASSUME NEW A, NEW nodes, \A n \in nodes : n.children \in Seq(nodes),
         NEW children \in Seq(nodes), NEW node, MarkedList(node), NEW done,
         NEW args0 \in Seq(Words(A)), 2 * Weight(args0) <= SizeMax, MarkerAt(node, args0) > 0,
         NEW verdict, NEW o,
         o = PreParseLeaf(node, children, done, args0, verdict), o.kind = "match"
  PROVE  o.targets = <<Target(node.id, SubSeq(args0, NamedOffset(node) + 1, MarkerAt(node, args0) - 1))>>
<1> DEFINE at  == MarkerAt(node, args0)
           ids == Settable(node, children)
           s0  == Begin(args0)
           s3  == Enable1(node, s0)
           s4  == Mark1(node, s3)
           s5  == Count1(node, s4)
           s7  == Final(node, children, done, args0)
<1>1. Parameters(node)
  BY DEF MarkedList, ListCounts
<1>2. s0 \in States(A, ids) /\ s0.a = [p |-> <<>>, u |-> args0]
  BY DEF States, Adapters, Codes, Begin
<1>3. Counted(node, args0) = s5
  <2>1. Split1(node, s0) = s0 /\ Expand1(node, s0) = s0
    BY DEF Split1, Expand1, After, MarkedList
  <2> HIDE DEF s0
  <2> QED
    BY <2>1 DEF Counted, s0
<1>4. o = Settle(node, s7, verdict)
  BY LeafSettles
<1>5. ~Ended(s7) /\ o.targets = IF s7.subs = <<>> THEN <<Target(node.id, OwnTokens(node, s7))>> ELSE s7.subs
  <2> HIDE DEF s7
  <2> QED
    BY <1>4, MatchSettles DEF Ended
<1>6. ~Ended(s5) /\ s7.a = s5.a /\ s7.subs = <<>>
  BY <1>1, <1>3, <1>5, FinalLoad DEF MarkedList
<1> HIDE DEF s0, ids
<1>7. s3 \in States(A, ids) /\ (~Ended(s3) => s3.a = s0.a)
  <2> DEFINE t == RuntimeEnable(node, s0)
  <2>0. t \in States(A, ids)
    BY <1>2, RuntimeEnableTyped
  <2>1. t \in States(A, ids) /\ t.a = s0.a
    <3>1. t \in {Valid(s0), SkipNode(s0)}
      BY DEF RuntimeEnable
    <3> HIDE DEF t
    <3>2. Valid(s0).a = s0.a /\ SkipNode(s0).a = s0.a
      BY <1>2 DEF Valid, SkipNode, States
    <3> QED
      BY <2>0, <3>1, <3>2
  <2> HIDE DEF t
  <2>2. LeftBy(node, "runtime_enable", s0, t, s3)
    BY <1>2, <2>1, AfterLeaves DEF Enable1, t
  <2>3. s3 \in States(A, ids)
    BY <1>2, <2>1, PhaseTyped DEF Enable1, t
  <2> QED
    BY <2>1, <2>2, <2>3 DEF LeftBy
<1> HIDE DEF s3
<1>8. s4 \in States(A, ids) /\ (~Ended(s4) => ~Ended(s3) /\ s4.a = TokenEndMarker(node, s3).a)
  <2> DEFINE t == TokenEndMarker(node, s3)
  <2>1. t \in States(A, ids)
    BY <1>7, TokenEndMarkerTyped
  <2> HIDE DEF t
  <2>2. LeftBy(node, "token_end_marker", s3, t, s4)
    BY <1>7, <2>1, AfterLeaves DEF Mark1, t
  <2>3. s4 \in States(A, ids)
    BY <1>7, <2>1, PhaseTyped DEF Mark1, t
  <2> QED
    BY <2>2, <2>3 DEF LeftBy, MarkedList, t
<1> HIDE DEF s4
<1>9. ~Ended(s4) /\ (s5 = s4 \/ (~Ended(MinMaxCount(node, s4)) /\ s5.a = MinMaxCount(node, s4).a))
  <2> DEFINE t == MinMaxCount(node, s4)
  <2>1. t \in States(A, ids)
    BY <1>1, <1>8, MinMaxCountTyped
  <2> HIDE DEF t
  <2>2. LeftBy(node, "min_max_count", s4, t, s5)
    BY <1>8, <2>1, AfterLeaves DEF Count1, t
  <2> QED
    BY <1>6, <2>2 DEF LeftBy, t
<1>10. s4.a = UpToMarker(node, args0)
  <2>1. s3.a = [p |-> <<>>, u |-> args0]
    BY <1>2, <1>7, <1>8, <1>9
  <2> QED
    BY <1>7, <1>8, <1>9, <2>1, MarkClaims
<1> DEFINE p == SubSeq(args0, 1, at - 1)
<1>11. s4.a.p = p
  <2>1. UpToMarker(node, args0).p = p
    BY DEF UpToMarker
  <2> HIDE DEF p
  <2> QED
    BY <1>10, <2>1
<1>12. /\ at \in NamedOffset(node) + 1 .. Len(args0) /\ Len(args0) \in Nat
       /\ args0 \in Seq(Toks(A)) /\ Len(args0) <= Weight(args0) /\ Weight(args0) \in Nat
  <2>1. at \in NamedOffset(node) + 1 .. Len(args0)
    BY MarkerPlace
  <2>2. args0 \in Seq(Toks(A))
    BY WordsAreTokens
  <2> HIDE DEF at
  <2> QED
    BY <2>1, <2>2, WeightBounds
<1>13. NamedOffset(node) = IF IsNamed(node) THEN 1 ELSE 0
  BY DEF NamedOffset
<1> HIDE DEF at, s5, s7
<1>14. /\ p \in Seq(Words(A)) /\ Len(p) = at - 1 /\ \A k \in 1 .. at - 1 : p[k] = args0[k]
       /\ IsNamed(node) => p # <<>>
  <2>1. at - 1 \in 0 .. Len(args0) /\ (IsNamed(node) => at - 1 > 0)
    BY ONLY <1>12, <1>13
  <2>2. p \in Seq(Words(A)) /\ Len(p) = at - 1 /\ \A k \in 1 .. at - 1 : p[k] = args0[k]
    BY <2>1, SubSeqFacts
  <2> HIDE DEF p
  <2> QED
    BY <2>1, <2>2
<1> HIDE DEF p
<1>15. s5.a = s4.a
  <2>1. 2 * Len(s4.a.p) <= SizeMax
    <3> DEFINE w == Weight(args0)
               l == Len(args0)
    <3>1. l \in Nat /\ l <= w /\ w \in Nat /\ 2 * w <= 255 /\ at \in NamedOffset(node) + 1 .. l
      BY <1>12 DEF SizeMax
    <3> HIDE DEF w, l
    <3>2. 2 * (at - 1) <= 255
      BY ONLY <1>13, <3>1
    <3> QED
      BY <1>11, <1>14, <3>2 DEF SizeMax
  <2>2. IsNamed(node) => s4.a.p # <<>>
    BY <1>11, <1>14
  <2>3. ~Ended(MinMaxCount(node, s4)) => MinMaxCount(node, s4).a = s4.a
    BY <1>8, <2>1, <2>2, CountKeeps DEF MarkedList
  <2> QED
    BY <1>9, <2>3
<1>16. OwnTokens(node, s7) = IF IsNamed(node) THEN Tail(p) ELSE p
  <2>1. s7.a.p = p
    BY <1>6, <1>11, <1>15
  <2>2. IsNamed(node) => WithLabelClaimed(node, s7) = s7.a
    BY <1>14, <2>1 DEF WithLabelClaimed
  <2>3. ~IsNamed(node) => WithLabelClaimed(node, s7) = s7.a
    BY DEF WithLabelClaimed
  <2> QED
    BY <1>14, <2>1, <2>2, <2>3 DEF OwnTokens
<1> DEFINE x == SubSeq(args0, NamedOffset(node) + 1, at - 1)
<1>17. x = IF IsNamed(node) THEN Tail(p) ELSE p
  <2>1. CASE ~IsNamed(node)
    <3>1. NamedOffset(node) + 1 = 1
      BY <1>13, <2>1
    <3> QED
      BY <2>1, <3>1 DEF p
  <2>2. CASE IsNamed(node)
    <3>1. /\ Tail(p) \in Seq(Words(A)) /\ Len(Tail(p)) = at - 2
          /\ \A k \in 1 .. at - 2 : Tail(p)[k] = args0[k + 1]
      <4>1. p # <<>> /\ Len(p) = at - 1 /\ at - 1 \in Nat
        BY <1>12, <1>13, <1>14, <2>2
      <4>2. Tail(p) \in Seq(Words(A)) /\ Len(Tail(p)) = Len(p) - 1
            /\ \A k \in 1 .. Len(p) - 1 : Tail(p)[k] = p[k + 1]
        BY <1>14, <4>1
      <4>3. at \in Nat
        BY <1>12, <1>13
      <4>4. Len(p) - 1 = at - 2 /\ \A k \in 1 .. at - 2 : k + 1 \in 1 .. at - 1
        BY ONLY <4>1, <4>3
      <4>5. \A k \in 1 .. at - 2 : Tail(p)[k] = args0[k + 1]
        BY ONLY <1>14, <4>2, <4>4
      <4> QED
        BY ONLY <4>2, <4>4, <4>5
    <3>2. /\ x \in Seq(Words(A)) /\ Len(x) = at - 2
          /\ \A k \in 1 .. at - 2 : x[k] = args0[k + 1]
      <4>1. x = SubSeq(args0, 2, at - 1) /\ at \in 2 .. Len(args0)
        BY <1>12, <1>13, <2>2
      <4> HIDE DEF x
      <4> QED
        BY <1>12, <4>1, SubSeqFacts
    <3> HIDE DEF x
    <3> DEFINE y == Tail(p)
    <3> HIDE DEF y
    <3>3. y \in Seq(Words(A)) /\ Len(y) = at - 2 /\ \A k \in 1 .. at - 2 : y[k] = args0[k + 1]
      BY <3>1 DEF y
    <3>4. x = y
      BY ONLY <1>12, <3>2, <3>3
    <3> QED
      BY <2>2, <3>4 DEF y
  <2> QED
    BY <2>1, <2>2
<1> QED
  BY <1>5, <1>6, <1>16, <1>17 DEF at

LEMMA MarkersStep ==
  ASSUME NEW nodes, NEW A, CountedTrees(nodes, A), MarkerRules(nodes), Typing(nodes, A), LineFits,
         [Next]_vars, NEW k \in DOMAIN targets' \ DOMAIN targets,
         NEW node, node = NodeOf(targets'[k].node), "token_end_marker" \in node.policies,
         MarkerAt(node, args) > 0
  PROVE  targets'[k].tokens = SubSeq(args, NamedOffset(node) + 1, MarkerAt(node, args) - 1)
<1> DEFINE x == SubSeq(args, NamedOffset(node) + 1, MarkerAt(node, args) - 1)
<1>1. /\ Children \in Seq(nodes) /\ \A n \in nodes : n.children \in Seq(nodes)
      /\ args \in Seq(Words(A)) /\ TreesOf(nodes, A)
      /\ \A a, b \in ToSet(Nodes(Children)) : a.id = b.id => a = b
  BY ChildrenTyped, ChildrenAreSiblings DEF Typing, CountedTrees, GroupRules, TreesOf, DistinctIds
<1>0. PICK m \in ToSet(Nodes(Children)) : \E verdict, o : MatchAdds(A, m, verdict, o)
  <2>1. targets' # <<>> /\ targets' # targets
    OBVIOUS
  <2> QED
    BY <1>1, <2>1, TargetsGrow
<1>2. PICK verdict, o : MatchAdds(A, m, verdict, o)
  BY <1>0
<1>3. PICK j \in DOMAIN o.targets : targets'[k] = o.targets[j]
  BY <1>2 DEF MatchAdds
<1>4. /\ m \in nodes /\ Parameters(m) /\ StandsFor(m, Children)
      /\ o = PreParseLeaf(m, Children, Done, args, verdict) /\ o.kind = "match"
  BY <1>2, CountsOf DEF MatchAdds
<1>5. MatchOf(m, Done, verdict, o)
  BY <1>1, <1>4, MatchFacts DEF StandsFor
<1>6. \A n \in ToSet(Nodes(Children)) : NodeOf(n.id) = n
  BY <1>1 DEF NodeOf
<1>7. CASE "alias" \in m.policies
  <2>1. Ids(o.targets) = m.alias /\ m.alias \subseteq IdsOf(Children)
    BY <1>4, <1>5, <1>7 DEF MatchOf, StandsFor
  <2>2. o.targets[j].node \in m.alias
    BY <2>1 DEF Ids
  <2>3. PICK n \in ToSet(Nodes(Children)) : n.id = o.targets[j].node
    BY <2>1, <2>2 DEF IdsOf
  <2>4. node = n /\ n.id \in m.alias /\ n \in nodes
    BY <1>3, <1>6, <2>2, <2>3, CountsOf
  <2>5. n.min = m.max /\ n.max = m.max
    BY <1>7, <2>4, ChildrenAreSiblings DEF CountedTrees, AliasCounts
  <2>6. n.min # n.max
    BY <2>4 DEF MarkerRules
  <2> QED
    BY <2>5, <2>6
<1>8. CASE "alias" \notin m.policies
  <2>1. PICK values : o.targets = <<Target(m.id, values)>>
    BY <1>5, <1>8 DEF MatchOf
  <2>2. j = 1 /\ o.targets[j].node = m.id
    BY <2>1 DEF Target
  <2>3. node = m
    BY <1>3, <1>6, <2>2
  <2>4. "min_max_count" \in m.policies => m.max <= SizeMax
    BY <1>4 DEF CountedTrees, CountRules
  <2>5. MarkedList(m)
    BY <1>4, <1>8, <2>3 DEF MarkedList, ListCounts, MarkerRules, CountedTrees, CountRules
  <2>6. o.targets = <<Target(m.id, x)>>
    BY <1>1, <1>4, <2>3, <2>5, ListMatch DEF LineFits
  <2> HIDE DEF x
  <2>7. o.targets[1].tokens = x
    BY <2>6 DEF Target
  <2> QED
    BY <1>3, <2>2, <2>7 DEF x
<1> QED
  BY <1>7, <1>8

\* A token end marker ends the list of its node's values: no token behind it
\* becomes a value of that node, and every one before it does
\* (token_end_marker.hpp:86-94, min_max_count.hpp:93-106), for every tree whose
\* marked lists keep the rules and every command line.
THEOREM MarkersEnd ==
  ASSUME NEW nodes, NEW A, CountedTrees(nodes, A), MarkerRules(nodes)
  PROVE  Spec => MarkerEndsList
<1> DEFINE Ended1 == \A k \in DOMAIN targets' \ DOMAIN targets :
                       LET node == NodeOf(targets'[k].node)
                           from == NamedOffset(node) + 1
                           at   == SelectInSubSeq(args, from, Len(args), LAMBDA t : t.name = <<node.marker>>)
                       IN  "token_end_marker" \in node.policies /\ at > 0 =>
                             targets'[k].tokens = SubSeq(args, from, at - 1)
<1>1. TreesOf(nodes, A) /\ ShortLines
  BY DEF CountedTrees, GroupRules
<1>2. ASSUME Typing(nodes, A), LineFits, [Next]_vars PROVE Ended1
  <2>1. ASSUME NEW k \in DOMAIN targets' \ DOMAIN targets, NEW node, node = NodeOf(targets'[k].node),
               "token_end_marker" \in node.policies, MarkerAt(node, args) > 0
        PROVE  targets'[k].tokens = SubSeq(args, NamedOffset(node) + 1, MarkerAt(node, args) - 1)
    BY <1>2, <2>1, MarkersStep
  <2> SUFFICES ASSUME NEW k \in DOMAIN targets' \ DOMAIN targets
               PROVE  LET node == NodeOf(targets'[k].node)
                          from == NamedOffset(node) + 1
                          at   == SelectInSubSeq(args, from, Len(args), LAMBDA t : t.name = <<node.marker>>)
                      IN  "token_end_marker" \in node.policies /\ at > 0 =>
                            targets'[k].tokens = SubSeq(args, from, at - 1)
    OBVIOUS
  <2> DEFINE node == NodeOf(targets'[k].node)
             at   == SelectInSubSeq(args, NamedOffset(node) + 1, Len(args), LAMBDA t : t.name = <<node.marker>>)
  <2>2. at = MarkerAt(node, args)
    BY DEF MarkerAt
  <2> HIDE DEF at
  <2>3. "token_end_marker" \in node.policies /\ at > 0 =>
          targets'[k].tokens = SubSeq(args, NamedOffset(node) + 1, at - 1)
    BY <2>1, <2>2
  <2> QED
    BY <2>3 DEF at
<1>3. Typing(nodes, A) /\ LineFits /\ [Next]_vars => [Ended1]_vars
  BY <1>2
<1> QED
  BY <1>1, <1>3, TypingHolds, LineFitsHolds, PTL DEF Spec, MarkerEndsList
=============================================================================
