--------------------------- MODULE PkgSteps_proofs ---------------------------
(***************************************************************************)
(* Proofs about PkgSteps, for any packages, dependencies, patches and      *)
(* numbers of makes and faults.                                            *)
(***************************************************************************)
EXTENDS PkgSteps, TLAPS, SequenceTheorems

Step == {"source", "extract", "patch", "rsync", "configure", "build", "install"} \union InstallStep

\* A step and its package.
LEMMA NodeIs ==
    /\ \A n \in RealNode : n = <<n[1], n[2]>> /\ n[1] \in Pkg /\ n[2] \in Step /\ n[2] \in StepsOf(n[1])
    /\ \A p \in Pkg, s \in Step : s \in StepsOf(p) => <<p, s>> \in RealNode
  BY DEF RealNode, Node, Step, InstallStep

\* The prerequisites are steps that exist.
LEMMA NormalIs ==
    ASSUME NEW n \in RealNode
    PROVE  /\ normal[n] = {<<n[1], s>> : s \in Follows[n[2]] \intersect StepsOf(n[1])}
           /\ normal[n] \subseteq prereq[n]
           /\ prereq[n] = normal[n] \union OrderOnly(n)
           /\ normal[n] \subseteq RealNode
           /\ n \notin normal[n]
  <1>1. normal[n] = Normal(n) /\ prereq[n] = Normal(n) \union OrderOnly(n)
    BY DEF normal, prereq
  <1>2. Follows[n[2]] \subseteq Step /\ n[2] \notin Follows[n[2]]
    BY NodeIs DEF Follows, Step, InstallStep
  <1>3. Normal(n) \subseteq RealNode
    BY <1>2, NodeIs DEF Normal
  <1>4. n \notin Normal(n)
    BY <1>2, NodeIs DEF Normal
  <1> QED BY <1>1, <1>3, <1>4 DEF Normal

\* What a command removes.
LEMMA RemovedIs ==
    ASSUME NEW o \in PkgOp \union {"all"}, NEW p \in Pkg
    PROVE  /\ removed[o][p] \in Seq(Node)
           /\ \A i \in 1..Len(removed[o][p]) :
                  /\ removed[o][p][i][1] = p
                  /\ removed[o][p][i][2] \notin {"source", "extract", "patch"}
                  /\ removed[o][p][i] \in RealNode
                         => removed[o][p][i] \in Documented(o, p) \union {<<p, "rsync">>}
           /\ \A n \in Documented(o, p) : \E i \in 1..Len(removed[o][p]) : removed[o][p][i] = n
           /\ o \in {"all", "dirclean"} => removed[o][p] = <<>>
  <1> DEFINE rules == <<"rsync", "install", "staging", "target", "images", "host", "build", "configure">>
             count == CASE o = "reinstall" -> 6 [] o = "rebuild" -> 7
                        [] o = "reconfigure" -> 8 [] OTHER -> 0
             seq == [i \in 1..count |-> <<p, rules[i]>>]
  <1>1. removed[o][p] = seq
    BY DEF removed, Removed
  <1>2. count \in 0..8 /\ (o \in {"all", "dirclean"} => count = 0)
    BY DEF PkgOp
  <1>3. \A i \in 1..8 : /\ rules[i] \in {"rsync", "configure", "build", "install"} \union InstallStep
                        /\ i <= 6 => rules[i] \in InstallStep \union {"rsync", "install"}
    BY DEF InstallStep
  <1>4. \A i \in 1..count : seq[i] \in Node
    <2> TAKE i \in 1..count
    <2>1. i \in 1..8 BY <1>2
    <2> QED BY <1>3, <2>1 DEF Node
  <1>5. seq \in Seq(Node) /\ Len(seq) = count
    <2> HIDE DEF count
    <2> QED BY <1>2, <1>4
  <1>6. ASSUME NEW i \in 1..count
        PROVE  /\ seq[i][1] = p /\ seq[i][2] \notin {"source", "extract", "patch"}
               /\ seq[i] \in RealNode => seq[i] \in Documented(o, p) \union {<<p, "rsync">>}
    <2>1. i \in 1..8 BY <1>2
    <2>2. seq[i] = <<p, rules[i]>> OBVIOUS
    <2>3. rules[i] \notin {"source", "extract", "patch"}
      BY <2>1, <1>3 DEF InstallStep
    <2>4. ASSUME seq[i] \in RealNode, rules[i] # "rsync"
          PROVE  seq[i] \in Documented(o, p)
      <3>1. seq[i] \in NodesOf(p) BY <2>2, <2>4 DEF NodesOf
      <3>2. CASE o = "reinstall" BY <1>3, <2>1, <2>2, <2>4, <3>1, <3>2 DEF Documented
      <3>3. CASE o = "rebuild"
        BY <1>3, <2>1, <2>2, <2>4, <3>1, <3>3 DEF Documented
      <3>4. CASE o = "reconfigure"
        BY <1>3, <2>1, <2>2, <2>4, <3>1, <3>4 DEF Documented
      <3> QED BY <3>2, <3>3, <3>4 DEF PkgOp
    <2> QED BY <2>2, <2>3, <2>4
  <1>7. ASSUME NEW n \in Documented(o, p)
        PROVE  \E i \in 1..count : seq[i] = n
    <2>1. n = <<p, n[2]>> /\ o \in {"reinstall", "rebuild", "reconfigure"}
      BY NodeIs DEF Documented, NodesOf
    <2>2. CASE n[2] \in InstallStep \union {"install"}
      <3>1. \E i \in 1..6 : rules[i] = n[2]
        <4>1. rules[2] = "install" /\ rules[3] = "staging" /\ rules[4] = "target"
              /\ rules[5] = "images" /\ rules[6] = "host" OBVIOUS
        <4> QED BY <2>2, <4>1 DEF InstallStep
      <3>2. 6 <= count BY <2>1
      <3> QED BY <2>1, <3>1, <3>2
    <2>3. CASE n[2] = "build"
      <3>1. 7 \in 1..count /\ rules[7] = "build" BY <2>1, <2>3 DEF Documented, InstallStep
      <3> QED BY <2>1, <2>3, <3>1
    <2>4. CASE n[2] = "configure"
      <3>1. 8 \in 1..count /\ rules[8] = "configure" BY <2>1, <2>4 DEF Documented, InstallStep
      <3> QED BY <2>1, <2>4, <3>1
    <2> QED BY <2>2, <2>3, <2>4 DEF Documented
  <1>8. o \in {"all", "dirclean"} => seq = <<>>
    BY <1>2, <1>5
  <1> HIDE DEF seq, count
  <1> QED BY <1>1, <1>5, <1>6, <1>7, <1>8

LEMMA TailIs ==
    ASSUME NEW S, NEW s \in Seq(S), s # <<>>
    PROVE  /\ Tail(s) \in Seq(S) /\ Head(s) = s[1] /\ 1 \in 1..Len(s)
           /\ \A i \in 1..Len(Tail(s)) : i + 1 \in 1..Len(s) /\ Tail(s)[i] = s[i + 1]
           /\ \A i \in 1..Len(s) : i # 1 => i - 1 \in 1..Len(Tail(s)) /\ Tail(s)[i - 1] = s[i]
OBVIOUS

-----------------------------------------------------------------------------
\* Types.

LEMMA InitType == Init => TypeOK
<1> SUFFICES ASSUME Init PROVE TypeOK OBVIOUS
<1>1. arg \in Pkg /\ op \in PkgOp \union {"all"} /\ todo \in Seq(Node)
  BY PkgAssumption DEF Init, AnyPkg
<1>2. makes \in 0..MaxMakes /\ faults \in 0..MaxFaults
  BY PkgAssumption DEF Init
<1> QED BY <1>1, <1>2 DEF Init, TypeOK

LEMMA StepType == TypeOK /\ [Next]_vars => TypeOK'
<1> SUFFICES ASSUME TypeOK, [Next]_vars PROVE TypeOK' OBVIOUS
<1> USE DEF TypeOK, make, disk, sources
<1>1. CASE Remove
  <2>1. Tail(todo) \in Seq(Node) BY <1>1, TailIs DEF Remove
  <2> QED BY <1>1, <2>1 DEF Remove
<1>2. CASE GiveUp BY <1>2 DEF GiveUp, EndMake
<1>3. CASE Done BY <1>3 DEF Done, EndMake
<1>4. CASE Unlink
  <2>1. arg \in Pkg /\ torn' \subseteq Pkg /\ produced' \subseteq RealNode
    BY <1>4 DEF Unlink
  <2>2. stamp' \subseteq RealNode /\ stale' \subseteq stamp'
    BY <1>4 DEF Unlink
  <2>3. listed' \in [Pkg -> Nat]
    BY <1>4 DEF Unlink
  <2> QED BY <1>4, <2>1, <2>2, <2>3 DEF Unlink
<1>5. CASE Dirclean BY <1>5 DEF Dirclean, EndMake
<1>6. ASSUME NEW n \in RealNode, Look(n) PROVE TypeOK' BY <1>6 DEF Look
<1>7. ASSUME NEW n \in RealNode, Keep(n) PROVE TypeOK' BY <1>7 DEF Keep
<1>8. ASSUME NEW n \in RealNode, Start(n) PROVE TypeOK'
  <2>1. st' = [st EXCEPT ![n] = "running"] /\ produced' \subseteq RealNode
    BY <1>8 DEF Start
  <2>2. next' \in [Pkg -> Nat] /\ hand' \in [Pkg -> BOOLEAN]
    BY <1>8 DEF Start
  <2> QED BY <1>8, <2>1, <2>2 DEF Start
<1>9. ASSUME NEW n \in RealNode, Finish(n) PROVE TypeOK'
  <2>1. st' = [st EXCEPT ![n] = "made"]
    BY <1>9 DEF Finish
  <2>2. stamp' \subseteq RealNode /\ stale' \subseteq stamp'
    BY <1>9 DEF Finish
  <2>3. produced' \subseteq RealNode /\ outdated' \subseteq RealNode
    BY <1>9 DEF Finish
  <2>4. applied' \in [Pkg -> Nat]
    BY <1>9 DEF Finish
  <2>5. UNCHANGED <<op, arg, outcome, settled, makes, todo, next, hand, listed, torn, faults>>
    BY <1>9 DEF Finish
  <2> QED BY <2>1, <2>2, <2>3, <2>4, <2>5
<1>10. ASSUME NEW p \in Pkg, ListPatch(p) PROVE TypeOK' BY <1>10 DEF ListPatch
<1>11. ASSUME NEW p \in Pkg, ApplyPatch(p) PROVE TypeOK' BY <1>11 DEF ApplyPatch
<1>12. ASSUME NEW p \in Pkg, Duplicate(p) PROVE TypeOK' BY <1>12 DEF Duplicate
<1>13. ASSUME NEW o \in Ops, NEW p \in Pkg, Make(o, p) PROVE TypeOK'
  <2>1. o \in PkgOp \union {"all"} BY PkgAssumption
  <2>2. removed[o][p] \in Seq(Node) BY <2>1, RemovedIs
  <2>3. makes + 1 \in 0..MaxMakes BY <1>13, PkgAssumption DEF Make
  <2>4. settled' \in BOOLEAN BY <1>13 DEF Make, Complete
  <2>5. UNCHANGED <<stamp, stale, produced, outdated, torn, faults>> /\ UNCHANGED <<next, hand, listed, applied>>
    BY <1>13 DEF Make
  <2>6. st' \in [RealNode -> {"unseen"}] BY <1>13 DEF Make
  <2> QED BY <1>13, <2>1, <2>2, <2>3, <2>4, <2>5, <2>6 DEF Make
<1>14. ASSUME NEW n \in RealNode, Fail(n) PROVE TypeOK'
  <2>1. faults + 1 \in 0..MaxFaults BY <1>14, PkgAssumption DEF Fail
  <2> QED BY <1>14, <2>1 DEF Fail
<1>15. CASE Kill
  <2>1. faults + 1 \in 0..MaxFaults BY <1>15, PkgAssumption DEF Kill
  <2> QED BY <1>15, <2>1 DEF Kill, EndMake
<1>16. CASE UNCHANGED vars BY <1>16 DEF vars
<1> QED BY <1>1, <1>2, <1>3, <1>4, <1>5, <1>6, <1>7, <1>8, <1>9, <1>10, <1>11, <1>12, <1>13, <1>14,
           <1>15, <1>16 DEF Next, Work

\* Types, in every reachable state.
THEOREM TypeCorrect == Spec => []TypeOK
<1>1. Init => TypeOK BY InitType
<1>2. TypeOK /\ [Next]_vars => TypeOK' BY StepType
<1> QED BY <1>1, <1>2, PTL DEF Spec

-----------------------------------------------------------------------------
\* Stamps.

\* A stamp that make would leave alone.
Trusted == stamp \ stale

\* What make believes of the stamps is no older than what it acts on: a step it
\* will run, or runs, has no stamp to trust, nor has one whose normal
\* prerequisite was made in this invocation, until it is made as well.
Knows ==
    outcome = "busy" =>
        \A n \in RealNode :
            /\ st[n] \in {"absent", "stale", "running"} => n \notin Trusted
            /\ \A m \in normal[n] : st[m] = "made" /\ n \in Trusted => st[n] = "made"

\* Steps that only change what make knows.
LEMMA KnowsLooks ==
    ASSUME TypeOK, Knows, outcome = "busy", UNCHANGED <<stamp, stale>>, NEW k \in RealNode, NEW v,
           st' = [st EXCEPT ![k] = v], v # "made", st[k] # "made",
           v \in {"absent", "stale", "running"} => k \notin Trusted
    PROVE  Knows'
BY NormalIs DEF Knows, TypeOK, Trusted

LEMMA KnowsStep == ASSUME TypeOK, Knows, [Next]_vars PROVE Knows'
<1> USE DEF make, disk, sources
<1>0. \A n \in RealNode : normal[n] \subseteq RealNode /\ n \notin normal[n]
  BY NormalIs
<1>1. CASE Remove BY <1>0, <1>1 DEF Remove, Knows, Trusted
<1>2. CASE GiveUp \/ Done \/ Dirclean \/ Kill
  BY <1>2 DEF GiveUp, Done, Dirclean, Kill, EndMake, Knows
<1>3. CASE Unlink BY <1>0, <1>3 DEF Unlink, Dircleaning, Knows, Trusted
<1>4. ASSUME NEW n \in RealNode, Look(n) PROVE Knows'
  <2>1. PICK v \in {"absent", "stale", "fresh"} :
            st' = [st EXCEPT ![n] = v] /\ (v \in {"absent", "stale"} => n \notin Trusted)
    BY <1>4 DEF Look, Trusted
  <2> QED BY <1>4, <2>1, KnowsLooks DEF Look, MayStart
<1>5. ASSUME NEW n \in RealNode, Keep(n) PROVE Knows'
  BY <1>5, KnowsLooks DEF Keep
<1>6. ASSUME NEW n \in RealNode, Start(n) PROVE Knows'
  <2>1. n \notin Trusted
    <3>1. CASE st[n] \in {"absent", "stale"} BY <1>6, <3>1 DEF Start, MayStart, Knows
    <3>2. CASE st[n] = "fresh" /\ MadeBelow(n)
      BY <1>0, <1>6, <3>2 DEF Start, MayStart, MadeBelow, Knows
    <3> QED BY <1>6, <3>1, <3>2 DEF Start
  <2> QED BY <1>6, <2>1, KnowsLooks DEF Start, MayStart
<1>7. ASSUME NEW n \in RealNode, Finish(n) PROVE Knows'
  <2>1. /\ Trusted' \subseteq Trusted \union {n}
        /\ \A k \in RealNode : n \in normal[k] => k \notin Trusted'
    BY <1>0, <1>7 DEF Finish, Trusted, TypeOK
  <2>2. outcome = "busy" /\ st' = [st EXCEPT ![n] = "made"]
    BY <1>7 DEF Finish
  <2>3. \A k \in RealNode : st'[k] = IF k = n THEN "made" ELSE st[k]
    BY <2>2 DEF TypeOK
  <2> QED BY <1>0, <2>1, <2>2, <2>3 DEF Knows
<1>8. ASSUME NEW p \in Pkg, ListPatch(p) \/ ApplyPatch(p) PROVE Knows'
  BY <1>8 DEF ListPatch, ApplyPatch, Knows, Trusted
<1>9. ASSUME NEW p \in Pkg, Duplicate(p) PROVE Knows'
  <2>1. <<p, "patch">> \in RealNode
    BY <1>9, NodeIs DEF Duplicate, Patching, StepsOf, Step
  <2> QED BY <1>9, <2>1, KnowsLooks DEF Duplicate, Patching
<1>10. ASSUME NEW o \in Ops, NEW p \in Pkg, Make(o, p) PROVE Knows'
  <2>1. \A n \in RealNode : st'[n] = "unseen" BY <1>10 DEF Make
  <2> QED BY <1>0, <2>1 DEF Knows
<1>11. ASSUME NEW n \in RealNode, Fail(n) PROVE Knows'
  BY <1>11, KnowsLooks DEF Fail
<1>12. CASE UNCHANGED vars BY <1>12 DEF vars, Knows, Trusted
<1> QED BY <1>1, <1>2, <1>3, <1>4, <1>5, <1>6, <1>7, <1>8, <1>9, <1>10, <1>11, <1>12 DEF Next, Work

LEMMA HonestStep == ASSUME TypeOK, Knows, StampsHonest, [Next]_vars PROVE StampsHonest'
<1> USE DEF make, disk, sources
<1>0. \A n \in RealNode : normal[n] \subseteq RealNode /\ n \notin normal[n]
  BY NormalIs
<1>1. CASE Unlink
  <2>1. Trusted' \subseteq Trusted /\ torn' = torn \union {arg} /\ outdated' = outdated
    BY <1>1 DEF Unlink, Trusted
  <2>2. \A n \in RealNode : n[1] # arg /\ n \in produced => n \in produced'
    BY <1>1 DEF Unlink, NodesOf
  <2> QED BY <2>1, <2>2 DEF StampsHonest, Trusted, TypeOK
<1>2. CASE Dirclean
  <2>1. UNCHANGED <<stamp, stale>> /\ torn' = torn \ {arg}
    BY <1>2 DEF Dirclean
  <2>2. \A n \in Trusted : n \notin NodesOf(arg) /\ n[1] # arg
    BY <1>2 DEF Dirclean, NodesOf, Trusted, TypeOK
  <2>3. \A n \in Trusted : n \in produced \ outdated => n \in produced' \ outdated'
    BY <1>2, <2>2 DEF Dirclean
  <2> QED BY <2>1, <2>2, <2>3 DEF StampsHonest, Trusted
<1>3. ASSUME NEW n \in RealNode, Start(n) PROVE StampsHonest'
  <2>1. Knows' BY KnowsStep
  <2>2. n \notin Trusted'
    BY <1>3, <2>1 DEF Start, MayStart, Knows, TypeOK
  <2> QED BY <1>3, <2>2 DEF Start, StampsHonest, Trusted
<1>4. ASSUME NEW n \in RealNode, Finish(n) PROVE StampsHonest'
  <2>1. /\ Trusted' = (Trusted \union {n}) \ {m \in stamp \ {n} : n \in normal[m]}
        /\ Trusted' \subseteq RealNode
    BY <1>4 DEF Finish, Trusted, TypeOK
  <2>2. produced' = produced \union {n} /\ torn' = torn
    BY <1>4 DEF Finish
  <2>3. outdated' = (outdated \ {n}) \union {m \in produced \ {n} : n \in normal[m]}
    BY <1>4 DEF Finish
  <2>4. n \in produced' \ outdated'
    BY <2>2, <2>3
  <2>5. ASSUME NEW k \in Trusted', k # n, k[1] \notin torn PROVE k \in produced' \ outdated'
    <3>1. k \in Trusted /\ n \notin normal[k]
      BY <2>1, <2>5 DEF Trusted
    <3> QED BY <2>2, <2>3, <2>5, <3>1 DEF StampsHonest, Trusted
  <2> QED BY <2>2, <2>4, <2>5 DEF StampsHonest, Trusted
<1>5. CASE Remove BY <1>5 DEF Remove, StampsHonest
<1>6. CASE UNCHANGED <<stamp, stale, torn, produced, outdated>>
  BY <1>6 DEF StampsHonest
<1> QED BY <1>1, <1>2, <1>3, <1>4, <1>5, <1>6
    DEF Next, Work, vars, Look, Keep, ListPatch, ApplyPatch, Duplicate, GiveUp, Done, Kill, Make, Fail

\* A stamp stands for a step that is complete, in any build, however often it is
\* begun, cut short and carried on, in parallel or not.
THEOREM HonestStamps == Spec => []StampsHonest
<1>1. Init => TypeOK /\ Knows /\ StampsHonest
  BY InitType DEF Init, Knows, StampsHonest
<1>2. TypeOK /\ Knows /\ StampsHonest /\ [Next]_vars => (TypeOK /\ Knows /\ StampsHonest)'
  BY StepType, KnowsStep, HonestStep
<1> QED BY <1>1, <1>2, PTL DEF Spec

-----------------------------------------------------------------------------
\* What a command touches.

\* The steps NothingElse lets a command run.
Allowed == Documented(op, arg) \union (IF op \in PkgOp THEN {<<arg, "rsync">>} ELSE {})

\* Whatever continues a step a command runs again is run again as well.
LEMMA AllowedUp ==
    ASSUME TypeOK, NEW n \in RealNode, NEW m \in normal[n], m \in Allowed
    PROVE  n \in Allowed
<1>1. PICK s \in Follows[n[2]] : m = <<n[1], s>>
  BY NormalIs
<1>2. n[2] \in Step /\ s # "rsync"
  BY NodeIs DEF Follows, Step, InstallStep
<1>3. m \in Documented(op, arg)
  BY <1>1, <1>2 DEF Allowed
<1>4. m[1] = arg /\ m[2] = s /\ n[1] = arg /\ n \in NodesOf(arg)
  BY <1>1, <1>3 DEF Documented, NodesOf
<1>5. CASE s \in InstallStep \union {"install"}
  <2>1. n[2] \in {"target", "install"}
    BY <1>2, <1>5 DEF Follows, Step, InstallStep
  <2>2. op \in {"reinstall", "rebuild", "reconfigure"}
    BY <1>3 DEF Documented
  <2> QED BY <1>4, <2>1, <2>2 DEF Allowed, Documented, InstallStep
<1>6. CASE s = "build"
  <2>1. n[2] \in InstallStep \union {"install"}
    BY <1>2, <1>6 DEF Follows, Step, InstallStep
  <2>2. op \in {"rebuild", "reconfigure"}
    BY <1>3, <1>4, <1>6 DEF Documented, InstallStep
  <2> QED BY <1>4, <2>1, <2>2 DEF Allowed, Documented
<1>7. CASE s = "configure"
  <2>1. n[2] = "build"
    BY <1>2, <1>7 DEF Follows, Step, InstallStep
  <2>2. op = "reconfigure"
    BY <1>3, <1>4, <1>7 DEF Documented, InstallStep
  <2> QED BY <1>4, <2>1, <2>2 DEF Allowed, Documented
<1> QED BY <1>3, <1>4, <1>5, <1>6, <1>7 DEF Documented

\* dirclean runs no step, and the stamps that are removed one by one are those
\* of the steps to run again.
Removes ==
    outcome = "busy" =>
        /\ op = "dirclean" => todo = <<>> /\ \A n \in RealNode : st[n] = "unseen"
        /\ op = "all" => todo = <<>>
        /\ \A i \in 1..Len(todo) :
               /\ todo[i][2] \notin {"source", "extract", "patch"}
               /\ todo[i] \in RealNode => todo[i] \in Allowed

LEMMA RemovesStep == ASSUME TypeOK, Removes, [Next]_vars PROVE Removes'
<1> USE DEF make, disk, sources
<1>1. ASSUME NEW o \in Ops, NEW p \in Pkg, Make(o, p) PROVE Removes'
  <2>1. op' = o /\ arg' = p /\ todo' = removed[o][p] /\ \A n \in RealNode : st'[n] = "unseen"
    BY <1>1 DEF Make
  <2>2. o \in PkgOp \union {"all"}
    BY PkgAssumption
  <2>3. /\ o \in {"all", "dirclean"} => todo' = <<>>
        /\ \A i \in 1..Len(todo') :
               /\ todo'[i][2] \notin {"source", "extract", "patch"}
               /\ todo'[i] \in RealNode => todo'[i] \in Documented(o, p) \union {<<p, "rsync">>}
    BY <2>1, <2>2, RemovedIs
  <2>4. o = "all" => Len(todo') = 0
    BY <2>3
  <2>5. o \in PkgOp => Allowed' = Documented(o, p) \union {<<p, "rsync">>}
    BY <2>1 DEF Allowed, Documented
  <2> QED BY <2>1, <2>2, <2>3, <2>4, <2>5 DEF Removes
<1>2. CASE Remove
  <2>1. \A i \in 1..Len(todo') : i + 1 \in 1..Len(todo) /\ todo'[i] = todo[i + 1]
    BY <1>2, TailIs DEF Remove, TypeOK
  <2>2. Allowed' = Allowed /\ UNCHANGED <<op, outcome, st>> /\ outcome = "busy" /\ todo # <<>>
    BY <1>2 DEF Remove, Allowed, Documented
  <2> QED BY <2>1, <2>2 DEF Removes
<1>3. CASE outcome' # "busy" BY <1>3 DEF Removes
<1>4. CASE UNCHANGED <<op, arg, outcome, todo, st>>
  BY <1>4 DEF Removes, Allowed, Documented
<1>5. ASSUME NEW n \in RealNode, Look(n) PROVE Removes'
  <2>1. UNCHANGED <<op, arg, outcome, todo>> /\ Allowed' = Allowed /\ outcome = "busy"
    BY <1>5 DEF Look, MayStart, Allowed, Documented
  <2>2. op # "dirclean"
    BY <1>5, <2>1 DEF Look, Removes, Goals, Open
  <2> QED BY <2>1, <2>2 DEF Removes
<1>6. ASSUME NEW n \in RealNode, Keep(n) \/ Start(n) \/ Finish(n) \/ Fail(n) PROVE Removes'
  <2>1. UNCHANGED <<op, arg, outcome, todo>> /\ Allowed' = Allowed /\ outcome = "busy"
    BY <1>6 DEF Keep, Start, Finish, Fail, MayStart, Allowed, Documented
  <2>2. st[n] # "unseen"
    BY <1>6 DEF Keep, Start, Finish, Fail
  <2> QED BY <2>1, <2>2 DEF Removes
<1>7. ASSUME NEW p \in Pkg, Duplicate(p) PROVE Removes'
  <2>1. UNCHANGED <<op, arg, outcome, todo>> /\ Allowed' = Allowed /\ outcome = "busy"
    BY <1>7 DEF Duplicate, Patching, Allowed, Documented
  <2>2. <<p, "patch">> \in RealNode /\ st[<<p, "patch">>] # "unseen"
    BY <1>7, NodeIs DEF Duplicate, Patching, StepsOf, Step
  <2> QED BY <2>1, <2>2 DEF Removes
<1> QED BY <1>1, <1>2, <1>3, <1>4, <1>5, <1>6, <1>7
    DEF Next, Work, vars, ListPatch, ApplyPatch, Unlink, Dirclean, GiveUp, Done, Kill, EndMake

\* In a build that was complete, what is not, or was made again, is allowed.
Contained ==
    outcome = "busy" /\ settled /\ op # "dirclean" =>
        \A n \in RealNode : n \notin Trusted \/ st[n] = "made" => n \in Allowed

LEMMA StartAllowed ==
    ASSUME TypeOK, Knows, Removes, Contained, settled, NEW n \in RealNode, Start(n)
    PROVE  n \in Allowed
<1>1. outcome = "busy" /\ op # "dirclean" /\ st[n] # "unseen"
  BY DEF Start, MayStart, Removes
<1>2. CASE st[n] \in {"absent", "stale"}
  BY <1>1, <1>2 DEF Knows, Contained
<1>3. CASE MadeBelow(n)
  <2>1. PICK m \in normal[n] : st[m] = "made"
    BY <1>3 DEF MadeBelow
  <2>2. m \in RealNode BY NormalIs
  <2>3. m \in Allowed BY <1>1, <2>1, <2>2 DEF Contained
  <2> QED BY <2>3, AllowedUp
<1> QED BY <1>2, <1>3 DEF Start

LEMMA ContainedStep ==
    ASSUME TypeOK, Knows, Removes, Contained, [Next]_vars
    PROVE  Contained'
<1> USE DEF make, disk, sources
<1>1. ASSUME NEW o \in Ops, NEW p \in Pkg, Make(o, p) PROVE Contained'
  <2>1. settled' => RealNode \subseteq Trusted'
    BY <1>1 DEF Make, Complete, Trusted
  <2>2. \A n \in RealNode : st'[n] = "unseen"
    BY <1>1 DEF Make
  <2> QED BY <2>1, <2>2 DEF Contained
<1>2. CASE outcome' # "busy" \/ op' = "dirclean" BY <1>2 DEF Contained
<1>3. ASSUME UNCHANGED <<op, arg, outcome, settled>>,
             \A n \in RealNode : n \notin Trusted' \/ st'[n] = "made"
                 => n \notin Trusted \/ st[n] = "made" \/ (settled /\ op # "dirclean" => n \in Allowed)
      PROVE  Contained'
  <2>1. Allowed' = Allowed BY <1>3 DEF Allowed, Documented
  <2> QED BY <1>3, <2>1 DEF Contained
<1>4. CASE Remove
  <2>1. Head(todo) \in RealNode => Head(todo) \in Allowed
    BY <1>4, TailIs DEF Remove, Removes, TypeOK
  <2>2. UNCHANGED <<op, arg, outcome, settled, st>> /\ Trusted' = Trusted \ {Head(todo)}
    BY <1>4 DEF Remove, Trusted
  <2> QED BY <1>3, <2>1, <2>2
<1>5. ASSUME NEW n \in RealNode, Look(n) \/ Keep(n) \/ Start(n) \/ Fail(n) PROVE Contained'
  <2>1. UNCHANGED <<op, arg, outcome, settled, stamp, stale>>
    BY <1>5 DEF Look, Keep, Start, Fail
  <2>2. \A k \in RealNode : st'[k] = "made" => st[k] = "made"
    BY <1>5 DEF Look, Keep, Start, Fail, TypeOK
  <2> QED BY <1>3, <2>1, <2>2 DEF Trusted
<1>6. ASSUME NEW n \in RealNode, Finish(n) PROVE Contained'
  <2>1. UNCHANGED <<op, arg, outcome, settled>> /\ outcome = "busy" /\ st[n] = "running"
    BY <1>6 DEF Finish
  <2>2. \A k \in RealNode : k \notin Trusted' => k \notin Trusted \/ n \in normal[k]
    BY <1>6 DEF Finish, Trusted
  <2>3. \A k \in RealNode : st'[k] = "made" => st[k] = "made" \/ k = n
    BY <1>6 DEF Finish, TypeOK
  <2>4. settled /\ op # "dirclean" => n \in Allowed
    BY <2>1 DEF Knows, Contained
  <2>5. settled /\ op # "dirclean" => \A k \in RealNode : n \in normal[k] => k \in Allowed
    BY <2>4, AllowedUp
  <2> QED BY <1>3, <2>1, <2>2, <2>3, <2>4, <2>5
<1>7. ASSUME NEW p \in Pkg, ListPatch(p) \/ ApplyPatch(p) PROVE Contained'
  BY <1>3, <1>7 DEF ListPatch, ApplyPatch, Trusted
<1>8. ASSUME NEW p \in Pkg, Duplicate(p) PROVE Contained'
  <2>1. \A k \in RealNode : st'[k] = "made" => st[k] = "made"
    BY <1>8 DEF Duplicate, TypeOK
  <2> QED BY <1>3, <1>8, <2>1 DEF Duplicate, Trusted
<1>9. CASE UNCHANGED vars BY <1>3, <1>9 DEF vars, Trusted
<1> QED BY <1>1, <1>2, <1>4, <1>5, <1>6, <1>7, <1>8, <1>9
    DEF Next, Work, Unlink, Dircleaning, Dirclean, GiveUp, Done, Kill, EndMake

\* In a complete build a command starts the steps it is documented to run again
\* and no other, of its package and no other; parallel or not.
THEOREM ActsOnNothingElse == Spec => NothingElse
<1> DEFINE Inv == TypeOK /\ Knows /\ Removes /\ Contained
<1>1. Init => Inv
  BY InitType DEF Init, Knows, Removes, Contained
<1>2. Inv /\ [Next]_vars => Inv'
  BY StepType, KnowsStep, RemovesStep, ContainedStep
<1> DEFINE Others == settled /\ outcome = "busy" =>
                         \A n \in RealNode :
                             st[n] # "running" /\ st'[n] = "running" =>
                                 \/ n \in Documented(op, arg)
                                 \/ op \in PkgOp /\ n = <<arg, "rsync">>
<1>3. Inv /\ [Next]_vars => [Others]_vars
  <2> SUFFICES ASSUME Inv, [Next]_vars, settled, NEW n \in RealNode,
                      st[n] # "running", st'[n] = "running"
               PROVE  n \in Documented(op, arg) \/ (op \in PkgOp /\ n = <<arg, "rsync">>)
    OBVIOUS
  <2>1. Start(n)
    BY DEF Next, Work, vars, make, disk, Remove, GiveUp, Done, Unlink, Dirclean, Look, Keep, Start, Finish,
           ListPatch, ApplyPatch, Duplicate, Make, Fail, Kill, EndMake, TypeOK
  <2> QED BY <2>1, StartAllowed DEF Allowed
<1> HIDE DEF Inv
<1> QED BY <1>1, <1>2, <1>3, PTL DEF Spec, NothingElse

-----------------------------------------------------------------------------
\* What runs waits for what it needs, when the commands that remove stamps are
\* not given with -jN: those of steps_parallel_rebuild do not wait.

Serial == Parallel \subseteq {"all"}

\* make is through with the step.
Through(n) == st[n] \in {"made", "kept"}

LEMMA PrereqIs ==
    ASSUME NEW n \in RealNode
    PROVE  /\ prereq[n] \subseteq RealNode
           /\ n[2] \in DependsStep => \A d \in Depends[n[1]][n[2]] :
                                          d \in Pkg /\ DependsOn(d, n[2]) \in prereq[n]
           /\ n[2] = "configure" /\ n[1] \in Override => <<n[1], "rsync">> \in prereq[n]
<1>1. prereq[n] = normal[n] \union OrderOnly(n) /\ normal[n] \subseteq RealNode
  BY NormalIs
<1>2. n[2] \in DependsStep => Depends[n[1]][n[2]] \subseteq Pkg
  BY NodeIs, PkgAssumption
<1>3. ASSUME NEW d \in Pkg, NEW s PROVE DependsOn(d, s) \in RealNode
  <2>1. DependsOn(d, s) \in {<<d, "install">>, <<d, "rsync">>, <<d, "patch">>}
        /\ (DependsOn(d, s) = <<d, "rsync">> => d \in Override)
        /\ (DependsOn(d, s) = <<d, "patch">> => d \notin Override)
    BY DEF DependsOn
  <2> QED BY <2>1, NodeIs DEF StepsOf, Step
<1>4. n[1] \in Override => <<n[1], "rsync">> \in RealNode
  BY NodeIs DEF StepsOf, Step
<1> QED BY <1>1, <1>2, <1>3, <1>4 DEF OrderOnly

Waits ==
    outcome = "busy" =>
        /\ todo # <<>> => \A n \in RealNode : st[n] = "unseen"
        /\ \A n \in RealNode :
               /\ Through(n) => n \in Trusted
               /\ st[n] = "running" \/ Through(n) => Ready(n)
               /\ st[n] = "fresh" => n \in Trusted \/ MadeBelow(n)

\* Steps that only change what make knows, of one step.
LEMMA WaitsLooks ==
    ASSUME TypeOK, Waits, outcome = "busy", UNCHANGED <<outcome, todo, stamp, stale>>, todo = <<>>,
           NEW k \in RealNode, NEW v, st' = [st EXCEPT ![k] = v], ~Through(k), v # "made",
           v = "fresh" => k \in Trusted, v = "kept" => k \in Trusted, v \in {"running", "kept"} => Ready(k)
    PROVE  Waits'
<1>1. \A n \in RealNode : st'[n] = IF n = k THEN v ELSE st[n]
  BY DEF TypeOK
<1>2. \A n \in RealNode : prereq[n] \subseteq RealNode /\ normal[n] \subseteq RealNode
  BY PrereqIs, NormalIs
<1>3. \A n \in RealNode : (Through(n) => Through(n)') /\ (Ready(n) => Ready(n)')
  BY <1>1, <1>2 DEF Through, Ready
<1>4. \A n \in RealNode : MadeBelow(n) => MadeBelow(n)'
  BY <1>1, <1>2 DEF Through, MadeBelow
<1>5. ASSUME NEW n \in RealNode
      PROVE  /\ Through(n)' => n \in Trusted'
             /\ st'[n] = "running" \/ Through(n)' => Ready(n)'
             /\ st'[n] = "fresh" => n \in Trusted' \/ MadeBelow(n)'
  <2>1. CASE n = k BY <1>1, <1>3, <2>1 DEF Through, Trusted
  <2>2. CASE n # k BY <1>1, <1>3, <1>4, <2>2 DEF Waits, Through, Trusted
  <2> QED BY <2>1, <2>2
<1> QED BY <1>5 DEF Waits

LEMMA WaitsStep ==
    ASSUME Serial, TypeOK, Removes, Waits, [Next]_vars
    PROVE  Waits'
<1> USE DEF make, disk, sources
<1>1. CASE outcome' # "busy" BY <1>1 DEF Waits
<1>2. ASSUME \A n \in RealNode : st'[n] = "unseen" PROVE Waits'
  BY <1>2 DEF Waits, Through
<1>3. CASE Remove
  <2>1. \A n \in RealNode : st'[n] = "unseen"
    BY <1>3 DEF Remove, Waits
  <2> QED BY <1>2, <2>1
<1>4. CASE Unlink
  <2>1. \A n \in RealNode : st'[n] = "unseen"
    BY <1>4 DEF Unlink, Dircleaning, Removes
  <2> QED BY <1>2, <2>1
<1>5. ASSUME NEW n \in RealNode, Look(n) PROVE Waits'
  <2>1. outcome = "busy" /\ todo = <<>> /\ st[n] = "unseen" /\ UNCHANGED <<outcome, todo, stamp, stale>>
    BY <1>5 DEF Look, MayStart, Jobs, Serial, Removes
  <2>2. PICK v \in {"absent", "stale", "fresh"} :
            st' = [st EXCEPT ![n] = v] /\ (v = "fresh" => n \in Trusted)
    BY <1>5 DEF Look, Trusted
  <2> QED BY <2>1, <2>2, WaitsLooks DEF Through
<1>6. ASSUME NEW n \in RealNode, Keep(n) PROVE Waits'
  <2>1. /\ outcome = "busy" /\ st[n] = "fresh" /\ Ready(n) /\ ~MadeBelow(n)
        /\ st' = [st EXCEPT ![n] = "kept"] /\ UNCHANGED <<outcome, todo, stamp, stale>>
    BY <1>6 DEF Keep
  <2>2. todo = <<>> /\ n \in Trusted
    BY <2>1 DEF Waits
  <2> QED BY <2>1, <2>2, WaitsLooks DEF Through
<1>7. ASSUME NEW n \in RealNode, Start(n) PROVE Waits'
  <2>1. /\ outcome = "busy" /\ st[n] \in {"absent", "stale", "fresh"} /\ Ready(n)
        /\ st' = [st EXCEPT ![n] = "running"] /\ UNCHANGED <<outcome, todo, stamp, stale>>
    BY <1>7 DEF Start, MayStart
  <2>2. todo = <<>>
    BY <2>1 DEF Waits
  <2> QED BY <2>1, <2>2, WaitsLooks DEF Through
<1>8. ASSUME NEW n \in RealNode, st[n] = "running", outcome = "busy", st' = [st EXCEPT ![n] = "failed"],
             UNCHANGED <<outcome, todo, stamp, stale>>
      PROVE Waits'
  <2>1. todo = <<>>
    BY <1>8 DEF Waits
  <2> QED BY <1>8, <2>1, WaitsLooks DEF Through
<1>9. ASSUME NEW n \in RealNode, Finish(n) PROVE Waits'
  <2>1. outcome = "busy" /\ st[n] = "running" /\ UNCHANGED <<outcome, todo>>
    BY <1>9 DEF Finish
  <2>2. \A k \in RealNode : st'[k] = IF k = n THEN "made" ELSE st[k]
    BY <1>9 DEF Finish, TypeOK
  <2>3. /\ Trusted' = (Trusted \union {n}) \ {m \in stamp \ {n} : n \in normal[m]}
    BY <1>9 DEF Finish, Trusted, TypeOK
  <2>4. todo = <<>>
    BY <2>1 DEF Waits
  <2>5. \A k \in RealNode : prereq[k] \subseteq RealNode /\ normal[k] \subseteq prereq[k]
    BY PrereqIs, NormalIs
  <2>6. \A k \in RealNode : (Through(k) => Through(k)') /\ (Ready(k) => Ready(k)')
    BY <2>2, <2>5 DEF Through, Ready
  <2>7. \A k \in RealNode : MadeBelow(k) \/ n \in normal[k] => MadeBelow(k)'
    BY <2>2, <2>5 DEF MadeBelow
  <2>8. ASSUME NEW k \in RealNode
        PROVE  /\ Through(k)' => k \in Trusted'
               /\ st'[k] = "running" \/ Through(k)' => Ready(k)'
               /\ st'[k] = "fresh" => k \in Trusted' \/ MadeBelow(k)'
    <3>1. CASE k = n
      <4>1. Ready(n)' BY <2>1, <2>6 DEF Waits
      <4>2. n \in Trusted' BY <2>3
      <4> QED BY <2>2, <3>1, <4>1, <4>2
    <3>2. CASE k # n
      <4>1. st'[k] = st[k] /\ (Through(k)' <=> Through(k)) BY <2>2, <3>2 DEF Through
      <4>2. Through(k) => Ready(k) /\ k \in Trusted BY <2>1 DEF Waits
      <4>3. Through(k) => n \notin normal[k]
        BY <2>1, <2>5, <4>2 DEF Ready
      <4>4. Through(k)' => k \in Trusted'
        BY <2>3, <4>1, <4>2, <4>3
      <4>5. st'[k] = "running" \/ Through(k)' => Ready(k)'
        BY <2>1, <2>6, <4>1 DEF Waits
      <4>6. st'[k] = "fresh" => k \in Trusted' \/ MadeBelow(k)'
        BY <2>1, <2>3, <2>7, <4>1 DEF Waits
      <4> QED BY <4>4, <4>5, <4>6
    <3> QED BY <3>1, <3>2
  <2> QED BY <2>1, <2>4, <2>8 DEF Waits
<1>10. CASE UNCHANGED <<outcome, todo, st, stamp, stale>>
  BY <1>10 DEF Waits, Through, Ready, MadeBelow, Trusted
<1>11. ASSUME NEW p \in Pkg, Duplicate(p) PROVE Waits'
  <2>1. <<p, "patch">> \in RealNode
    BY <1>11, NodeIs DEF Duplicate, Patching, StepsOf, Step
  <2> QED BY <1>8, <1>11, <2>1 DEF Duplicate, Patching
<1>12. ASSUME NEW n \in RealNode, Fail(n) PROVE Waits'
  BY <1>8, <1>12 DEF Fail
<1>13. ASSUME NEW o \in Ops, NEW p \in Pkg, Make(o, p) PROVE Waits'
  BY <1>2, <1>13 DEF Make
<1> QED BY <1>1, <1>3, <1>4, <1>5, <1>6, <1>7, <1>9, <1>10, <1>11, <1>12, <1>13
    DEF Next, Work, vars, ListPatch, ApplyPatch, GiveUp, Done, Dirclean, Kill, EndMake

\* When make is through with the last step of a package, it is with all.
LEMMA WholeThrough ==
    ASSUME TypeOK, Waits, outcome = "busy", NEW p \in Pkg, Through(<<p, "install">>)
    PROVE  \A n \in NodesOf(p) : Through(n)
<1>0. ASSUME NEW s \in StepsOf(p), Through(<<p, s>>), NEW t \in Follows[s] \intersect StepsOf(p)
      PROVE  Through(<<p, t>>)
  <2>1. <<p, s>> \in RealNode
    BY NodeIs, PkgAssumption DEF StepsOf, Step
  <2>2. <<p, t>> \in prereq[<<p, s>>]
    BY <2>1, NormalIs
  <2> QED BY <1>0, <2>1, <2>2 DEF Waits, Ready, Through
<1>1. Through(<<p, "build">>) /\ \A s \in Installs[p] : Through(<<p, s>>)
  BY <1>0, PkgAssumption DEF StepsOf, Follows, InstallStep
<1>2. Through(<<p, "configure">>)
  BY <1>0, <1>1 DEF StepsOf, Follows
<1>3. CASE p \in Override
  <2>1. <<p, "configure">> \in RealNode
    BY NodeIs DEF StepsOf, Step
  <2>2. Through(<<p, "rsync">>)
    BY <1>2, <1>3, <2>1, PrereqIs DEF Waits, Ready, Through
  <2> QED BY <1>1, <1>2, <1>3, <2>2, NodeIs DEF NodesOf, StepsOf
<1>4. CASE p \notin Override
  <2>1. Through(<<p, "patch">>)
    BY <1>0, <1>2, <1>4 DEF StepsOf, Follows
  <2>2. Through(<<p, "extract">>)
    BY <1>0, <1>4, <2>1 DEF StepsOf, Follows
  <2>3. Through(<<p, "source">>)
    BY <1>0, <1>4, <2>2 DEF StepsOf, Follows
  <2> QED BY <1>1, <1>2, <1>4, <2>1, <2>2, <2>3, NodeIs DEF NodesOf, StepsOf
<1> QED BY <1>3, <1>4

LEMMA WaitingMeansFirst ==
    ASSUME TypeOK, StampsHonest, Waits
    PROVE  DepsInstalledFirst
<1> SUFFICES ASSUME outcome = "busy", NEW n \in Running
             PROVE  /\ n[2] \in {"source", "extract", "configure"} =>
                           \A d \in Depends[n[1]][n[2]] \ torn : Whole(d)
                    /\ n[2] = "patch" =>
                           \A d \in Depends[n[1]]["patch"] \ torn :
                               \E m \in {<<d, "patch">>, <<d, "rsync">>} : m \in stamp \intersect produced
                    /\ n[1] \notin torn =>
                           \A s \in Follows[n[2]] \intersect StepsOf(n[1]) :
                               <<n[1], s>> \in stamp \intersect produced
  BY DEF DepsInstalledFirst
<1>1. n \in RealNode /\ \A m \in prereq[n] : m \in RealNode /\ Through(m)
  BY PrereqIs DEF Running, Waits, Ready, Through
<1>2. \A m \in RealNode : Through(m) => m \in Trusted /\ (m[1] \notin torn => m \in produced)
  BY DEF Waits, StampsHonest, Trusted
<1>3. ASSUME n[2] \in {"source", "extract", "configure"}, NEW d \in Depends[n[1]][n[2]] \ torn
      PROVE  Whole(d)
  <2>1. n[2] # "patch" /\ n[2] \in DependsStep
    BY <1>3 DEF DependsStep
  <2>2. \A s : s # "patch" => DependsOn(d, s) = <<d, "install">>
    BY DEF DependsOn
  <2>3. d \in Pkg /\ <<d, "install">> \in prereq[n]
    BY <1>1, <1>3, <2>1, <2>2, PrereqIs
  <2>4. \A m \in NodesOf(d) : Through(m)
    BY <1>1, <2>3, WholeThrough
  <2> QED BY <1>2, <1>3, <2>4 DEF Whole, NodesOf, Trusted
<1>4. ASSUME n[2] = "patch", NEW d \in Depends[n[1]]["patch"] \ torn
      PROVE  \E m \in {<<d, "patch">>, <<d, "rsync">>} : m \in stamp \intersect produced
  <2>1. d \in Pkg /\ DependsOn(d, "patch") \in prereq[n]
    BY <1>1, <1>4, PrereqIs DEF DependsStep
  <2>2. DependsOn(d, "patch") \in {<<d, "patch">>, <<d, "rsync">>}
    BY DEF DependsOn
  <2>3. DependsOn(d, "patch")[1] = d
    BY <2>2
  <2> QED BY <1>1, <1>2, <1>4, <2>1, <2>2, <2>3 DEF Trusted
<1>5. ASSUME n[1] \notin torn, NEW s \in Follows[n[2]] \intersect StepsOf(n[1])
      PROVE  <<n[1], s>> \in stamp \intersect produced
  <2>1. <<n[1], s>> \in prereq[n]
    BY <1>1, NormalIs
  <2> QED BY <1>1, <1>2, <1>5, <2>1 DEF Trusted
<1> QED BY <1>3, <1>4, <1>5

\* While a step runs, what it continues and the packages it needs are complete,
\* in a parallel build of everything and in any serial one.
THEOREM DependenciesFirst ==
    ASSUME Serial
    PROVE  Spec => []DepsInstalledFirst
<1> DEFINE Inv == TypeOK /\ Knows /\ StampsHonest /\ Removes /\ Waits
<1>1. Init => Inv
  BY InitType DEF Init, Knows, StampsHonest, Removes, Waits
<1>2. Inv /\ [Next]_vars => Inv'
  BY StepType, KnowsStep, HonestStep, RemovesStep, WaitsStep
<1>3. Inv => DepsInstalledFirst
  BY WaitingMeansFirst
<1> HIDE DEF Inv
<1> QED BY <1>1, <1>2, <1>3, PTL DEF Spec

-----------------------------------------------------------------------------
\* Patches.

\* The list of applied patches, the sources and the running patch step agree;
\* while patches are listed the sources are not unpacked again.
PatchesOf(p) ==
    p \notin torn =>
        /\ applied[p] <= listed[p] /\ listed[p] <= NPatch[p]
        /\ listed[p] # 0 => {<<p, "source">>, <<p, "extract">>} \subseteq Trusted
        /\ <<p, "patch">> \in stamp => applied[p] = NPatch[p] /\ listed[p] = NPatch[p]
        /\ Patching(p) /\ hand[p] => listed[p] = next[p] + 1 /\ applied[p] = next[p]
        /\ Patching(p) /\ ~hand[p] =>
               next[p] <= listed[p] /\ (next[p] = listed[p] => applied[p] = listed[p])

Patches == \A p \in Pkg : PatchesOf(p)

\* Steps that have nothing to do with the patches of a package.
LEMMA PatchesQuiet ==
    ASSUME NEW p \in Pkg, PatchesOf(p), p \notin torn' => p \notin torn,
           p \notin torn' =>
               /\ applied'[p] = applied[p] /\ listed'[p] = listed[p]
               /\ <<p, "source">> \in Trusted => <<p, "source">> \in Trusted'
               /\ <<p, "extract">> \in Trusted => <<p, "extract">> \in Trusted'
               /\ <<p, "patch">> \in stamp' => <<p, "patch">> \in stamp,
           Patching(p)' => Patching(p) /\ next'[p] = next[p] /\ hand'[p] = hand[p]
    PROVE  PatchesOf(p)'
BY DEF PatchesOf

\* While the patch step of a package runs its sources are there, and stay.
LEMMA PatchingWaits ==
    ASSUME TypeOK, Waits, NEW p \in Pkg, Patching(p)
    PROVE  /\ {<<p, "source">>, <<p, "extract">>} \subseteq Trusted
           /\ st[<<p, "source">>] # "running" /\ st[<<p, "extract">>] # "running"
<1>1. /\ {<<p, "source">>, <<p, "extract">>, <<p, "patch">>} \subseteq RealNode
      /\ outcome = "busy" /\ st[<<p, "patch">>] = "running"
  BY NodeIs DEF Patching, StepsOf, Step
<1>2. <<p, "extract">> \in prereq[<<p, "patch">>] /\ <<p, "source">> \in prereq[<<p, "extract">>]
  <2>1. \A s \in {"source", "extract"} : s \in StepsOf(p)
    BY DEF Patching, StepsOf
  <2> QED BY <1>1, <2>1, NormalIs DEF Follows
<1>3. Through(<<p, "extract">>)
  BY <1>1, <1>2 DEF Waits, Ready, Through
<1>4. Through(<<p, "source">>)
  BY <1>1, <1>2, <1>3 DEF Waits, Ready, Through
<1> QED BY <1>1, <1>3, <1>4 DEF Waits, Through

LEMMA PatchesStart ==
    ASSUME TypeOK, NEW p \in Pkg, PatchesOf(p), NEW n \in RealNode, Start(n)
    PROVE  PatchesOf(p)'
<1> USE DEF make, disk, sources
<1>1. UNCHANGED <<torn, listed, applied, stamp, stale, outcome>>
  BY DEF Start
<1>2. \A k \in RealNode : st'[k] = IF k = n THEN "running" ELSE st[k]
  BY DEF Start, TypeOK
<1>3. CASE n = <<p, "patch">>
  <2>1. next'[p] = 0 /\ hand'[p] = FALSE
    BY <1>3 DEF Start, TypeOK
  <2>2. p \notin torn => 0 <= listed[p] /\ (0 = listed[p] => applied[p] = listed[p])
    BY DEF TypeOK, PatchesOf
  <2> QED BY <1>1, <2>1, <2>2 DEF PatchesOf, Trusted
<1>4. CASE n # <<p, "patch">>
  <2>1. ~(n[1] = p /\ n[2] = "patch")
    BY <1>4, NodeIs
  <2>2. next'[p] = next[p] /\ hand'[p] = hand[p]
    BY <2>1 DEF Start, TypeOK
  <2>3. Patching(p)' => Patching(p)
    BY <1>1, <1>2, <1>4, NodeIs DEF Patching, StepsOf, Step
  <2> QED BY <1>1, <2>2, <2>3, PatchesQuiet DEF Trusted
<1> QED BY <1>3, <1>4

LEMMA PatchesFinish ==
    ASSUME TypeOK, Knows, Waits, NEW p \in Pkg, PatchesOf(p), NEW n \in RealNode, Finish(n)
    PROVE  PatchesOf(p)'
<1> USE DEF make, disk, sources
<1>1. /\ outcome = "busy" /\ st[n] = "running" /\ n \notin Trusted
      /\ UNCHANGED <<torn, listed, next, hand, outcome>>
      /\ stamp' = stamp \union {n}
  BY DEF Finish, Knows
<1>2. \A k \in RealNode : st'[k] = IF k = n THEN "made" ELSE st[k]
  BY DEF Finish, TypeOK
<1>3. Patching(p)' => Patching(p)
  BY <1>1, <1>2, NodeIs DEF Patching, StepsOf, Step
<1>4. ASSUME NEW m \in Trusted, n \notin normal[m] PROVE m \in Trusted'
  BY <1>4 DEF Finish, Trusted, TypeOK
<1>5. ASSUME NEW s \in {"source", "extract"}, <<p, s>> \in Trusted, n # <<p, "source">>
      PROVE  <<p, s>> \in Trusted'
  <2>1. <<p, s>> \in RealNode
    BY <1>5 DEF Trusted, TypeOK
  <2>2. n \notin normal[<<p, s>>]
    BY <1>5, <2>1, NormalIs DEF Follows
  <2> QED BY <1>4, <1>5, <2>2
<1>6. CASE n \notin {<<p, "patch">>, <<p, "extract">>, <<p, "source">>}
  <2>1. applied'[p] = applied[p]
    <3>1. ~(n[1] = p /\ n[2] = "extract") BY <1>6, NodeIs
    <3> QED BY <3>1 DEF Finish, TypeOK
  <2> QED BY <1>1, <1>3, <1>5, <1>6, <2>1, PatchesQuiet
<1>7. CASE n = <<p, "patch">>
  <2>1. Patching(p) /\ ~hand[p] /\ next[p] = NPatch[p] /\ UNCHANGED applied
    <3>1. p \notin Override BY <1>7, NodeIs, PkgAssumption DEF StepsOf, InstallStep
    <3> QED BY <1>1, <1>7, <3>1 DEF Finish, Patching, TypeOK
  <2>2. p \notin torn => applied[p] = NPatch[p] /\ listed[p] = NPatch[p]
    BY <2>1, PkgAssumption DEF PatchesOf, TypeOK
  <2>3. ~Patching(p)'
    BY <1>2, <1>7 DEF Patching
  <2> QED BY <1>1, <1>5, <1>7, <2>1, <2>2, <2>3 DEF PatchesOf
<1>8. CASE n = <<p, "extract">>
  <2>1. ~Patching(p)
    BY <1>1, <1>8, PatchingWaits
  <2>2. p \notin torn => listed[p] = 0 /\ applied[p] = 0
    BY <1>1, <1>8 DEF PatchesOf, TypeOK
  <2>3. applied'[p] = 0
    BY <1>8 DEF Finish, TypeOK
  <2> QED BY <1>1, <1>3, <1>8, <2>1, <2>2, <2>3 DEF PatchesOf
<1>9. CASE n = <<p, "source">>
  <2>1. ~Patching(p)
    BY <1>1, <1>9, PatchingWaits
  <2>2. p \notin torn => listed[p] = 0
    BY <1>1, <1>9 DEF PatchesOf
  <2>3. applied' = applied
    BY <1>9 DEF Finish, TypeOK
  <2> QED BY <1>1, <1>3, <1>9, <2>1, <2>2, <2>3 DEF PatchesOf
<1> QED BY <1>6, <1>7, <1>8, <1>9

LEMMA PatchesApply ==
    ASSUME TypeOK, Waits, NEW p \in Pkg, PatchesOf(p), NEW q \in Pkg, ListPatch(q) \/ ApplyPatch(q)
    PROVE  PatchesOf(p)'
<1> USE DEF make, disk, sources
<1>1. UNCHANGED <<torn, stamp, stale, outcome, st>> /\ (Patching(p)' <=> Patching(p))
  BY DEF ListPatch, ApplyPatch, Patching
<1>2. CASE p # q
  <2>1. /\ applied'[p] = applied[p] /\ listed'[p] = listed[p]
        /\ next'[p] = next[p] /\ hand'[p] = hand[p]
    BY <1>2 DEF ListPatch, ApplyPatch, TypeOK
  <2> QED BY <1>1, <2>1, PatchesQuiet DEF Trusted
<1>3. CASE p = q /\ ListPatch(p)
  <2>1. /\ Patching(p) /\ ~hand[p] /\ next[p] = listed[p] /\ next[p] < NPatch[p]
        /\ listed'[p] = listed[p] + 1 /\ hand'[p] = TRUE /\ UNCHANGED <<next, applied>>
    BY <1>3 DEF ListPatch, TypeOK
  <2>2. {<<p, "source">>, <<p, "extract">>} \subseteq Trusted'
    BY <1>1, <2>1, PatchingWaits DEF Trusted
  <2>3. p \notin torn => applied[p] = listed[p] /\ <<p, "patch">> \notin stamp
    BY <2>1, PkgAssumption DEF PatchesOf, TypeOK
  <2>4. NPatch[p] \in Nat /\ listed[p] \in Nat /\ applied[p] \in Nat /\ next[p] \in Nat
    BY PkgAssumption DEF TypeOK
  <2> QED BY <1>1, <2>1, <2>2, <2>3, <2>4 DEF PatchesOf
<1>4. CASE p = q /\ ApplyPatch(p)
  <2>1. /\ Patching(p) /\ hand[p] /\ UNCHANGED listed
        /\ applied'[p] = applied[p] + 1 /\ next'[p] = next[p] + 1 /\ hand'[p] = FALSE
    BY <1>4 DEF ApplyPatch, TypeOK
  <2>2. NPatch[p] \in Nat /\ listed[p] \in Nat /\ applied[p] \in Nat /\ next[p] \in Nat
    BY PkgAssumption DEF TypeOK
  <2>3. p \notin torn => listed[p] = next[p] + 1 /\ applied[p] = next[p] /\ <<p, "patch">> \notin stamp
    BY <2>1, <2>2 DEF PatchesOf
  <2> QED BY <1>1, <2>1, <2>2, <2>3 DEF PatchesOf, Trusted
<1> QED BY <1>2, <1>3, <1>4

LEMMA PatchesStep ==
    ASSUME TypeOK, Knows, Removes, Waits, Patches, [Next]_vars
    PROVE  Patches'
<1> USE DEF make, disk, sources
<1> SUFFICES ASSUME NEW p \in Pkg PROVE PatchesOf(p)'
  BY DEF Patches
<1>0. PatchesOf(p) BY DEF Patches
<1>1. ASSUME UNCHANGED <<torn, applied, listed, next, hand, stamp, stale>>, Patching(p)' => Patching(p)
      PROVE  PatchesOf(p)'
  BY <1>0, <1>1, PatchesQuiet DEF Trusted
<1>2. CASE Remove
  <2>1. Head(todo)[2] \notin {"source", "extract", "patch"}
    BY <1>2, TailIs DEF Remove, Removes, TypeOK
  <2>2. Head(todo) \notin {<<p, "source">>, <<p, "extract">>}
    BY <2>1
  <2>3. <<p, "source">> \in Trusted => <<p, "source">> \in Trusted'
    BY <1>2, <2>2 DEF Remove, Trusted
  <2>4. <<p, "extract">> \in Trusted => <<p, "extract">> \in Trusted'
    BY <1>2, <2>2 DEF Remove, Trusted
  <2>5. UNCHANGED <<torn, applied, listed, next, hand>> /\ stamp' \subseteq stamp /\ Patching(p)' = Patching(p)
    BY <1>2 DEF Remove, Patching
  <2> QED BY <1>0, <2>3, <2>4, <2>5, PatchesQuiet
<1>3. CASE Unlink
  <2>1. torn' = torn \union {arg} /\ UNCHANGED <<applied, next, hand>> /\ Patching(p)' = Patching(p)
    BY <1>3 DEF Unlink, Patching
  <2>2. p # arg => listed'[p] = listed[p]
    BY <1>3 DEF Unlink, TypeOK
  <2>3. \A s : p # arg /\ <<p, s>> \in Trusted => <<p, s>> \in Trusted'
    BY <1>3 DEF Unlink, Trusted, NodesOf
  <2>4. stamp' \subseteq stamp
    BY <1>3 DEF Unlink
  <2> QED BY <1>0, <2>1, <2>2, <2>3, <2>4, PatchesQuiet
<1>4. CASE Dirclean
  <2>1. ~Patching(p)' /\ torn' = torn \ {arg} /\ UNCHANGED <<stamp, stale, next, hand, listed>>
    BY <1>4 DEF Dirclean, EndMake, Patching
  <2>2. CASE p = arg
    <3>1. listed[p] = 0 /\ applied'[p] = 0
      BY <1>4, <2>2 DEF Dirclean, TypeOK
    <3>2. <<p, "patch">> \notin stamp
      BY <1>4, <2>2 DEF Dirclean, NodesOf, TypeOK
    <3>3. NPatch[p] \in Nat
      BY PkgAssumption
    <3> QED BY <2>1, <3>1, <3>2, <3>3 DEF PatchesOf
  <2>3. CASE p # arg
    <3>1. applied'[p] = applied[p]
      BY <1>4, <2>3 DEF Dirclean, TypeOK
    <3> QED BY <1>0, <2>1, <2>3, <3>1, PatchesQuiet DEF Trusted
  <2> QED BY <2>2, <2>3
<1>5. ASSUME NEW n \in RealNode, Look(n) \/ Keep(n) \/ Fail(n) PROVE PatchesOf(p)'
  <2>1. UNCHANGED <<torn, applied, listed, next, hand, stamp, stale, outcome>>
    BY <1>5 DEF Look, Keep, Fail
  <2>2. \A k \in RealNode : st'[k] = "running" => st[k] = "running"
    BY <1>5 DEF Look, Keep, Fail, TypeOK
  <2> QED BY <1>1, <2>1, <2>2, NodeIs DEF Patching, StepsOf, Step
<1>6. ASSUME NEW q \in Pkg, Duplicate(q) PROVE PatchesOf(p)'
  <2>1. UNCHANGED <<torn, applied, listed, next, hand, stamp, stale, outcome>>
    BY <1>6 DEF Duplicate
  <2>2. \A k \in RealNode : st'[k] = "running" => st[k] = "running"
    BY <1>6 DEF Duplicate, TypeOK
  <2> QED BY <1>1, <2>1, <2>2, NodeIs DEF Patching, StepsOf, Step
<1>7. ASSUME NEW n \in RealNode, Start(n) PROVE PatchesOf(p)'
  BY <1>0, <1>7, PatchesStart
<1>8. ASSUME NEW n \in RealNode, Finish(n) PROVE PatchesOf(p)'
  BY <1>0, <1>8, PatchesFinish
<1>9. ASSUME NEW q \in Pkg, ListPatch(q) \/ ApplyPatch(q) PROVE PatchesOf(p)'
  BY <1>0, <1>9, PatchesApply
<1>10. CASE GiveUp \/ Done \/ Kill
  BY <1>1, <1>10 DEF GiveUp, Done, Kill, EndMake, Patching
<1>11. ASSUME NEW o \in Ops, NEW q \in Pkg, Make(o, q) PROVE PatchesOf(p)'
  <2>1. UNCHANGED <<torn, applied, listed, next, hand, stamp, stale>>
    BY <1>11 DEF Make
  <2>2. \A k \in RealNode : st'[k] # "running"
    BY <1>11 DEF Make
  <2> QED BY <1>1, <2>1, <2>2, NodeIs DEF Patching, StepsOf, Step
<1>12. CASE UNCHANGED vars BY <1>1, <1>12 DEF vars, Patching
<1> QED BY <1>2, <1>3, <1>4, <1>5, <1>6, <1>7, <1>8, <1>9, <1>10, <1>11, <1>12 DEF Next, Work

LEMMA InitPatches == Init => Patches
<1> SUFFICES ASSUME Init, NEW p \in Pkg PROVE PatchesOf(p)
  BY DEF Patches
<1>1. applied[p] = 0 /\ listed[p] = 0 /\ stamp = {} /\ ~Patching(p) /\ NPatch[p] \in Nat
  BY PkgAssumption DEF Init, Patching
<1> QED BY <1>1 DEF PatchesOf

\* Whatever was cut short, a source tree with the stamp of its patch step has
\* each patch once, and no tree has a patch twice.
THEOREM PatchesOnce ==
    ASSUME Serial
    PROVE  Spec => []PatchedOnce
<1> DEFINE Inv == TypeOK /\ Knows /\ Removes /\ Waits /\ Patches
<1>1. Init => Inv
  BY InitType, InitPatches DEF Init, Knows, Removes, Waits
<1>2. Inv /\ [Next]_vars => Inv'
  BY StepType, KnowsStep, RemovesStep, WaitsStep, PatchesStep
<1>3. Inv => PatchedOnce
  <2> SUFFICES ASSUME Inv, NEW p \in Pkg \ torn
               PROVE  applied[p] <= NPatch[p] /\ (<<p, "patch">> \in stamp => applied[p] = NPatch[p])
    BY DEF PatchedOnce
  <2>1. PatchesOf(p) BY DEF Patches
  <2>2. applied[p] \in Nat /\ listed[p] \in Nat /\ NPatch[p] \in Nat
    BY PkgAssumption DEF TypeOK
  <2> QED BY <2>1, <2>2 DEF PatchesOf
<1> HIDE DEF Inv
<1> QED BY <1>1, <1>2, <1>3, PTL DEF Spec

-----------------------------------------------------------------------------
\* What a command is documented to do.

\* A step to run again has its stamp still to be removed, or has no stamp, or
\* was made.
Again ==
    outcome = "busy" =>
        \A n \in Documented(op, arg) :
            (\E i \in 1..Len(todo) : todo[i] = n) \/ n \notin stamp \/ st[n] = "made"

LEMMA AgainStep ==
    ASSUME TypeOK, Removes, Again, [Next]_vars
    PROVE  Again'
<1> USE DEF make, disk, sources
<1>1. CASE outcome' # "busy" BY <1>1 DEF Again
<1>2. ASSUME NEW o \in Ops, NEW p \in Pkg, Make(o, p) PROVE Again'
  <2>1. op' = o /\ arg' = p /\ todo' = removed[o][p]
    BY <1>2 DEF Make
  <2>2. \A n \in Documented(o, p) : \E i \in 1..Len(removed[o][p]) : removed[o][p][i] = n
    BY RemovedIs, PkgAssumption
  <2>3. Documented(op, arg)' = Documented(o, p)
    BY <2>1 DEF Documented
  <2> QED BY <2>1, <2>2, <2>3 DEF Again
<1>3. ASSUME UNCHANGED <<op, arg, outcome, todo>>,
             \A n \in RealNode : n \in stamp' => n \in stamp \/ st'[n] = "made",
             \A n \in RealNode : st[n] = "made" => st'[n] = "made"
      PROVE  Again'
  <2>1. Documented(op, arg)' = Documented(op, arg) /\ Documented(op, arg) \subseteq RealNode
    BY <1>3 DEF Documented, NodesOf
  <2> QED BY <1>3, <2>1 DEF Again
<1>4. CASE Remove
  <2>1. /\ UNCHANGED <<op, arg, outcome, st>> /\ outcome = "busy"
        /\ stamp' = stamp \ {Head(todo)} /\ Head(todo) = todo[1]
        /\ \A i \in 1..Len(todo) : i # 1 => i - 1 \in 1..Len(todo') /\ todo'[i - 1] = todo[i]
    BY <1>4, TailIs DEF Remove, TypeOK
  <2>2. Documented(op, arg)' = Documented(op, arg)
    BY <2>1 DEF Documented
  <2>3. ASSUME NEW n \in Documented(op, arg)
        PROVE  (\E i \in 1..Len(todo') : todo'[i] = n) \/ n \notin stamp' \/ st'[n] = "made"
    <3>1. CASE \E i \in 1..Len(todo) : todo[i] = n
      <4>1. PICK i \in 1..Len(todo) : todo[i] = n BY <3>1
      <4>2. CASE i = 1 BY <2>1, <4>1, <4>2
      <4>3. CASE i # 1 BY <2>1, <4>1, <4>3
      <4> QED BY <4>2, <4>3
    <3>2. CASE n \notin stamp \/ st[n] = "made" BY <2>1, <3>2
    <3> QED BY <2>1, <3>1, <3>2 DEF Again
  <2> QED BY <2>2, <2>3 DEF Again
<1>5. ASSUME NEW n \in RealNode, Look(n) \/ Keep(n) \/ Start(n) \/ Finish(n) \/ Fail(n) PROVE Again'
  <2>1. UNCHANGED <<op, arg, outcome, todo>>
    BY <1>5 DEF Look, Keep, Start, Finish, Fail
  <2>2. \A k \in RealNode : st[k] = "made" => st'[k] = "made"
    BY <1>5 DEF Look, Keep, Start, Finish, Fail, TypeOK
  <2>3. stamp' = stamp \/ (stamp' = stamp \union {n} /\ st'[n] = "made")
    BY <1>5 DEF Look, Keep, Start, Finish, Fail, TypeOK
  <2> QED BY <1>3, <2>1, <2>2, <2>3
<1>6. ASSUME NEW p \in Pkg, ListPatch(p) \/ ApplyPatch(p) \/ Duplicate(p) PROVE Again'
  <2>1. UNCHANGED <<op, arg, outcome, todo, stamp>>
    BY <1>6 DEF ListPatch, ApplyPatch, Duplicate
  <2>2. \A k \in RealNode : st[k] = "made" => st'[k] = "made"
    BY <1>6 DEF ListPatch, ApplyPatch, Duplicate, Patching, TypeOK
  <2> QED BY <1>3, <2>1, <2>2
<1>7. CASE Unlink
  <2>1. UNCHANGED <<op, arg, outcome, todo, st>> /\ stamp' \subseteq stamp
    BY <1>7 DEF Unlink
  <2> QED BY <1>3, <2>1
<1>8. CASE UNCHANGED vars BY <1>3, <1>8 DEF vars
<1> QED BY <1>1, <1>2, <1>4, <1>5, <1>6, <1>7, <1>8 DEF Next, Work, GiveUp, Done, Dirclean, Kill, EndMake

\* When make is done, so is what it was asked for.
LEMMA DoneMeansInstalled ==
    ASSUME TypeOK, StampsHonest, Waits, Again, Done
    PROVE  DoesWhatItSays'
<1> USE DEF make, disk, sources
<1>1. /\ outcome = "busy" /\ op # "dirclean" /\ todo = <<>> /\ \A n \in Goals : Through(n)
      /\ UNCHANGED <<op, arg, st, stamp, stale, produced, torn>>
  BY DEF Done, EndMake, Through
<1>2. \A n \in RealNode : Through(n) => n \in Trusted /\ (n[1] \notin torn => n \in produced)
  BY <1>1 DEF Waits, StampsHonest, Trusted
<1>3. ASSUME NEW p \in Pkg, <<p, "install">> \in Goals
      PROVE  \A n \in NodesOf(p) : n \in Trusted /\ (p \notin torn => n \in produced)
  <2>1. \A n \in NodesOf(p) : Through(n)
    BY <1>1, <1>3, WholeThrough
  <2> QED BY <1>2, <2>1 DEF NodesOf
<1>4. arg \in Pkg BY DEF TypeOK
<1>5. op = "all" => \A n \in RealNode : n[1] \notin torn => n \in Trusted \intersect produced
  <2> SUFFICES ASSUME op = "all", NEW n \in RealNode, n[1] \notin torn
               PROVE  n \in Trusted \intersect produced
    OBVIOUS
  <2>1. n[1] \in Pkg /\ <<n[1], "install">> \in Goals /\ n \in NodesOf(n[1])
    BY NodeIs DEF Goals, NodesOf
  <2> QED BY <1>3, <2>1
<1>6. op # "all" => \A n \in NodesOf(arg) : n \in Trusted /\ (arg \notin torn => n \in produced)
  <2>1. op # "all" => <<arg, "install">> \in Goals
    BY <1>1 DEF Goals
  <2> QED BY <1>3, <1>4, <2>1
<1>7. \A n \in Documented(op, arg) : st[n] = "made"
  <2> SUFFICES ASSUME NEW n \in Documented(op, arg) PROVE st[n] = "made"
    OBVIOUS
  <2>1. n \in NodesOf(arg) /\ op # "all"
    BY DEF Documented
  <2>2. n \in stamp
    BY <1>6, <2>1 DEF Trusted
  <2> QED BY <1>1, <2>2 DEF Again
<1>8. Documented(op, arg)' = Documented(op, arg) /\ NodesOf(arg)' = NodesOf(arg)
  BY <1>1 DEF Documented, NodesOf
<1> QED BY <1>1, <1>5, <1>6, <1>7, <1>8 DEF DoesWhatItSays, SuccessMeansInstalled, Trusted

LEMMA SaysStep ==
    ASSUME TypeOK, StampsHonest, Waits, Again, DoesWhatItSays, [Next]_vars
    PROVE  DoesWhatItSays'
<1> USE DEF make, disk, sources
<1>1. CASE outcome' # "ok"
  BY <1>1 DEF DoesWhatItSays, SuccessMeansInstalled
<1>2. CASE Done BY <1>2, DoneMeansInstalled
<1>3. CASE Dirclean
  <2>1. op' = "dirclean"
    BY <1>3 DEF Dirclean, Dircleaning, EndMake
  <2> QED BY <2>1 DEF DoesWhatItSays, SuccessMeansInstalled, Documented
<1>4. CASE UNCHANGED vars
  BY <1>4 DEF vars, DoesWhatItSays, SuccessMeansInstalled, Documented, NodesOf
<1>5. outcome' # "ok" \/ Done \/ Dirclean \/ UNCHANGED vars
  BY DEF Next, Work, Remove, GiveUp, Kill, Unlink, Dircleaning, Look, Keep, Start, MayStart, Finish,
         ListPatch, ApplyPatch, Duplicate, Patching, Fail, Make, EndMake
<1> QED BY <1>1, <1>2, <1>3, <1>4, <1>5

\* A command that succeeds ran every step it is documented to run again, and
\* left what it was asked for installed and up to date.
THEOREM CommandsKeepTheirWord ==
    ASSUME Serial
    PROVE  Spec => []DoesWhatItSays
<1> DEFINE Inv == TypeOK /\ Knows /\ StampsHonest /\ Removes /\ Waits /\ Again /\ DoesWhatItSays
<1>1. Init => Inv
  BY InitType
     DEF Init, Knows, StampsHonest, Removes, Waits, Again, DoesWhatItSays, SuccessMeansInstalled
<1>2. Inv /\ [Next]_vars => Inv'
  BY StepType, KnowsStep, HonestStep, RemovesStep, WaitsStep, AgainStep, SaysStep
<1>3. Inv => DoesWhatItSays
  OBVIOUS
<1> HIDE DEF Inv
<1> QED BY <1>1, <1>2, <1>3, PTL DEF Spec
=============================================================================
