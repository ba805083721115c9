-------------------------- MODULE DlWrapper_proofs --------------------------
(***************************************************************************)
(* Proofs about support/download/dl-wrapper, for any clients, contents,    *)
(* .hash files, number of locations and bounds.  IndInv (in DlWrapper) is  *)
(* shown inductive action by action, and the safety properties follow.     *)
(***************************************************************************)
EXTENDS DlWrapper, TLAPS

USE DataAssumption, BoundAssumption

(***************************************************************************)
(* Every action has the right types.  The actions are expanded one by one. *)
(***************************************************************************)
\* The type invariant holds initially and is kept by every step of a run.
LEMMA TypeStep == ASSUME TypeOK, NEW c \in Client, Start(c) \/ Step(c) \/ Kill(c)
                  PROVE  TypeOK'
<1> USE DEF TypeOK, Content, Ended, Failed, Running, Holding, Fetching
<1>1. CASE Start(c) BY <1>1 DEF Start
<1>2. CASE Acquire(c) BY <1>2 DEF Acquire, Goto
<1>3. CASE Legacy(c) BY <1>3 DEF Legacy, Goto
<1>4. CASE Copy(c) BY <1>4 DEF Copy, Goto
<1>5. CASE CheckExisting(c) BY <1>5 DEF CheckExisting, Goto
<1>6. CASE NextUri(c) BY <1>6 DEF NextUri, End, LeftBehind
<1>7. CASE Fetch(c) BY <1>7 DEF Fetch, GiveUp, Goto
<1>8. CASE PostProcess(c) BY <1>8 DEF PostProcess, GiveUp, Goto
<1>9. CASE Verify(c) BY <1>9 DEF Verify, GiveUp, Goto
<1>10. CASE MkOutput(c) BY <1>10 DEF MkOutput, Goto
<1>11. CASE Cat(c) BY <1>11 DEF Cat, Abort, Goto
<1>12. CASE RemoveTmpd(c) BY <1>12 DEF RemoveTmpd, Goto
<1>13. CASE Rename(c) BY <1>13 DEF Rename, Abort, Goto
<1>14. CASE Exit(c) BY <1>14 DEF Exit, End, LeftBehind
<1>15. CASE Kill(c) BY <1>15 DEF Kill, End, LeftBehind
<1>16. CASE SetMode(c) BY <1>16 DEF SetMode, Goto
<1>17. CASE Stop(c) BY <1>17 DEF Stop, End, LeftBehind
<1> QED BY <1>1, <1>2, <1>3, <1>4, <1>5, <1>6, <1>7, <1>8, <1>9, <1>10,
           <1>11, <1>12, <1>13, <1>14, <1>15, <1>16, <1>17 DEF Step

\* The types of all variables are respected in every reachable state.
THEOREM TypeCorrect == Spec => []TypeOK
<1>1. Init => TypeOK
  BY DEF Init, TypeOK, Content, Ended, Failed, Running
<1>2. TypeOK /\ [Next]_vars => TypeOK'
  <2> SUFFICES ASSUME TypeOK, [Next]_vars PROVE TypeOK'
    OBVIOUS
  <2>1. CASE Next BY <2>1, TypeStep DEF Next
  <2>2. CASE UNCHANGED vars BY <2>2 DEF TypeOK, vars
  <2> QED BY <2>1, <2>2
<1> QED BY <1>1, <1>2, PTL DEF Spec

(***************************************************************************)
(* The inductive invariant.  What each of its parts needs of the others:   *)
(*   - LockInv tells that two clients are never both inside the script,    *)
(*     so the step of one leaves what PublishInv says of the other alone;  *)
(*   - PublishInv tells that a rename only happens over an absent file;    *)
(*   - CopyInv tells the same of a copy that completes in place.           *)
(***************************************************************************)
\* The flock excludes: kept by every step.
LEMMA LockStep == ASSUME TypeOK, LockInv, NEW c \in Client,
                         Start(c) \/ Step(c) \/ Kill(c)
                  PROVE  LockInv'
<1> USE DEF TypeOK, LockInv, Content, Ended, Failed, Running, Holding, Fetching
<1>1. CASE Start(c) BY <1>1 DEF Start
<1>2. CASE Acquire(c) BY <1>2 DEF Acquire, Goto
<1>3. CASE Legacy(c) BY <1>3 DEF Legacy, Goto
<1>4. CASE Copy(c) BY <1>4 DEF Copy, Goto
<1>5. CASE CheckExisting(c) BY <1>5 DEF CheckExisting, Goto
<1>6. CASE NextUri(c) BY <1>6 DEF NextUri, End, LeftBehind
<1>7. CASE Fetch(c) BY <1>7 DEF Fetch, GiveUp, Goto
<1>8. CASE PostProcess(c) BY <1>8 DEF PostProcess, GiveUp, Goto
<1>9. CASE Verify(c) BY <1>9 DEF Verify, GiveUp, Goto
<1>10. CASE MkOutput(c) BY <1>10 DEF MkOutput, Goto
<1>11. CASE Cat(c) BY <1>11 DEF Cat, Abort, Goto
<1>12. CASE RemoveTmpd(c) BY <1>12 DEF RemoveTmpd, Goto
<1>13. CASE Rename(c) BY <1>13 DEF Rename, Abort, Goto
<1>14. CASE Exit(c) BY <1>14 DEF Exit, End, LeftBehind
<1>15. CASE Kill(c) BY <1>15 DEF Kill, End, LeftBehind
<1>16. CASE SetMode(c) BY <1>16 DEF SetMode, Goto
<1>17. CASE Stop(c) BY <1>17 DEF Stop, End, LeftBehind
<1> QED BY <1>1, <1>2, <1>3, <1>4, <1>5, <1>6, <1>7, <1>8, <1>9, <1>10,
           <1>11, <1>12, <1>13, <1>14, <1>15, <1>16, <1>17 DEF Step

\* The rest of the invariant, for each action.
LEMMA SafetyStep == ASSUME IndInv, NEW c \in Client,
                           Start(c) \/ Step(c) \/ Kill(c)
                    PROVE  PublishInv' /\ CopyInv' /\ NeverPartial' /\ ReadyToExtract'
<1> USE DEF IndInv, TypeOK, LockInv, PublishInv, CopyInv, NeverPartial, ReadyToExtract,
            AtomicLegacy, Checked, CheckHash, Content, Ended, Failed, Running, Holding, Fetching
<1>1. CASE Start(c) BY <1>1 DEF Start
<1>2. CASE Acquire(c) BY <1>2 DEF Acquire, Goto
<1>3. CASE Legacy(c) BY <1>3 DEF Legacy, Goto
<1>4. CASE Copy(c) BY <1>4 DEF Copy, Goto
<1>5. CASE CheckExisting(c) BY <1>5 DEF CheckExisting, Goto
<1>6. CASE NextUri(c) BY <1>6 DEF NextUri, End, LeftBehind
<1>7. CASE Fetch(c) BY <1>7 DEF Fetch, GiveUp, Goto
<1>8. CASE PostProcess(c) BY <1>8 DEF PostProcess, GiveUp, Goto
<1>9. CASE Verify(c) BY <1>9 DEF Verify, GiveUp, Goto
<1>10. CASE MkOutput(c) BY <1>10 DEF MkOutput, Goto
<1>11. CASE Cat(c) BY <1>11 DEF Cat, Abort, Goto
<1>12. CASE RemoveTmpd(c) BY <1>12 DEF RemoveTmpd, Goto
<1>13. CASE Rename(c) BY <1>13 DEF Rename, Abort, Goto
<1>14. CASE Exit(c) BY <1>14 DEF Exit, End, LeftBehind
<1>15. CASE Kill(c) BY <1>15 DEF Kill, End, LeftBehind
<1>16. CASE SetMode(c) BY <1>16 DEF SetMode, Goto
<1>17. CASE Stop(c) BY <1>17 DEF Stop, End, LeftBehind
<1> QED BY <1>1, <1>2, <1>3, <1>4, <1>5, <1>6, <1>7, <1>8, <1>9, <1>10,
           <1>11, <1>12, <1>13, <1>14, <1>15, <1>16, <1>17 DEF Step

\* The inductive invariant holds in every reachable state.
THEOREM Invariance == Spec => []IndInv
<1>1. Init => IndInv
  BY DEF Init, IndInv, TypeOK, LockInv, PublishInv, CopyInv, NeverPartial,
         ReadyToExtract, Content, Ended, Failed, Running, Holding, Fetching
<1>2. IndInv /\ [Next]_vars => IndInv'
  <2> SUFFICES ASSUME IndInv, [Next]_vars PROVE IndInv'
    OBVIOUS
  <2>1. CASE Next
    <3>1. PICK c \in Client : Start(c) \/ Step(c) \/ Kill(c)
      BY <2>1 DEF Next
    <3> QED BY <3>1, TypeStep, LockStep, SafetyStep DEF IndInv
  <2>2. CASE UNCHANGED vars
    BY <2>2 DEF IndInv, TypeOK, LockInv, PublishInv, CopyInv, NeverPartial,
                ReadyToExtract, AtomicLegacy, Checked, CheckHash, vars
  <2> QED BY <2>1, <2>2
<1> QED BY <1>1, <1>2, PTL DEF Spec

\* No file is ever seen half-written when the legacy file can be hard-linked.
THEOREM Atomicity == Spec => []NeverPartial
BY Invariance, PTL DEF IndInv

\* With the same hashes everywhere, whoever was told "ok" finds a good file
\* at any later time, outside of the lock.
THEOREM Extractable == Spec => []ReadyToExtract
BY Invariance, PTL DEF IndInv

\* Who downloads is alone, and has no file to lose.
THEOREM FetchAlone == Spec => []FetchOnlyIfAbsent
<1>1. IndInv => FetchOnlyIfAbsent
  BY DEF IndInv, LockInv, PublishInv, FetchOnlyIfAbsent, Fetching, Holding
<1> QED BY <1>1, Invariance, PTL

\* Only a run that was killed or that set -e stopped leaves something in
\* BR2_DL_DIR: the temporary file exists between mktemp and mv, where the
\* failures the script tests remove it before the run exits.
THEOREM NoLitter == Spec => []DlDirClean
<1>1. Init => DlDirClean BY DEF Init, DlDirClean
<1>2. IndInv /\ DlDirClean /\ [Next]_vars => DlDirClean'
  <2> SUFFICES ASSUME IndInv, DlDirClean, [Next]_vars PROVE DlDirClean'
    OBVIOUS
  <2> USE DEF DlDirClean
  <2>1. CASE UNCHANGED vars BY <2>1 DEF vars
  <2>2. CASE Next
    <3>1. PICK c \in Client : Start(c) \/ Step(c) \/ Kill(c)
      BY <2>2 DEF Next
    <3>2. CASE UNCHANGED clutter BY <3>2
    <3>3. ASSUME NEW how \in {"stopped", "killed"}, End(c, how) PROVE DlDirClean'
      BY <3>3 DEF End, LeftBehind, IndInv, TypeOK
    <3>4. ASSUME NEW how, End(c, how), tmpo[c] = Absent PROVE DlDirClean'
      BY <3>4 DEF End, LeftBehind, IndInv, TypeOK
    <3>5. CASE NextUri(c)
      BY <3>2, <3>4, <3>5 DEF NextUri, IndInv, PublishInv
    <3>6. CASE Exit(c)
      BY <3>4, <3>6 DEF Exit, IndInv, PublishInv
    <3>7. CASE Stop(c) BY <3>3, <3>7 DEF Stop
    <3>8. CASE Kill(c) BY <3>3, <3>8 DEF Kill
    <3> QED
      BY <3>1, <3>2, <3>5, <3>6, <3>7, <3>8
         DEF Step, Start, Acquire, Legacy, Copy, CheckExisting, Fetch, PostProcess,
             Verify, MkOutput, SetMode, Cat, RemoveTmpd, Rename
  <2> QED BY <2>1, <2>2
<1> QED BY <1>1, <1>2, Invariance, PTL DEF Spec

(***************************************************************************)
(* What a step may never do.                                               *)
(***************************************************************************)
\* Success is only reported over a file the client's hashes accept.
THEOREM Verified == Spec => OkOnlyIfVerified
<1> DEFINE A == \A c \in Client :
          pc[c] # "ok" /\ pc'[c] = "ok" => out # Absent /\ CheckHash(c, out) = 0
<1>1. IndInv /\ [Next]_vars => A
  <2> SUFFICES ASSUME IndInv, [Next]_vars, NEW d \in Client,
                      pc[d] # "ok", pc'[d] = "ok"
               PROVE  out # Absent /\ CheckHash(d, out) = 0
    OBVIOUS
  <2>1. CASE UNCHANGED vars BY <2>1 DEF vars
  <2>2. CASE Next
    <3>1. PICK c \in Client : Start(c) \/ Step(c) \/ Kill(c)
      BY <2>2 DEF Next
    <3>2. pc[d] = "exit" /\ rc[d] = 0
      BY <3>1 DEF IndInv, TypeOK, Step, Start, Acquire, Legacy, Copy, CheckExisting,
                  NextUri, Fetch, PostProcess, Verify, MkOutput, SetMode, Cat,
                  RemoveTmpd, Rename, Exit, Stop, Kill, End, Abort, GiveUp, Goto
    <3> QED BY <3>2 DEF IndInv, PublishInv
  <2> QED BY <2>1, <2>2
<1> QED BY <1>1, Invariance, PTL DEF Spec, OkOnlyIfVerified

\* A whole file that no .hash file rejects is never removed or replaced.
THEOREM Kept == Spec => KeptUnlessRejected
<1> DEFINE A == (out \in Data /\ \A c \in Client : CheckHash(c, out) # 2) => out' = out
<1>1. IndInv /\ [Next]_vars => A
  <2> SUFFICES ASSUME IndInv, [Next]_vars,
                      out \in Data, \A c \in Client : CheckHash(c, out) # 2
               PROVE  out' = out
    OBVIOUS
  <2>1. CASE UNCHANGED vars BY <2>1 DEF vars
  <2>2. CASE Next
    <3>1. PICK c \in Client : Start(c) \/ Step(c) \/ Kill(c)
      BY <2>2 DEF Next
    <3>2. pc[c] \notin Fetching \union {"copy"}
      BY DEF IndInv, PublishInv, CopyInv
    <3> QED
      BY <3>1, <3>2 DEF Fetching, Step, Start, Acquire, Legacy, Copy, CheckExisting,
                  NextUri, Fetch, PostProcess, Verify, MkOutput, SetMode, Cat,
                  RemoveTmpd, Rename, Exit, Stop, Kill, End, Abort, GiveUp, Goto
  <2> QED BY <2>1, <2>2
<1> QED BY <1>1, Invariance, PTL DEF Spec, KeptUnlessRejected

(***************************************************************************)
(* Under hard links the wrapper implements the abstract store.             *)
(***************************************************************************)
\* What a client of the store has been answered, as the refinement maps it.
Answer(p) == CASE p = "idle"   -> "none"
               [] p = "ok"     -> "ok"
               [] p \in Failed -> "failed"
               [] OTHER        -> "asking"

\* A step of c that keeps it running leaves all answers alone; one that starts
\* or ends a run changes the answer of c only.
LEMMA AnswerStep ==
    ASSUME TypeOK, NEW c \in Client, NEW p, pc' = [pc EXCEPT ![c] = p]
    PROVE  [d \in Client |-> Answer(pc'[d])]
             = [[d \in Client |-> Answer(pc[d])] EXCEPT ![c] = Answer(p)]
BY DEF TypeOK

\* Every step of the script is a step of the store, or does not show.
LEMMA StoreStep == ASSUME LinkWorks, IndInv, NEW c \in Client,
                          Start(c) \/ Step(c) \/ Kill(c)
                   PROVE  [Store!Next]_(Store!vars)
<1> DEFINE ans == [d \in Client |-> Answer(pc[d])]
<1>a. TypeOK /\ out # Partial /\ pc[c] # "copy"
  BY DEF IndInv, NeverPartial, AtomicLegacy, CopyInv
<1>b. ASSUME NEW p, pc' = [pc EXCEPT ![c] = p]
      PROVE  ans' = [ans EXCEPT ![c] = Answer(p)]
  BY <1>a, <1>b, AnswerStep
<1>c. ASSUME NEW p \in Running, pc' = [pc EXCEPT ![c] = p], pc[c] \in Running
      PROVE  ans' = ans
  BY <1>a, <1>b, <1>c DEF Answer, Failed, Running, Holding, Fetching, TypeOK
<1>d. ASSUME pc[c] \in Running PROVE ans[c] = "asking"
  BY <1>d DEF Answer, Failed, Running, Holding, Fetching
<1>e. ASSUME NEW p \in Failed, pc[c] \in Running,
             pc' = [pc EXCEPT ![c] = p], UNCHANGED <<out, old, hash>>
      PROVE  Store!Refuse(c)
  BY <1>b, <1>d, <1>e DEF Store!Refuse, Answer, Failed
<1> USE <1>a DEF Failed, Running, Holding, Fetching
<1>1. CASE Start(c)
  <2>1. ans[c] # "asking" BY <1>1 DEF Start, Ended, Answer
  <2>2. ans' = [ans EXCEPT ![c] = Answer("lock")] BY <1>1, <1>b DEF Start
  <2>3. Answer("lock") = "asking" BY DEF Answer
  <2>4. Store!Ask(c)
    BY <1>1, <2>1, <2>2, <2>3 DEF Start, Store!Ask, Answer
  <2> QED BY <2>4 DEF Store!Next
<1>2. CASE Acquire(c) BY <1>2, <1>c DEF Acquire, Goto, Store!vars, Answer
<1>3. CASE Legacy(c)
  <2>1. ans' = ans BY <1>3, <1>c DEF Legacy, Goto
  <2>2. CASE out = Absent /\ old # Absent
    <3>1. Store!Migrate(c)
      BY <1>3, <1>d, <2>1, <2>2 DEF Legacy, Goto, Store!Migrate, Answer
    <3> QED BY <3>1 DEF Store!Next
  <2>3. CASE ~(out = Absent /\ old # Absent)
    BY <1>3, <2>1, <2>3 DEF Legacy, Store!vars, Answer
  <2> QED BY <2>2, <2>3
<1>5. CASE CheckExisting(c)
  <2>1. ans' = ans BY <1>5, <1>c DEF CheckExisting, Goto
  <2>2. CASE out' = out BY <1>5, <2>1, <2>2 DEF CheckExisting, Store!vars, Answer
  <2>3. CASE out' # out
    <3>1. Store!Discard(c)
      BY <1>5, <1>d, <2>1, <2>3 DEF CheckExisting, CheckHash, Goto, Store!Discard, Answer
    <3> QED BY <3>1 DEF Store!Next
  <2> QED BY <2>2, <2>3
<1>6. CASE NextUri(c)
  <2>1. CASE pc' = [pc EXCEPT ![c] = "fetch"]
    BY <1>6, <1>c, <2>1 DEF NextUri, Store!vars, Answer
  <2>2. CASE End(c, "failed")
    BY <1>6, <1>e, <2>2 DEF NextUri, End, Store!Next
  <2> QED BY <1>6, <2>1, <2>2 DEF NextUri
<1>7. CASE Fetch(c)
  BY <1>7, <1>c DEF Fetch, GiveUp, Goto, Store!vars, Answer
<1>8. CASE PostProcess(c)
  BY <1>8, <1>c DEF PostProcess, GiveUp, Goto, Store!vars, Answer
<1>9. CASE Verify(c)
  BY <1>9, <1>c DEF Verify, GiveUp, Goto, Store!vars, Answer
<1>10. CASE MkOutput(c)
  BY <1>10, <1>c DEF MkOutput, Goto, Store!vars, Answer
<1>11. CASE Cat(c)
  BY <1>11, <1>c DEF Cat, Abort, Goto, Store!vars, Answer
<1>12. CASE RemoveTmpd(c)
  BY <1>12, <1>c DEF RemoveTmpd, Goto, Store!vars, Answer
<1>13. CASE Rename(c)
  <2>1. ans' = ans BY <1>13, <1>c DEF Rename, Abort, Goto
  <2>2. CASE out' = out BY <1>13, <2>1, <2>2 DEF Rename, Store!vars, Answer
  <2>3. CASE out' # out
    <3>1. /\ pc[c] = "mv" /\ out = Absent /\ out' = tmpo[c] /\ tmpo[c] \in Data
          /\ Store!Verdict(hash[c], tmpo[c]) \in {0, 3}
      BY <1>13, <2>3 DEF Rename, Abort, Goto, IndInv, PublishInv, Checked, CheckHash
    <3>2. Store!Publish(c)
      BY <1>13, <1>d, <2>1, <3>1 DEF Rename, Store!Publish, Answer
    <3> QED BY <3>2 DEF Store!Next
  <2> QED BY <2>2, <2>3
<1>14. CASE Exit(c)
  <2>1. CASE rc[c] = 0
    <3>1. pc[c] = "exit" /\ out # Absent /\ Store!Verdict(hash[c], out) = 0
      BY <1>14, <2>1 DEF Exit, IndInv, PublishInv, CheckHash
    <3>2. ans' = [ans EXCEPT ![c] = "ok"]
      BY <1>14, <1>b, <2>1 DEF Exit, End, Answer
    <3>3. Store!Grant(c)
      BY <1>14, <1>d, <3>1, <3>2 DEF Exit, Store!Grant, Answer
    <3> QED BY <3>3 DEF Store!Next
  <2>2. CASE rc[c] # 0
    BY <1>14, <1>e, <2>2 DEF Exit, End, Store!Next
  <2> QED BY <2>1, <2>2
<1>15. CASE Kill(c)
  BY <1>15, <1>e DEF Kill, End, Store!Next
<1>16. CASE Copy(c) BY <1>16 DEF Copy, Goto
<1>17. CASE SetMode(c) BY <1>17, <1>c DEF SetMode, Goto, Store!vars, Answer
<1>18. CASE Stop(c) BY <1>18, <1>e DEF Stop, End, Store!Next
<1> QED BY <1>1, <1>2, <1>3, <1>5, <1>6, <1>7, <1>8, <1>9, <1>10, <1>11,
           <1>12, <1>13, <1>14, <1>15, <1>16, <1>17, <1>18 DEF Step

\* Every behaviour of the script is one the abstract store allows.
THEOREM Implementation == ASSUME LinkWorks PROVE Spec => ImplementsStore
<1>1. Init => Store!Init
  BY DEF Init, Store!Init, Failed
<1>2. IndInv /\ [Next]_vars => [Store!Next]_(Store!vars)
  <2> SUFFICES ASSUME IndInv, [Next]_vars PROVE [Store!Next]_(Store!vars)
    OBVIOUS
  <2>1. CASE Next BY <2>1, StoreStep DEF Next
  <2>2. CASE UNCHANGED vars BY <2>2 DEF vars, Store!vars
  <2> QED BY <2>1, <2>2
<1> QED BY <1>1, <1>2, Invariance, PTL DEF Spec, ImplementsStore, Store!Spec
=============================================================================
