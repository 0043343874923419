--------------------------- MODULE PreCommitProofs ---------------------------
(*****************************************************************************)
(* Proofs about PreCommit, for every set of files, every content and every   *)
(* interleaving with the developer: what a verdict of `mmw check` says of    *)
(* the files it selected, and what the hook lets into a commit.              *)
(*                                                                           *)
(* What the text algorithms compute is a recursion over the text and is left *)
(* to TLC: TextAlgorithms is a hypothesis here and is evaluated on all short *)
(* texts there.                                                              *)
(*****************************************************************************)
EXTENDS PreCommit, FiniteSetTheorems, TLAPS

-----------------------------------------------------------------------------
(* Types.  A command keeps a list of checkers, or of files to rewrite.      *)

Job == {"files", "format"} \X File

RunType ==
    /\ run \in [cmd : {"none", "hook", "modified", "check", "fixFiles", "fixFormat"},
                todo : Seq(Checker) \cup Seq(Job), targets : SUBSET File,
                omitted : SUBSET File, failFast : BOOLEAN, found : SUBSET (Checker \X File),
                failed : SUBSET {"yaml", "lint"}, cut : BOOLEAN]
    /\ IF Fixing THEN run.todo \in Seq(Job) ELSE run.todo \in Seq(Checker)

TypeInv == TypeOK /\ RunType

\* The first element of a list and the rest.
LEMMA FirstOfSeq ==
    ASSUME NEW S, NEW s \in Seq(S), s # <<>>
    PROVE  /\ Head(s) \in S /\ Head(s) = s[1] /\ Tail(s) \in Seq(S)
           /\ Len(s) # 1 => Len(s) > 1
           /\ Len(s) > 1 => Tail(s) # <<>>
           /\ Len(s) = 1 => \A i \in 1..Len(s) : s[i] = s[1]
           /\ \A i \in 1..Len(s) : s[i] = s[1] \/ \E j \in 1..Len(Tail(s)) : Tail(s)[j] = s[i]
           /\ \A j \in 1..Len(Tail(s)) : \E i \in 1..Len(s) : Tail(s)[j] = s[i]
<1>1. /\ Head(s) \in S /\ Head(s) = s[1] /\ Tail(s) \in Seq(S)
      /\ Len(s) \in Nat /\ Len(s) > 0 /\ Len(Tail(s)) = Len(s) - 1
  OBVIOUS
<1>2. ASSUME NEW i \in 1..Len(s), i # 1
      PROVE  \E j \in 1..Len(Tail(s)) : Tail(s)[j] = s[i]
  <2>1. i - 1 \in 1..Len(Tail(s)) /\ Tail(s)[i - 1] = s[i]
    BY <1>1, <1>2
  <2> QED
    BY <2>1
<1>3. Len(s) > 1 => Tail(s) # <<>>
  BY <1>1
<1>4. Len(s) # 1 => Len(s) > 1
  BY <1>1
<1>5. ASSUME Len(s) = 1, NEW i \in 1..Len(s) PROVE s[i] = s[1]
  <2>1. i = 1
    BY <1>5
  <2> QED
    BY <2>1
<1>6. \A i \in 1..Len(s) : s[i] = s[1] \/ \E j \in 1..Len(Tail(s)) : Tail(s)[j] = s[i]
  BY <1>2, Zenon
<1>7. ASSUME NEW j \in 1..Len(Tail(s)) PROVE \E i \in 1..Len(s) : Tail(s)[j] = s[i]
  <2>1. j + 1 \in 1..Len(s) /\ Tail(s)[j] = s[j + 1]
    BY <1>1
  <2> QED
    BY <2>1
<1> QED
  BY <1>1, <1>3, <1>4, <1>5, <1>6, <1>7, Zenon

\* A result names files, and only yaml and lint fail without naming one.
LEMMA ResultsTyped ==
    ASSUME NEW T \in SUBSET File, NEW k \in Checker, NEW r \in Results(k, T)
    PROVE  /\ r.named \subseteq File /\ r.failed \in BOOLEAN /\ r.cut \in BOOLEAN
           /\ r.failed => k \in {"yaml", "lint"}
<1>1. CASE k = "files"
  <2> DEFINE S == {f \in T : CheckFileContent(f, work[f].text) # {}}
  <2>1. S \subseteq File
    BY DEF Those, Flawed
  <2>2. r = Result(S, FALSE, FALSE)
    BY <1>1 DEF Results
  <2> HIDE DEF S
  <2> QED
    BY <2>1, <2>2 DEF Result
<1>2. CASE k = "yaml"
  <2>1. r \in YamlResults(T)
    BY <1>2 DEF Results
  <2>2. PICK named \in SUBSET Flawed(Those(T, "yaml"), "syntax"), failed \in BOOLEAN, cut \in BOOLEAN :
           r = Result(named, failed, cut)
    BY <2>1 DEF YamlResults
  <2> QED
    BY <1>2, <2>2 DEF Result, Flawed, Those
<1>3. CASE k = "toml"
  <2> DEFINE S == Flawed(Those(T, "toml"), "syntax")
  <2>1. S \subseteq File
    BY DEF Those, Flawed
  <2>2. r = Result(S, FALSE, FALSE)
    BY <1>3 DEF Results
  <2> HIDE DEF S
  <2> QED
    BY <2>1, <2>2 DEF Result
<1>4. CASE k = "format"
  <2> DEFINE S == {f \in Flawed(Those(T, "go"), "format") : ~work[f].generated}
  <2>1. S \subseteq File
    BY DEF Those, Flawed
  <2>2. r = Result(S, FALSE, FALSE)
    BY <1>4 DEF Results
  <2> HIDE DEF S
  <2> QED
    BY <2>1, <2>2 DEF Result
<1>5. CASE k = "lint"
  <2>1. r \in LintResults(T)
    BY <1>5 DEF Results
  <2>2. LintFails(T) \in BOOLEAN
    BY DEF LintFails
  <2>3. \E failed \in BOOLEAN : r = Result({}, failed, FALSE)
    BY <2>1, <2>2 DEF LintResults
  <2> QED
    BY <1>5, <2>3 DEF Result
<1> QED
  BY <1>1, <1>2, <1>3, <1>4, <1>5 DEF Checker

\* SetToSeq lists a finite set.
LEMMA Listed ==
    ASSUME NEW S, IsFiniteSet(S)
    PROVE  /\ SetToSeq(S) \in Seq(S)
           /\ \A x \in S : \E i \in 1..Len(SetToSeq(S)) : SetToSeq(S)[i] = x
           /\ S # {} => Len(SetToSeq(S)) > 0
<1> DEFINE n == Cardinality(S)
           L == SetToSeq(S)
<1>1. n \in Nat /\ ExistsBijection(1..n, S)
  BY FS_CardinalityType
<1>2. \E f \in [1..n -> S] : IsInjective(f)
  BY <1>1 DEF ExistsBijection, Bijection, Injection, IsInjective
<1>3. L \in [1..n -> S] /\ IsInjective(L)
  BY <1>2 DEF SetToSeq
<1>4. L \in Seq(S) /\ Len(L) = n
  BY <1>1, <1>3
<1>5. L \in Injection(1..n, S)
  BY <1>3 DEF Injection, IsInjective
<1>6. Cardinality(1..n) = n
  BY <1>1, FS_Interval
<1>7. L \in Surjection(1..n, S)
  BY <1>5, <1>6, FS_Injection
<1>8. \A x \in S : \E i \in 1..n : L[i] = x
  BY <1>7 DEF Surjection
<1>9. S # {} => n > 0
  BY <1>1, FS_EmptySet
<1> QED
  BY <1>4, <1>8, <1>9

\* A tree of files: the commit, the index or the working tree.
Tree(t) == DOMAIN t = File /\ \A f \in File : t[f] = Absent \/ t[f] \in Version

LEMMA TreeUpdated ==
    ASSUME NEW t, Tree(t), NEW f \in File, NEW c, c = Absent \/ c \in Version
    PROVE  /\ Tree([t EXCEPT ![f] = c])
           /\ [t EXCEPT ![f] = c][f] = c
           /\ \A g \in File : g # f => [t EXCEPT ![f] = c][g] = t[g]
BY Zenon DEF Tree

\* What EXCEPT leaves of a command.
LEMMA RunUpdated ==
    ASSUME RunType, NEW L \in Seq(Checker) \cup Seq(Job), NEW F \in SUBSET (Checker \X File),
           NEW X \in SUBSET {"yaml", "lint"}, NEW b \in BOOLEAN,
           IF Fixing THEN L \in Seq(Job) ELSE L \in Seq(Checker),
           run' = [run EXCEPT !.todo = L, !.found = F, !.failed = X, !.cut = b]
    PROVE  /\ RunType'
           /\ run'.todo = L /\ run'.found = F /\ run'.failed = X /\ run'.cut = b
           /\ run'.cmd = run.cmd /\ run'.targets = run.targets
           /\ run'.omitted = run.omitted /\ run'.failFast = run.failFast
BY DEF RunType, Fixing

\* The selections of git are files.
LEMMA SelectionIsFiles ==
    ASSUME NEW omitted, NEW retyped
    PROVE  StagedFiles(omitted) \subseteq File /\ ModifiedFiles(omitted, retyped) \subseteq File
BY DEF StagedFiles, ModifiedFiles

\* The fields of a pre-commit run that has just begun.
RunBegins(cmd, omitted, retyped) ==
    /\ run'.cmd = cmd /\ run'.targets = SelectFiles(cmd, omitted, retyped)
    /\ run'.omitted = omitted /\ run'.found = {} /\ run'.failed = {}
    /\ run'.todo = IF run'.targets = {} THEN <<>> ELSE PreCommitOrder
    /\ outcome' = IF run'.targets = {} THEN "passed" ELSE "running"

\* How a pre-commit run starts.
LEMMA StartPreCommitRun ==
    ASSUME NEW cmd \in {"hook", "modified"}, NEW failFast \in BOOLEAN,
           NEW omitted \in SUBSET File, NEW retyped \in SUBSET File,
           StartPreCommit(cmd, failFast, omitted, retyped)
    PROVE  RunType' /\ RunBegins(cmd, omitted, retyped)
<1> DEFINE files == SelectFiles(cmd, omitted, retyped)
           L == IF files = {} THEN <<>> ELSE PreCommitOrder
<1>1. files \in SUBSET File
  BY SelectionIsFiles DEF SelectFiles
<1>2. L \in Seq(Checker)
  <2>1. PreCommitOrder \in Seq(Checker)
    BY DEF PreCommitOrder, Checker
  <2>2. <<>> \in Seq(Checker)
    OBVIOUS
  <2> QED
    BY <2>1, <2>2
<1> HIDE DEF files, L
<1>3. run' = [cmd |-> cmd, todo |-> L, targets |-> files, omitted |-> omitted,
              failFast |-> failFast, found |-> {}, failed |-> {}, cut |-> FALSE]
  BY DEF StartPreCommit, NoRun, files, L
<1>4. RunType'
  BY <1>1, <1>2, <1>3 DEF RunType, Fixing
<1>5. outcome' = IF files = {} THEN "passed" ELSE "running"
  BY DEF StartPreCommit, files
<1> QED
  BY <1>3, <1>4, <1>5 DEF RunBegins, L, files

\* How a single check starts.
LEMMA StartCheckRun ==
    ASSUME NEW k \in Checker, NEW targets \in Args, StartCheck(k, targets)
    PROVE  /\ RunType'
           /\ run'.cmd = "check" /\ run'.todo = <<k>> /\ outcome' = "running"
           /\ run'.targets \subseteq File /\ run'.found = {}
<1> DEFINE files == Resolve(k, targets)
<1>1. files \in SUBSET File
  BY PreCommitAssumption DEF Resolve, Tracked, Those
<1> HIDE DEF files
<1>2. run' = [cmd |-> "check", todo |-> <<k>>, targets |-> files, omitted |-> {},
              failFast |-> FALSE, found |-> {}, failed |-> {}, cut |-> FALSE]
  BY DEF StartCheck, NoRun, files
<1>3. outcome' = "running"
  BY DEF StartCheck
<1>4. RunType'
  BY <1>1, <1>2 DEF RunType, Fixing
<1> QED
  BY <1>1, <1>2, <1>3, <1>4

\* How a fix starts: every file of its targets is on the list.
LEMMA StartFixRun ==
    ASSUME NEW k \in Checker, NEW targets \in Args, StartFix(k, targets)
    PROVE  /\ RunType'
           /\ run'.cmd = IF k = "files" THEN "fixFiles" ELSE "fixFormat"
           /\ \A f \in run'.targets : \E i \in 1..Len(run'.todo) : run'.todo[i] = <<k, f>>
           /\ \A i \in 1..Len(run'.todo) : run'.todo[i][1] = k
           /\ outcome' = IF run'.targets = {} THEN "fixed" ELSE "running"
           /\ run'.targets # {} => run'.todo # <<>>
<1> DEFINE files == IF k = "files" THEN Resolve(k, targets) ELSE Those(Resolve(k, targets), "go")
           L == SetToSeq(files)
           jobs == [i \in 1..Len(L) |-> <<k, L[i]>>]
<1>1. files \in SUBSET File
  BY PreCommitAssumption DEF Resolve, Tracked, Those
<1>2. IsFiniteSet(files)
  BY <1>1, FS_Subset, PreCommitAssumption
<1>3. k \in {"files", "format"}
  BY DEF StartFix
<1>4. /\ run' = [cmd |-> IF k = "files" THEN "fixFiles" ELSE "fixFormat", todo |-> jobs,
                 targets |-> files, omitted |-> {}, failFast |-> FALSE, found |-> {},
                 failed |-> {}, cut |-> FALSE]
      /\ outcome' = IF files = {} THEN "fixed" ELSE "running"
  BY DEF StartFix, NoRun
<1> HIDE DEF files
<1>5. /\ L \in Seq(files)
      /\ \A f \in files : \E i \in 1..Len(L) : L[i] = f
      /\ files # {} => Len(L) > 0
  BY <1>2, Listed
<1> HIDE DEF L
<1>6. Len(L) \in Nat /\ \A i \in 1..Len(L) : L[i] \in files
  BY <1>5
<1>7. /\ jobs \in Seq(Job) /\ Len(jobs) = Len(L)
      /\ \A i \in 1..Len(L) : jobs[i] = <<k, L[i]>>
  BY <1>1, <1>3, <1>6 DEF Job
<1> HIDE DEF jobs
<1>8. RunType'
  BY <1>1, <1>4, <1>7 DEF RunType, Fixing
<1>9. run'.targets = files /\ run'.todo = jobs
  BY <1>4
<1>10. run'.cmd = IF k = "files" THEN "fixFiles" ELSE "fixFormat"
  BY <1>4
<1>11. \A f \in files : \E i \in 1..Len(jobs) : jobs[i] = <<k, f>>
  BY <1>5, <1>7
<1>12. files # {} => jobs # <<>>
  BY <1>5, <1>7
<1>13. \A i \in 1..Len(jobs) : jobs[i][1] = k
  BY <1>7
<1> QED
  BY <1>4, <1>8, <1>9, <1>10, <1>11, <1>12, <1>13

\* What a turn of RunPreCommit's loop does.
LEMMA CheckStepRun ==
    ASSUME TypeInv, CheckStep
    PROVE  \E k \in Checker :
             /\ RunType' /\ ~Fixing /\ outcome = "running"
             /\ k = run.todo[1]
             /\ run'.cmd = run.cmd /\ run'.targets = run.targets
             /\ run'.omitted = run.omitted /\ run'.failFast = run.failFast
             /\ \/ outcome' = "error"
                \/ /\ ~Errs(k, run.targets)
                   /\ \E r \in Results(k, run.targets) :
                         /\ run'.found = run.found \cup ({k} \X r.named)
                         /\ run'.failed = IF r.failed THEN run.failed \cup {k} ELSE run.failed
                         /\ run'.cut = (run.cut \/ r.cut)
                   /\ outcome' \in {"running", "passed", "violations"}
                   /\ outcome' = "running" => run'.todo = Tail(run.todo) /\ Len(run.todo) > 1
                   /\ outcome' = "passed" => /\ run'.found = {} /\ run'.failed = {}
                                             /\ Len(run.todo) = 1
                   /\ outcome' = "violations" => Len(run.todo) = 1 \/ run.failFast
<1> DEFINE k == Head(run.todo)
<1>1. outcome = "running" /\ ~Fixing /\ run.todo # <<>>
  BY DEF CheckStep, TypeInv, TypeOK
<1>2. /\ run.todo \in Seq(Checker) /\ run.targets \in SUBSET File
      /\ run.found \in SUBSET (Checker \X File)
      /\ run.failed \in SUBSET {"yaml", "lint"} /\ run.cut \in BOOLEAN
  BY <1>1 DEF TypeInv, RunType
<1>3. /\ k \in Checker /\ k = run.todo[1] /\ Tail(run.todo) \in Seq(Checker)
      /\ Len(run.todo) # 1 => Len(run.todo) > 1
  BY <1>1, <1>2, FirstOfSeq
<1>5. CASE CheckFails(k)
  <2>1. run' = [run EXCEPT !.todo = <<>>, !.found = {}, !.failed = {}] /\ outcome' = "error"
    BY <1>5 DEF CheckFails
  <2>2. run' = [run EXCEPT !.todo = <<>>, !.found = {}, !.failed = {}, !.cut = run.cut]
    BY <2>1 DEF TypeInv, RunType
  <2>3. <<>> \in Seq(Checker) /\ {} \in SUBSET (Checker \X File) /\ {} \in SUBSET {"yaml", "lint"}
    OBVIOUS
  <2>4. RunType' /\ run'.cmd = run.cmd /\ run'.targets = run.targets
        /\ run'.omitted = run.omitted /\ run'.failFast = run.failFast
    BY <1>1, <1>2, <2>2, <2>3, RunUpdated DEF TypeInv
  <2> QED
    BY <1>1, <1>3, <2>1, <2>4
<1>6. ASSUME ~Errs(k, run.targets), NEW r \in Results(k, run.targets),
             KeepResult(k, r, Len(run.todo) = 1 \/ (run.failFast /\ HasViolations(r)))
      PROVE  /\ RunType' /\ run'.cmd = run.cmd /\ run'.targets = run.targets
             /\ run'.omitted = run.omitted /\ run'.failFast = run.failFast
             /\ run'.found = run.found \cup ({k} \X r.named)
             /\ run'.failed = IF r.failed THEN run.failed \cup {k} ELSE run.failed
             /\ run'.cut = (run.cut \/ r.cut)
             /\ outcome' \in {"running", "passed", "violations"}
             /\ outcome' = "running" => run'.todo = Tail(run.todo) /\ Len(run.todo) > 1
             /\ outcome' = "passed" => /\ run'.found = {} /\ run'.failed = {}
                                       /\ Len(run.todo) = 1
             /\ outcome' = "violations" => Len(run.todo) = 1 \/ run.failFast
  <2> DEFINE found == run.found \cup ({k} \X r.named)
             failed == IF r.failed THEN run.failed \cup {k} ELSE run.failed
             stop == Len(run.todo) = 1 \/ (run.failFast /\ HasViolations(r))
             L == IF stop THEN <<>> ELSE Tail(run.todo)
  <2>1. /\ r.named \subseteq File /\ r.failed \in BOOLEAN /\ r.cut \in BOOLEAN
        /\ r.failed => k \in {"yaml", "lint"}
    BY <1>2, <1>3, ResultsTyped
  <2>2. found \in SUBSET (Checker \X File) /\ failed \in SUBSET {"yaml", "lint"}
    BY <1>2, <1>3, <2>1
  <2>3. (run.cut \/ r.cut) \in BOOLEAN
    OBVIOUS
  <2>4. L \in Seq(Checker)
    BY <1>3
  <2>5. /\ run' = [run EXCEPT !.todo = L, !.found = found, !.failed = failed,
                               !.cut = (run.cut \/ r.cut)]
        /\ outcome' = IF stop THEN Verdict(found, failed) ELSE "running"
    BY <1>6, Zenon DEF KeepResult
  <2>6. HasViolations(r) => found # {} \/ failed # {}
    <3>1. ASSUME NEW x \in r.named PROVE <<k, x>> \in found
      OBVIOUS
    <3>2. r.failed => k \in failed
      OBVIOUS
    <3> HIDE DEF found, failed, k
    <3> QED
      BY <3>1, <3>2, Zenon DEF HasViolations
  <2>a. ~stop => L = Tail(run.todo) /\ Len(run.todo) # 1
    BY Zenon
  <2> HIDE DEF found, failed, L
  <2>7. /\ RunType' /\ run'.cmd = run.cmd /\ run'.targets = run.targets
        /\ run'.omitted = run.omitted /\ run'.failFast = run.failFast
        /\ run'.found = found /\ run'.failed = failed /\ run'.cut = (run.cut \/ r.cut)
        /\ run'.todo = L
    BY <1>1, <2>2, <2>3, <2>4, <2>5, RunUpdated DEF TypeInv
  <2>8. outcome' = "running" => ~stop
    BY <2>5, Zenon DEF Verdict
  <2>9. outcome' = "running" => run'.todo = Tail(run.todo) /\ Len(run.todo) > 1
    <3> HIDE DEF stop, k
    <3> QED
      BY <1>3, <2>7, <2>8, <2>a
  <2>10. outcome' = "passed" => found = {} /\ failed = {} /\ Len(run.todo) = 1
    <3> HIDE DEF k
    <3> QED
      BY <2>5, <2>6, Zenon DEF Verdict
  <2>11. outcome' = "violations" => Len(run.todo) = 1 \/ run.failFast
    BY <2>5, Zenon
  <2>12. outcome' \in {"running", "passed", "violations"}
    BY <2>5, Zenon DEF Verdict
  <2> QED
    BY <2>7, <2>9, <2>10, <2>11, <2>12 DEF found, failed
<1>7. CASE ~Errs(k, run.targets) /\ ~CheckFails(k)
  <2>1. PICK r \in Results(k, run.targets) :
           KeepResult(k, r, Len(run.todo) = 1 \/ (run.failFast /\ HasViolations(r)))
    BY <1>7, Zenon DEF CheckStep
  <2> HIDE DEF k
  <2> QED
    BY <1>1, <1>3, <1>6, <1>7, <2>1, Zenon
<1> QED
  BY <1>5, <1>7, Zenon DEF CheckStep

\* What a turn of a Fix does: an error, or one file rewritten.
LEMMA FixStepRun ==
    ASSUME TextAlgorithms(Seq(Byte)), TypeInv, FixStep
    PROVE  \E k \in {"files", "format"}, f \in File :
             /\ RunType' /\ Fixing /\ outcome = "running" /\ run.todo[1] = <<k, f>>
             /\ run'.cmd = run.cmd /\ run'.targets = run.targets
             /\ \/ outcome' = "error" /\ UNCHANGED work
                \/ /\ work[f] \in Version
                   /\ \E c \in Version :
                        /\ work' = [work EXCEPT ![f] = c]
                        /\ k = "files" => c.text = FixFileContent(f, work[f].text)
                   /\ outcome' = IF Len(run.todo) = 1 THEN "fixed" ELSE "running"
                   /\ run'.todo = Tail(run.todo)
<1> DEFINE k == Head(run.todo)[1]
           f == Head(run.todo)[2]
           c == work[f]
<1>1. outcome = "running" /\ Fixing /\ run.todo # <<>>
  BY DEF FixStep, TypeInv, TypeOK
<1>2. /\ run.todo \in Seq(Job) /\ run.found \in SUBSET (Checker \X File)
      /\ run.failed \in SUBSET {"yaml", "lint"} /\ run.cut \in BOOLEAN
  BY <1>1 DEF TypeInv, RunType
<1>3. /\ run.todo[1] \in Job /\ Head(run.todo) = run.todo[1] /\ Tail(run.todo) \in Seq(Job)
  BY <1>1, <1>2
<1>4. k \in {"files", "format"} /\ f \in File /\ run.todo[1] = <<k, f>>
  BY <1>3 DEF Job
<1>5. ASSUME NEW L \in Seq(Job), run' = [run EXCEPT !.todo = L]
      PROVE  RunType' /\ run'.cmd = run.cmd /\ run'.targets = run.targets /\ run'.todo = L
  <2>1. run' = [run EXCEPT !.todo = L, !.found = run.found, !.failed = run.failed, !.cut = run.cut]
    BY <1>5 DEF TypeInv, RunType
  <2>2. L \in Seq(Checker) \cup Seq(Job) /\ IF Fixing THEN L \in Seq(Job) ELSE L \in Seq(Checker)
    BY <1>1
  <2> QED
    BY <1>2, <2>1, <2>2, RunUpdated DEF TypeInv
<1>6. CASE UNCHANGED work /\ run' = [run EXCEPT !.todo = <<>>] /\ outcome' = "error"
  <2>1. <<>> \in Seq(Job)
    OBVIOUS
  <2>2. RunType' /\ run'.cmd = run.cmd /\ run'.targets = run.targets
    BY <1>5, <1>6, <2>1
  <2> QED
    BY <1>1, <1>4, <1>6, <2>2
<1>7. CASE ~(c = Absent \/ (IF k = "files" THEN ScanErrs(f, c.text) ELSE FormatErrs({f})))
  <2>1. c \in Version /\ c.text \in Seq(Byte) /\ c.flaws \in SUBSET Flaw
    BY <1>4, <1>7 DEF TypeInv, TypeOK, Version
  <2>2. FixFileContent(f, c.text) \in Seq(Byte)
    BY <1>4, <2>1 DEF TextAlgorithms
  <2>3. PICK text \in IF k = "files" THEN {FixFileContent(f, c.text)}
                      ELSE IF c.generated THEN {c.text}
                      ELSE {c.text, FixFileContent(f, c.text)} :
               work' = [work EXCEPT ![f] =
                        [c EXCEPT !.text = text,
                                  !.flaws = IF k = "format" /\ ~c.generated THEN @ \ {"format"} ELSE @]]
    BY <1>7, Zenon DEF FixStep
  <2>4. run' = [run EXCEPT !.todo = Tail(@)] /\ outcome' = IF Len(run.todo) = 1 THEN "fixed" ELSE "running"
    BY <1>7 DEF FixStep
  <2>5. text \in Seq(Byte) /\ (k = "files" => text = FixFileContent(f, c.text))
    BY <2>1, <2>2, <2>3
  <2> DEFINE flaws == IF k = "format" /\ ~c.generated THEN c.flaws \ {"format"} ELSE c.flaws
             new == [c EXCEPT !.text = text, !.flaws = flaws]
  <2>6. work' = [work EXCEPT ![f] = new]
    BY <2>3, Zenon
  <2>7. flaws \in SUBSET Flaw
    BY <2>1
  <2>8. new \in Version /\ new.text = text
    <3> HIDE DEF flaws
    <3> QED
      BY <2>1, <2>5, <2>7 DEF Version
  <2>9. RunType' /\ run'.cmd = run.cmd /\ run'.targets = run.targets /\ run'.todo = Tail(run.todo)
    BY <1>3, <1>5, <2>4
  <2> HIDE DEF new, k, f
  <2>10. \E d \in Version : work' = [work EXCEPT ![f] = d]
                            /\ (k = "files" => d.text = FixFileContent(f, work[f].text))
    BY <2>5, <2>6, <2>8
  <2> QED
    BY <1>1, <1>4, <2>1, <2>4, <2>9, <2>10
<1> QED
  BY <1>6, <1>7 DEF FixStep

\* TypeOK in parts.
LEMMA TypeParts ==
    TypeOK <=> /\ Tree(head) /\ Tree(index) /\ Tree(work)
               /\ tools \subseteq {"yamllint", "golangci-lint"}
               /\ run.cmd \in {"none", "hook", "modified", "check", "fixFiles", "fixFormat"}
               /\ run.targets \subseteq File /\ run.found \subseteq Checker \X File
               /\ outcome \in {"none", "running", "passed", "violations", "error", "fixed"}
               /\ outcome = "running" => run.todo # <<>>
               /\ run.failed \subseteq {"yaml", "lint"} /\ run.cut \in BOOLEAN
               /\ touched \subseteq File /\ edits \in 0..MaxEdits
BY Zenon DEF TypeOK, Tree

\* What RunType says of the fields TypeOK names.
LEMMA RunTypeParts ==
    RunType => /\ run.cmd \in {"none", "hook", "modified", "check", "fixFiles", "fixFormat"}
               /\ run.targets \subseteq File /\ run.found \subseteq Checker \X File
               /\ run.failed \subseteq {"yaml", "lint"} /\ run.cut \in BOOLEAN
BY DEF RunType

\* A step that changes the command only.
LEMMA RunStepType ==
    ASSUME TypeInv, RunType', UNCHANGED <<head, index, work, tools, edits>>,
           outcome' \in {"none", "running", "passed", "violations", "error", "fixed"},
           outcome' = "running" => run'.todo # <<>>,
           touched' \subseteq File
    PROVE  TypeInv'
<1>1. TypeOK
  BY DEF TypeInv
<1>2. (RunType => /\ run.cmd \in {"none", "hook", "modified", "check", "fixFiles", "fixFormat"}
                  /\ run.targets \subseteq File /\ run.found \subseteq Checker \X File
                  /\ run.failed \subseteq {"yaml", "lint"} /\ run.cut \in BOOLEAN)'
  BY RunTypeParts, PTL
<1>3. TypeOK'
  BY <1>1, <1>2 DEF TypeOK
<1> QED
  BY <1>3 DEF TypeInv

\* Every step keeps the types, if the fix writes texts.
LEMMA TypeInvStep == TextAlgorithms(Seq(Byte)) /\ TypeInv /\ [Next]_vars => TypeInv'
<1> SUFFICES ASSUME TextAlgorithms(Seq(Byte)), TypeInv, [Next]_vars
             PROVE  TypeInv'
  OBVIOUS
<1>a. TypeOK /\ RunType /\ touched \subseteq File
  BY DEF TypeInv, TypeOK
<1>1. ASSUME NEW cmd \in {"hook", "modified"}, NEW failFast \in BOOLEAN,
             NEW omitted \in SUBSET (MayBeRenamed \cup MayBeRetyped(head, index)),
             NEW retyped \in SUBSET MayBeRetyped(index, work),
             StartPreCommit(cmd, failFast, omitted, retyped)
      PROVE  TypeInv'
  <2>1. omitted \in SUBSET File /\ retyped \in SUBSET File
    BY DEF MayBeRenamed, MayBeRetyped
  <2>2. /\ RunType'
        /\ run'.todo = IF run'.targets = {} THEN <<>> ELSE PreCommitOrder
        /\ outcome' = IF run'.targets = {} THEN "passed" ELSE "running"
    <3>1. RunType' /\ RunBegins(cmd, omitted, retyped)
      BY <1>1, <2>1, StartPreCommitRun, Zenon
    <3> QED
      BY <3>1 DEF RunBegins
  <2>3. PreCommitOrder # <<>>
    BY DEF PreCommitOrder
  <2>4. UNCHANGED <<head, index, work, tools, touched, edits>>
    BY <1>1 DEF StartPreCommit
  <2> QED
    BY <1>a, <2>2, <2>3, <2>4, RunStepType
<1>2. ASSUME NEW k \in Checker, NEW targets \in Args, StartCheck(k, targets)
      PROVE  TypeInv'
  <2>1. RunType' /\ run'.todo = <<k>> /\ outcome' = "running"
    BY <1>2, StartCheckRun
  <2>2. <<k>> # <<>>
    OBVIOUS
  <2>3. UNCHANGED <<head, index, work, tools, touched, edits>>
    BY <1>2 DEF StartCheck
  <2> QED
    BY <1>a, <2>1, <2>2, <2>3, RunStepType
<1>3. ASSUME NEW k \in Checker, NEW targets \in Args, StartFix(k, targets)
      PROVE  TypeInv'
  <2>1. /\ RunType' /\ (run'.targets # {} => run'.todo # <<>>)
        /\ outcome' = IF run'.targets = {} THEN "fixed" ELSE "running"
    BY <1>3, StartFixRun
  <2>2. UNCHANGED <<head, index, work, tools, touched, edits>>
    BY <1>3 DEF StartFix
  <2> QED
    BY <1>a, <2>1, <2>2, RunStepType
<1>4. CASE CheckStep
  <2>1. UNCHANGED <<head, index, work, tools, touched, edits>>
    BY <1>4 DEF CheckStep
  <2>2. run.todo \in Seq(Checker) /\ run.todo # <<>>
    BY <1>4, <1>a DEF CheckStep, TypeOK, RunType
  <2>3. Len(run.todo) > 1 => Tail(run.todo) # <<>>
    BY <2>2, FirstOfSeq
  <2>4. /\ RunType'
        /\ outcome' \in {"running", "passed", "violations", "error"}
        /\ outcome' = "running" => run'.todo = Tail(run.todo) /\ Len(run.todo) > 1
    BY <1>4, CheckStepRun
  <2> QED
    BY <1>a, <2>1, <2>3, <2>4, RunStepType
<1>5. CASE FixStep
  <2>1. UNCHANGED <<head, index, tools, touched, edits>>
    BY <1>5 DEF FixStep
  <2>2. run.todo \in Seq(Job) /\ run.todo # <<>>
    BY <1>5, <1>a DEF FixStep, TypeOK, RunType
  <2>3. /\ Len(run.todo) # 1 => Len(run.todo) > 1
        /\ Len(run.todo) > 1 => Tail(run.todo) # <<>>
    BY <2>2, FirstOfSeq
  <2>4. PICK f \in File :
           /\ RunType'
           /\ \/ outcome' = "error" /\ UNCHANGED work
              \/ /\ \E c \in Version : work' = [work EXCEPT ![f] = c]
                 /\ outcome' = IF Len(run.todo) = 1 THEN "fixed" ELSE "running"
                 /\ run'.todo = Tail(run.todo)
    BY <1>5, FixStepRun
  <2>5. Tree(work)'
    BY <1>a, <2>4, TypeParts, TreeUpdated DEF Tree
  <2>6. outcome' \in {"running", "fixed", "error"} /\ (outcome' = "running" => run'.todo # <<>>)
    BY <2>3, <2>4
  <2>7. (RunType => /\ run.cmd \in {"none", "hook", "modified", "check", "fixFiles", "fixFormat"}
                    /\ run.targets \subseteq File /\ run.found \subseteq Checker \X File
                    /\ run.failed \subseteq {"yaml", "lint"} /\ run.cut \in BOOLEAN)'
    BY RunTypeParts, PTL
  <2>8. TypeOK'
    BY <1>a, <2>1, <2>4, <2>5, <2>6, <2>7 DEF TypeOK, Tree
  <2> QED
    BY <2>4, <2>8 DEF TypeInv
<1>6. CASE Commit \/ Dismiss
  <2>1. run' = NoRun /\ outcome' = "none" /\ touched' = {}
    BY <1>6 DEF Commit, Dismiss
  <2>2. (head' = head \/ head' = index) /\ UNCHANGED <<index, work, tools, edits>>
    BY <1>6 DEF Commit, Dismiss
  <2>3. RunType'
    BY <2>1 DEF RunType, NoRun, Fixing
  <2>4. TypeOK'
    BY <1>a, <2>1, <2>2 DEF TypeOK, NoRun
  <2> QED
    BY <2>3, <2>4 DEF TypeInv
<1>7. CASE Developer
  <2>1. UNCHANGED <<head, tools, run, outcome>> /\ touched' \subseteq File /\ edits' \in 0..MaxEdits
    <3>1. PICK f \in File : Touch(f) /\ UNCHANGED <<head, tools, run, outcome>>
      BY <1>7, Zenon DEF Developer, Stage, Edit, EditAndStage
    <3>2. touched' \subseteq File
      BY <1>a, <3>1 DEF Touch
    <3>3. edits' \in 0..MaxEdits
      BY <3>1, <1>a, PreCommitAssumption DEF Touch, TypeOK
    <3> QED
      BY <3>1, <3>2, <3>3
  <2>2. \A c \in Content \cup {Absent} : c = Absent \/ c \in Version
    BY PreCommitAssumption DEF Version
  <2>3. Tree(work) /\ Tree(index)
    BY <1>a, TypeParts
  <2>4. \A f \in File : work[f] = Absent \/ work[f] \in Version
    BY <2>3 DEF Tree
  <2>5. PICK f \in File, c \in Version \cup {Absent} :
           /\ work' = work \/ work' = [work EXCEPT ![f] = c]
           /\ index' = index \/ index' = [index EXCEPT ![f] = c]
    BY <1>7, <2>2, <2>4, Zenon DEF Developer, Stage, Edit, EditAndStage
  <2>6. Tree(work') /\ Tree(index')
    BY <2>3, <2>5, TreeUpdated
  <2>7. RunType'
    BY <1>a, <2>1 DEF RunType, Fixing
  <2>8. TypeOK'
    BY <1>a, <2>1, <2>6 DEF TypeOK, Tree
  <2> QED
    BY <2>7, <2>8 DEF TypeInv
<1>8. CASE UNCHANGED vars
  BY <1>8 DEF vars, TypeInv, TypeOK, RunType, Fixing
<1> QED
  BY <1>1, <1>2, <1>3, <1>4, <1>5, <1>6, <1>7, <1>8 DEF Next, Start

\* The types hold initially.
LEMMA TypeInitially == Init => TypeInv
<1> SUFFICES ASSUME Init PROVE TypeInv
  OBVIOUS
<1>1. head \in Commits /\ index = head /\ work = head /\ run = NoRun /\ outcome = "none"
      /\ touched = {} /\ edits = 0 /\ tools \subseteq {"yamllint", "golangci-lint"}
  BY DEF Init
<1>2. Tree(head)
  BY <1>1, PreCommitAssumption DEF Tree, Version
<1>3. RunType
  BY <1>1 DEF RunType, NoRun, Fixing
<1>4. TypeOK
  <2>1. /\ run.cmd = "none" /\ run.targets = {} /\ run.found = {} /\ run.failed = {} /\ run.cut = FALSE
        /\ {} \subseteq File /\ {} \subseteq {"yaml", "lint"} /\ FALSE \in BOOLEAN /\ {} \subseteq Checker \X File
    BY <1>1 DEF NoRun
  <2>2. edits \in 0..MaxEdits
    BY <1>1, PreCommitAssumption
  <2> QED
    BY <1>1, <1>2, <2>1, <2>2, TypeParts, Zenon
<1> QED
  BY <1>3, <1>4 DEF TypeInv

\* The command keeps its types, and a running one always has a next step: the
\* loops of the checks and of the fixes end with a verdict.
THEOREM CommandsKeepTypes == TextAlgorithms(Seq(Byte)) => (Spec => []TypeOK)
<1> SUFFICES ASSUME TextAlgorithms(Seq(Byte)) PROVE Spec => []TypeOK
  OBVIOUS
<1>1. Init => TypeInv
  BY TypeInitially
<1>2. TypeInv => TypeOK
  BY DEF TypeInv
<1> QED
  BY <1>1, <1>2, TypeInvStep, PTL DEF Spec

-----------------------------------------------------------------------------
(* The verdicts.  What a checker said of a file stays true while the         *)
(* developer leaves that file alone, so the answers of a whole run speak of  *)
(* the file as it is in the end.                                             *)

\* Checker k has had its turn and file f is accounted for: it was there, and a
\* fault of it was reported, or lost by a yamllint that broke off.
Accounted(k, f) ==
    /\ k = "files" => work[f] # Absent
    /\ (work[f] # Absent /\ k \in Faults(f, work[f]) \ Unheard)
          => <<k, f>> \in run.found \/ k \in run.failed
AllAccounted == \A f \in run.targets \ touched, k \in Checker : Accounted(k, f)
Waiting(k) == \E i \in 1..Len(run.todo) : run.todo[i] = k

CheckInv ==
    PreCommitRun =>
        /\ outcome = "running" =>
              \A f \in run.targets \ touched, k \in Checker : Accounted(k, f) \/ Waiting(k)
        /\ outcome = "passed" => run.found = {} /\ run.failed = {} /\ AllAccounted
        /\ outcome = "violations" /\ ~run.failFast => AllAccounted

\* The hook selected what is staged, but for what was staged since.
TargetInv ==
    run.cmd = "hook" =>
        \A f \in File \ touched : f \in StagedFiles(run.omitted) => f \in run.targets

\* Nothing but a size is left to report of file f, or it holds a CR.
Settled(f) ==
    ~Contains(work[f].text, "CR") => CheckFileContent(f, work[f].text) \subseteq {"size"}

FixInv ==
    run.cmd = "fixFiles" =>
        /\ outcome = "running" =>
              /\ \A i \in 1..Len(run.todo) : run.todo[i][1] = "files"
              /\ \A f \in run.targets \ touched : Waiting(<<"files", f>>) \/ Settled(f)
        /\ outcome = "fixed" => \A f \in run.targets \ touched : Settled(f)

IdleInv == outcome = "none" => run.cmd = "none"

PreCommitInv == TypeInv /\ CheckInv /\ TargetInv /\ FixInv /\ IdleInv

\* The files check reports what it should: by the text algorithms.
LEMMA FilesReported ==
    ASSUME TextAlgorithms(Seq(Byte)), NEW f \in File, NEW c \in Version,
           "files" \in Faults(f, c)
    PROVE  CheckFileContent(f, c.text) # {}
<1>1. c.text \in Seq(Byte) /\ Len(c.text) \in Nat /\ MaxSize \in Nat
  BY PreCommitAssumption DEF Version
<1>2. \/ Len(c.text) > MaxSize /\ f \notin Exempt
      \/ ~IsBinary(c.text) /\ BlankAtLineEnd(c.text)
      \/ ~IsBinary(c.text) /\ c.text # <<>> /\ Last(c.text) # "NL"
  BY DEF Faults
<1>3. CASE TooBig(f, c.text)
  BY <1>3 DEF CheckFileContent
<1>4. CASE ~TooBig(f, c.text) /\ ~IsBinary(c.text) /\ BlankAtLineEnd(c.text)
  <2>1. "space" \in CheckFileContent(f, c.text)
    BY <1>1, <1>4, Zenon DEF TextAlgorithms
  <2> QED
    BY <2>1
<1>5. CASE ~TooBig(f, c.text) /\ ~IsBinary(c.text) /\ c.text # <<>> /\ Last(c.text) # "NL"
  <2>1. "eof" \in CheckFileContent(f, c.text)
    BY <1>5 DEF CheckFileContent
  <2> QED
    BY <2>1
<1>6. Len(c.text) > MaxSize /\ f \notin Exempt => TooBig(f, c.text)
  BY DEF TooBig
<1> QED
  BY <1>2, <1>3, <1>4, <1>5, <1>6

\* A checker that returns no error accounts for each of its targets.
LEMMA Answered ==
    ASSUME TextAlgorithms(Seq(Byte)), TypeInv, NEW k \in Checker, ~Errs(k, run.targets),
           NEW r \in Results(k, run.targets), NEW f \in run.targets
    PROVE  /\ k = "files" => work[f] # Absent
           /\ work[f] # Absent /\ k \in Faults(f, work[f])
                 => f \in r.named \/ r.failed \/ (k = "yaml" /\ r.cut)
<1> DEFINE T == run.targets
           c == work[f]
<1>1. f \in File
  BY DEF TypeInv, RunType
<1>2. k = "files" => c # Absent
  BY DEF Errs
<1> SUFFICES ASSUME c # Absent, k \in Faults(f, c)
             PROVE  f \in r.named \/ r.failed \/ (k = "yaml" /\ r.cut)
  BY <1>2
<1>3. c \in Version
  BY <1>1 DEF TypeInv, TypeOK
<1>4. CASE k = "files"
  <2> DEFINE S == {g \in T : CheckFileContent(g, work[g].text) # {}}
  <2>1. r = Result(S, FALSE, FALSE)
    BY <1>4 DEF Results
  <2>2. f \in S
    BY <1>1, <1>3, <1>4, FilesReported
  <2> HIDE DEF S
  <2> QED
    BY <2>1, <2>2 DEF Result
<1>5. CASE k = "yaml"
  <2>1. KindOf[f] = "yaml" /\ "syntax" \in c.flaws
    BY <1>5 DEF Faults
  <2>2. f \in Flawed(Those(T, "yaml"), "syntax")
    BY <2>1 DEF Flawed, Those
  <2>3. r.cut \/ r.named = Flawed(Those(T, "yaml"), "syntax")
    BY <1>5 DEF Results, YamlResults
  <2> QED
    BY <1>5, <2>2, <2>3
<1>6. CASE k = "toml"
  <2>1. KindOf[f] = "toml" /\ "syntax" \in c.flaws
    BY <1>6 DEF Faults
  <2>2. f \in Flawed(Those(T, "toml"), "syntax")
    BY <2>1 DEF Flawed, Those
  <2>3. r = Result(Flawed(Those(T, "toml"), "syntax"), FALSE, FALSE)
    BY <1>6 DEF Results
  <2> QED
    BY <2>2, <2>3 DEF Result
<1>7. CASE k = "format"
  <2>1. KindOf[f] = "go" /\ "format" \in c.flaws /\ ~c.generated
    BY <1>7 DEF Faults
  <2> DEFINE S == {g \in Flawed(Those(T, "go"), "format") : ~work[g].generated}
  <2>2. f \in S
    BY <2>1 DEF Flawed, Those
  <2>3. r = Result(S, FALSE, FALSE)
    BY <1>7 DEF Results
  <2> HIDE DEF S
  <2> QED
    BY <2>2, <2>3 DEF Result
<1>8. CASE k = "lint"
  <2>1. KindOf[f] = "go" /\ c.flaws \cap {"lint", "syntax"} # {}
    BY <1>8 DEF Faults
  <2>2. Those(T, "go") # {}
    BY <2>1 DEF Those
  <2>3. "lint" \in c.flaws \/ "syntax" \in c.flaws
    BY <2>1
  <2>4. LintFails(T) = TRUE
    BY <1>1, <2>1, <2>3 DEF LintFails, Flawed, Those
  <2>5. r \in {Result({}, failed, FALSE) : failed \in {TRUE, LintFails(T)}}
    BY <1>8, <2>2 DEF Results, LintResults
  <2>6. r = Result({}, TRUE, FALSE)
    BY <2>4, <2>5
  <2> QED
    BY <2>6 DEF Result
<1> QED
  BY <1>4, <1>5, <1>6, <1>7, <1>8 DEF Checker

\* What is accounted for stays so while the file is left alone.
LEMMA StillAccounted ==
    ASSUME NEW k, NEW f, Accounted(k, f), work'[f] = work[f],
           run.found \subseteq run'.found, run.failed \subseteq run'.failed, run.cut => run'.cut
    PROVE  Accounted(k, f)'
<1>1. Unheard \subseteq Unheard'
  BY DEF Unheard
<1> QED
  BY <1>1 DEF Accounted

\* What the developer's steps leave alone: all files but one.
LEMMA DeveloperTouches ==
    ASSUME TypeInv, Developer
    PROVE  \E f \in File :
             /\ Touch(f) /\ UNCHANGED <<head, run, outcome>>
             /\ \A g \in File : g # f => work'[g] = work[g] /\ index'[g] = index[g]
<1>1. Tree(work) /\ Tree(index)
  BY TypeParts DEF TypeInv
<1>2. PICK f \in File : \/ Stage(f)
                        \/ \E c \in Content \cup {Absent} : Edit(f, c) \/ EditAndStage(f, c)
  BY Zenon DEF Developer
<1>3. \E c, d : /\ work' = work \/ work' = [work EXCEPT ![f] = c]
                /\ index' = index \/ index' = [index EXCEPT ![f] = d]
  BY <1>2, Zenon DEF Stage, Edit, EditAndStage
<1>4. Touch(f) /\ UNCHANGED <<head, run, outcome>>
  BY <1>2, Zenon DEF Stage, Edit, EditAndStage
<1>5. \A g \in File : g # f => work'[g] = work[g] /\ index'[g] = index[g]
  BY <1>1, <1>3 DEF Tree
<1> QED
  BY <1>4, <1>5

\* The developer's steps keep the invariants, which speak of the files he left
\* alone.
LEMMA TouchedKeeps ==
    ASSUME PreCommitInv, Developer
    PROVE  CheckInv' /\ TargetInv' /\ FixInv' /\ IdleInv'
<1>1. PICK f \in File :
         /\ Touch(f) /\ UNCHANGED <<head, run, outcome>>
         /\ \A g \in File : g # f => work'[g] = work[g] /\ index'[g] = index[g]
  BY DeveloperTouches DEF PreCommitInv
<1>2. CASE outcome = "none"
  <2>1. run'.cmd = "none" /\ outcome' = "none"
    BY <1>1, <1>2 DEF PreCommitInv, IdleInv
  <2> QED
    BY <2>1 DEF CheckInv, PreCommitRun, TargetInv, FixInv, IdleInv
<1>3. CASE outcome # "none"
  <2>1. touched' = touched \cup {f} /\ run' = run /\ outcome' = outcome /\ head' = head
    BY <1>1, <1>3 DEF Touch
  <2>2. run.targets \subseteq File
    BY DEF PreCommitInv, TypeInv, RunType
  <2>3. ASSUME NEW g \in run.targets \ touched', NEW k, Accounted(k, g) PROVE Accounted(k, g)'
    <3>1. work'[g] = work[g]
      BY <1>1, <2>1, <2>2
    <3> QED
      BY <2>1, <2>3, <3>1, StillAccounted
  <2>4. CheckInv'
    <3>1. outcome = "running" /\ PreCommitRun =>
             \A g \in run.targets \ touched', k \in Checker : (Accounted(k, g) \/ Waiting(k))'
      <4>1. \A k : Waiting(k)' <=> Waiting(k)
        BY <2>1 DEF Waiting
      <4> QED
        BY <2>1, <2>3, <4>1 DEF PreCommitInv, CheckInv
    <3>2. AllAccounted => AllAccounted'
      BY <2>1, <2>3 DEF AllAccounted
    <3>3. PreCommitRun' <=> PreCommitRun
      BY <2>1 DEF PreCommitRun
    <3> QED
      BY <2>1, <3>1, <3>2, <3>3 DEF PreCommitInv, CheckInv
  <2>5. TargetInv'
    <3>1. ASSUME NEW g \in File \ touched', g \in StagedFiles(run.omitted)'
          PROVE  g \in StagedFiles(run.omitted)
      BY <1>1, <2>1, <3>1 DEF StagedFiles
    <3> QED
      BY <2>1, <3>1 DEF PreCommitInv, TargetInv
  <2>6. FixInv'
    <3>1. ASSUME NEW g \in run.targets \ touched' PROVE Settled(g)' <=> Settled(g)
      <4>1. work'[g] = work[g]
        BY <1>1, <2>1, <2>2
      <4> QED
        BY <4>1, Zenon DEF Settled
    <3>2. \A k : Waiting(k)' <=> Waiting(k)
      BY <2>1 DEF Waiting
    <3> QED
      BY <2>1, <3>1, <3>2 DEF PreCommitInv, FixInv
  <2> QED
    BY <2>1, <2>4, <2>5, <2>6 DEF PreCommitInv, IdleInv
<1> QED
  BY <1>2, <1>3

\* A turn of the loop keeps what was learnt, and adds the answer of its checker.
LEMMA CheckStepKeeps ==
    ASSUME TextAlgorithms(Seq(Byte)), PreCommitInv, CheckStep
    PROVE  CheckInv' /\ TargetInv' /\ FixInv' /\ IdleInv'
<1>a. TypeInv /\ UNCHANGED <<head, index, work, tools, touched, edits>>
  BY DEF CheckStep, PreCommitInv
<1>1. PICK k \in Checker :
         /\ RunType' /\ ~Fixing /\ outcome = "running"
         /\ k = run.todo[1]
         /\ run'.cmd = run.cmd /\ run'.targets = run.targets
         /\ run'.omitted = run.omitted /\ run'.failFast = run.failFast
         /\ \/ outcome' = "error"
            \/ /\ ~Errs(k, run.targets)
               /\ \E r \in Results(k, run.targets) :
                     /\ run'.found = run.found \cup ({k} \X r.named)
                     /\ run'.failed = IF r.failed THEN run.failed \cup {k} ELSE run.failed
                     /\ run'.cut = (run.cut \/ r.cut)
               /\ outcome' \in {"running", "passed", "violations"}
               /\ outcome' = "running" => run'.todo = Tail(run.todo) /\ Len(run.todo) > 1
               /\ outcome' = "passed" => /\ run'.found = {} /\ run'.failed = {}
                                         /\ Len(run.todo) = 1
               /\ outcome' = "violations" => Len(run.todo) = 1 \/ run.failFast
  BY <1>a, CheckStepRun
<1>b. /\ run'.cmd = run.cmd /\ run'.targets = run.targets /\ ~Fixing /\ outcome = "running"
      /\ run'.omitted = run.omitted /\ run'.failFast = run.failFast /\ k = run.todo[1]
  BY <1>1
<1>c. outcome' \in {"error", "running", "passed", "violations"}
  BY <1>1
<1>2. TargetInv'
  BY <1>a, <1>b DEF PreCommitInv, TargetInv, StagedFiles
<1>3. FixInv' /\ IdleInv'
  BY <1>b, <1>c DEF FixInv, IdleInv, Fixing
<1>4. SUFFICES ASSUME PreCommitRun, outcome' # "error"
               PROVE  /\ outcome' = "running" =>
                            \A f \in run.targets \ touched, j \in Checker : (Accounted(j, f) \/ Waiting(j))'
                      /\ outcome' = "passed" => run'.found = {} /\ run'.failed = {} /\ AllAccounted'
                      /\ outcome' = "violations" /\ ~run'.failFast => AllAccounted'
  BY <1>2, <1>3, <1>a, <1>b DEF CheckInv, PreCommitRun
<1>5. /\ ~Errs(k, run.targets)
      /\ outcome' = "running" => run'.todo = Tail(run.todo)
      /\ outcome' = "passed" => run'.found = {} /\ run'.failed = {} /\ Len(run.todo) = 1
      /\ outcome' = "violations" => Len(run.todo) = 1 \/ run.failFast
  BY <1>1, <1>4
<1>6. PICK r \in Results(k, run.targets) :
         /\ run'.found = run.found \cup ({k} \X r.named)
         /\ run'.failed = IF r.failed THEN run.failed \cup {k} ELSE run.failed
         /\ run'.cut = (run.cut \/ r.cut)
  BY <1>1, <1>4
<1>7. /\ run.found \subseteq run'.found /\ run.failed \subseteq run'.failed /\ (run.cut => run'.cut)
      /\ \A f \in r.named : <<k, f>> \in run'.found
      /\ r.failed => k \in run'.failed
      /\ r.cut => run'.cut
  BY <1>6
<1>8. \A f \in run.targets, j \in Checker : Accounted(j, f) => Accounted(j, f)'
  BY <1>a, <1>7, StillAccounted
<1>9. ASSUME NEW f \in run.targets PROVE Accounted(k, f)'
  <2>1. /\ k = "files" => work[f] # Absent
        /\ work[f] # Absent /\ k \in Faults(f, work[f])
              => f \in r.named \/ r.failed \/ (k = "yaml" /\ r.cut)
    BY <1>a, <1>5, Answered
  <2>2. r.cut /\ k = "yaml" => k \in Unheard'
    BY <1>7 DEF Unheard
  <2> QED
    BY <1>7, <1>a, <2>1, <2>2 DEF Accounted
<1>10. \A f \in run.targets \ touched, j \in Checker : Accounted(j, f) \/ Waiting(j)
  BY <1>4, <1>b DEF PreCommitInv, CheckInv
<1>11. run.todo \in Seq(Checker) /\ run.todo # <<>>
  BY <1>a, <1>b DEF TypeInv, TypeOK, RunType
<1>12. /\ Len(run.todo) = 1 => \A i \in 1..Len(run.todo) : run.todo[i] = run.todo[1]
       /\ \A i \in 1..Len(run.todo) : run.todo[i] = run.todo[1]
             \/ \E j \in 1..Len(Tail(run.todo)) : Tail(run.todo)[j] = run.todo[i]
  BY <1>11, FirstOfSeq
<1>13. Len(run.todo) = 1 => AllAccounted'
  <2>1. Len(run.todo) = 1 => \A j \in Checker : Waiting(j) => j = k
    BY <1>12, <1>b, Zenon DEF Waiting
  <2>2. Len(run.todo) = 1 => \A f \in run.targets \ touched, j \in Checker : Accounted(j, f)'
    BY <1>8, <1>9, <1>10, <2>1
  <2> QED
    BY <1>a, <1>b, <2>2 DEF AllAccounted
<1>14. ASSUME outcome' = "running"
       PROVE  \A f \in run.targets \ touched, j \in Checker : (Accounted(j, f) \/ Waiting(j))'
  <2>1. run'.todo = Tail(run.todo)
    BY <1>5, <1>14
  <2>2. \A j \in Checker : Waiting(j) => j = k \/ Waiting(j)'
    BY <1>12, <1>b, <2>1, Zenon DEF Waiting
  <2> QED
    BY <1>8, <1>9, <1>10, <2>2
<1> QED
  BY <1>5, <1>13, <1>14, <1>b

\* A turn of a fix settles its file and leaves the others as they are.
LEMMA FixStepKeeps ==
    ASSUME TextAlgorithms(Seq(Byte)), PreCommitInv, FixStep
    PROVE  CheckInv' /\ TargetInv' /\ FixInv' /\ IdleInv'
<1>a. TypeInv /\ UNCHANGED <<head, index, tools, touched, edits>>
  BY DEF FixStep, PreCommitInv
<1>1. PICK k \in {"files", "format"}, f \in File :
         /\ RunType' /\ Fixing /\ outcome = "running" /\ run.todo[1] = <<k, f>>
         /\ run'.cmd = run.cmd /\ run'.targets = run.targets
         /\ \/ outcome' = "error" /\ UNCHANGED work
            \/ /\ work[f] \in Version
               /\ \E c \in Version :
                    /\ work' = [work EXCEPT ![f] = c]
                    /\ k = "files" => c.text = FixFileContent(f, work[f].text)
               /\ outcome' = IF Len(run.todo) = 1 THEN "fixed" ELSE "running"
               /\ run'.todo = Tail(run.todo)
  BY <1>a, FixStepRun
<1>2. CheckInv' /\ TargetInv' /\ IdleInv'
  BY <1>1 DEF CheckInv, PreCommitRun, TargetInv, IdleInv, Fixing
<1>3. SUFFICES ASSUME run.cmd = "fixFiles", outcome' # "error"
               PROVE  /\ outcome' = "running" =>
                            /\ \A i \in 1..Len(run'.todo) : run'.todo[i][1] = "files"
                            /\ \A g \in run.targets \ touched : (Waiting(<<"files", g>>) \/ Settled(g))'
                      /\ outcome' = "fixed" => \A g \in run.targets \ touched : Settled(g)'
  BY <1>1, <1>2, <1>a DEF FixInv
<1>4. PICK c \in Version : /\ work' = [work EXCEPT ![f] = c]
                           /\ k = "files" => c.text = FixFileContent(f, work[f].text)
  BY <1>1, <1>3
<1>5. /\ work[f] \in Version /\ outcome' = IF Len(run.todo) = 1 THEN "fixed" ELSE "running"
      /\ run'.todo = Tail(run.todo)
  BY <1>1, <1>3
<1>6. run.todo \in Seq(Job) /\ run.todo # <<>>
  BY <1>a, <1>1 DEF TypeInv, TypeOK, RunType
<1>7. /\ Len(run.todo) = 1 => \A i \in 1..Len(run.todo) : run.todo[i] = run.todo[1]
      /\ \A i \in 1..Len(run.todo) : run.todo[i] = run.todo[1]
            \/ \E j \in 1..Len(Tail(run.todo)) : Tail(run.todo)[j] = run.todo[i]
      /\ \A j \in 1..Len(Tail(run.todo)) : \E i \in 1..Len(run.todo) : Tail(run.todo)[j] = run.todo[i]
  BY <1>6, FirstOfSeq
<1>8. /\ \A i \in 1..Len(run.todo) : run.todo[i][1] = "files"
      /\ \A g \in run.targets \ touched : Waiting(<<"files", g>>) \/ Settled(g)
  BY <1>1, <1>3 DEF PreCommitInv, FixInv
<1>9. k = "files"
  <2>1. Len(run.todo) >= 1
    BY <1>6
  <2>2. run.todo[1][1] = "files"
    BY <1>6, <1>8, <2>1
  <2> QED
    BY <1>1, <2>2
<1>10. Settled(f)'
  <2>1. Tree(work)
    BY <1>a, TypeParts DEF TypeInv
  <2>2. work'[f].text = FixFileContent(f, work[f].text)
    BY <1>4, <1>9, <2>1, TreeUpdated
  <2>3. work[f].text \in Seq(Byte)
    BY <1>5 DEF Version
  <2>4. ~Contains(FixFileContent(f, work[f].text), "CR")
           => CheckFileContent(f, FixFileContent(f, work[f].text)) \subseteq {"size"}
    BY <2>3, Zenon DEF TextAlgorithms
  <2> QED
    BY <2>2, <2>4, Zenon DEF Settled
<1>11. ASSUME NEW g \in run.targets, Settled(g) PROVE Settled(g)'
  <2>1. CASE g = f
    BY <1>10, <2>1
  <2>2. CASE g # f
    <3>1. Tree(work) /\ g \in File
      BY <1>a, TypeParts DEF TypeInv, RunType
    <3>2. work'[g] = work[g]
      BY <1>4, <2>2, <3>1, TreeUpdated
    <3> QED
      BY <1>11, <3>2, Zenon DEF Settled
  <2> QED
    BY <2>1, <2>2
<1>12. \A g \in run.targets : Waiting(<<"files", g>>) => g = f \/ Waiting(<<"files", g>>)'
  <2> SUFFICES ASSUME NEW g \in run.targets, NEW i \in 1..Len(run.todo), run.todo[i] = <<"files", g>>, g # f
               PROVE  Waiting(<<"files", g>>)'
    BY Zenon DEF Waiting
  <2>1. run.todo[i] # run.todo[1]
    BY <1>1
  <2> QED
    BY <1>5, <1>7, <2>1, Zenon DEF Waiting
<1>13. Len(run.todo) = 1 => \A g \in run.targets : Waiting(<<"files", g>>) => g = f
  <2> SUFFICES ASSUME Len(run.todo) = 1, NEW g \in run.targets, NEW i \in 1..Len(run.todo),
                      run.todo[i] = <<"files", g>>
               PROVE  g = f
    BY Zenon DEF Waiting
  <2>1. run.todo[i] = <<k, f>>
    BY <1>1, <1>7
  <2> QED
    BY <2>1
<1>14. \A i \in 1..Len(run'.todo) : run'.todo[i][1] = "files"
  <2>1. ASSUME NEW j \in 1..Len(Tail(run.todo)) PROVE Tail(run.todo)[j][1] = "files"
    <3>1. PICK i \in 1..Len(run.todo) : Tail(run.todo)[j] = run.todo[i]
      BY <1>7, Zenon
    <3> QED
      BY <1>8, <3>1, Zenon
  <2> QED
    BY <1>5, <2>1, Zenon
<1>15. \A g \in run.targets \ touched : (Waiting(<<"files", g>>) \/ Settled(g))'
  BY <1>8, <1>10, <1>11, <1>12, Zenon
<1>16. Len(run.todo) = 1 => \A g \in run.targets \ touched : Settled(g)'
  BY <1>8, <1>10, <1>11, <1>13, Zenon
<1>17. run'.targets = run.targets /\ (outcome' = "fixed" => Len(run.todo) = 1)
  BY <1>1, <1>5
<1> QED
  BY <1>14, <1>15, <1>16, <1>17, Zenon

\* Every step keeps the invariant.
LEMMA PreCommitStep == TextAlgorithms(Seq(Byte)) /\ PreCommitInv /\ [Next]_vars => PreCommitInv'
<1> SUFFICES ASSUME TextAlgorithms(Seq(Byte)), PreCommitInv, [Next]_vars
             PROVE  CheckInv' /\ TargetInv' /\ FixInv' /\ IdleInv'
  BY TypeInvStep DEF PreCommitInv
<1> DEFINE Goal == CheckInv' /\ TargetInv' /\ FixInv' /\ IdleInv'
<1>1. ASSUME NEW cmd \in {"hook", "modified"}, NEW failFast \in BOOLEAN,
             NEW omitted \in SUBSET (MayBeRenamed \cup MayBeRetyped(head, index)),
             NEW retyped \in SUBSET MayBeRetyped(index, work),
             StartPreCommit(cmd, failFast, omitted, retyped)
      PROVE  Goal
  <2>1. omitted \in SUBSET File /\ retyped \in SUBSET File
    BY DEF MayBeRenamed, MayBeRetyped
  <2>2. /\ run'.cmd = cmd /\ run'.targets = SelectFiles(cmd, omitted, retyped)
        /\ run'.omitted = omitted /\ run'.found = {} /\ run'.failed = {}
        /\ run'.todo = IF run'.targets = {} THEN <<>> ELSE PreCommitOrder
        /\ outcome' = IF run'.targets = {} THEN "passed" ELSE "running"
    <3>1. RunBegins(cmd, omitted, retyped)
      BY <1>1, <2>1, StartPreCommitRun, Zenon
    <3> QED
      BY <3>1 DEF RunBegins
  <2>3. UNCHANGED <<head, index>>
    BY <1>1 DEF StartPreCommit
  <2>4. TargetInv'
    BY <2>2, <2>3 DEF TargetInv, SelectFiles, StagedFiles
  <2>5. \A k \in Checker : \E i \in 1..Len(PreCommitOrder) : PreCommitOrder[i] = k
    <3>1. /\ Len(PreCommitOrder) = 5
          /\ PreCommitOrder[1] = "files" /\ PreCommitOrder[2] = "yaml" /\ PreCommitOrder[3] = "toml"
          /\ PreCommitOrder[4] = "format" /\ PreCommitOrder[5] = "lint"
      BY DEF PreCommitOrder
    <3>2. 1 \in 1..5 /\ 2 \in 1..5 /\ 3 \in 1..5 /\ 4 \in 1..5 /\ 5 \in 1..5
      OBVIOUS
    <3> QED
      BY <3>1, <3>2, Zenon DEF Checker
  <2>6. outcome' = "running" => \A k \in Checker : Waiting(k)'
    BY <2>2, <2>5, Zenon DEF Waiting
  <2>7. CheckInv'
    BY <2>2, <2>6 DEF CheckInv, AllAccounted
  <2> QED
    BY <2>2, <2>4, <2>7 DEF FixInv, IdleInv
<1>2. ASSUME NEW k \in Checker, NEW targets \in Args, StartCheck(k, targets)
      PROVE  Goal
  <2>1. run'.cmd = "check" /\ outcome' = "running"
    BY <1>2, StartCheckRun
  <2> QED
    BY <2>1 DEF CheckInv, PreCommitRun, TargetInv, FixInv, IdleInv
<1>3. ASSUME NEW k \in Checker, NEW targets \in Args, StartFix(k, targets)
      PROVE  Goal
  <2>1. /\ run'.cmd = IF k = "files" THEN "fixFiles" ELSE "fixFormat"
        /\ \A f \in run'.targets : \E i \in 1..Len(run'.todo) : run'.todo[i] = <<k, f>>
        /\ \A i \in 1..Len(run'.todo) : run'.todo[i][1] = k
        /\ outcome' = IF run'.targets = {} THEN "fixed" ELSE "running"
    BY <1>3, StartFixRun
  <2>2. CheckInv' /\ TargetInv' /\ IdleInv'
    BY <2>1 DEF CheckInv, PreCommitRun, TargetInv, IdleInv
  <2>3. k = "files" => \A f \in run'.targets : Waiting(<<"files", f>>)'
    BY <2>1, Zenon DEF Waiting
  <2>4. FixInv'
    BY <2>1, <2>3 DEF FixInv
  <2> QED
    BY <2>2, <2>4
<1>4. CASE CheckStep
  BY <1>4, CheckStepKeeps
<1>5. CASE FixStep
  BY <1>5, FixStepKeeps
<1>6. CASE Commit \/ Dismiss
  <2>1. run'.cmd = "none" /\ outcome' = "none"
    BY <1>6 DEF Commit, Dismiss, NoRun
  <2> QED
    BY <2>1 DEF CheckInv, PreCommitRun, TargetInv, FixInv, IdleInv
<1>7. CASE Developer
  BY <1>7, TouchedKeeps
<1>8. CASE UNCHANGED vars
  <2>1. UNCHANGED <<head, index, work, tools, run, outcome, touched>>
    BY <1>8 DEF vars
  <2>2. \A k, f : (Accounted(k, f)' <=> Accounted(k, f)) /\ (Waiting(k)' <=> Waiting(k))
    BY <2>1 DEF Accounted, Unheard, Waiting
  <2>3. CheckInv'
    BY <2>1, <2>2 DEF PreCommitInv, CheckInv, PreCommitRun, AllAccounted
  <2> QED
    BY <2>1, <2>2, <2>3 DEF PreCommitInv, TargetInv, StagedFiles, FixInv, Settled, IdleInv
<1> QED
  BY <1>1, <1>2, <1>3, <1>4, <1>5, <1>6, <1>7, <1>8 DEF Next, Start

\* The invariant holds initially, hence always.
LEMMA PreCommitInvCorrect == TextAlgorithms(Seq(Byte)) => (Spec => []PreCommitInv)
<1> SUFFICES ASSUME TextAlgorithms(Seq(Byte)) PROVE Spec => []PreCommitInv
  OBVIOUS
<1>1. Init => TypeInv
  BY TypeInitially
<1>2. Init => CheckInv /\ TargetInv /\ FixInv /\ IdleInv
  BY DEF Init, NoRun, CheckInv, TargetInv, FixInv, IdleInv
<1>3. Init => PreCommitInv
  BY <1>1, <1>2 DEF PreCommitInv
<1> QED
  BY <1>3, PreCommitStep, PTL DEF Spec

\* What the verdict "passed" says, in one state.
LEMMA PassedIsTidy == PreCommitInv => PassMeansTidy
<1> SUFFICES ASSUME PreCommitInv, outcome = "passed", PreCommitRun, NEW f \in run.targets \ touched
             PROVE  work[f] # Absent /\ Faults(f, work[f]) \subseteq Unheard
  BY DEF PassMeansTidy
<1>1. run.found = {} /\ run.failed = {} /\ \A k \in Checker : Accounted(k, f)
  BY DEF PreCommitInv, CheckInv, AllAccounted
<1>2. work[f] # Absent
  BY <1>1 DEF Accounted, Checker
<1>3. ASSUME NEW k \in Faults(f, work[f]) PROVE k \in Unheard
  <2>1. k \in Checker
    BY <1>3 DEF Faults
  <2> QED
    BY <1>1, <1>2, <1>3, <2>1 DEF Accounted
<1> QED
  BY <1>2, <1>3

\* Whichever programs are missing, are killed or break off, and whatever the
\* developer does meanwhile: a pre-commit run that passes has found every
\* selected file that he left alone there and without faults, but for the YAML
\* errors that a yamllint which broke off did not tell.
THEOREM PassIsEarned == TextAlgorithms(Seq(Byte)) => (Spec => []PassMeansTidy)
BY PassedIsTidy, PreCommitInvCorrect, PTL

\* Without --fail-fast a run that ends with violations has reported, by its
\* checker, each fault of each selected file left alone: lint by failing, the
\* others by naming the file, yamllint unless it broke off.
THEOREM ReportNamesAll == TextAlgorithms(Seq(Byte)) => (Spec => []NothingHidden)
<1>1. PreCommitInv => NothingHidden
  <2> SUFFICES ASSUME PreCommitInv, outcome = "violations", PreCommitRun, ~run.failFast,
                      NEW f \in run.targets \ touched, NEW k \in Faults(f, work[f]) \ Unheard
               PROVE  <<k, f>> \in run.found \/ k \in run.failed
    BY DEF NothingHidden
  <2>1. \A j \in Checker : Accounted(j, f)
    BY DEF PreCommitInv, CheckInv, AllAccounted
  <2>2. work[f] # Absent
    BY <2>1 DEF Accounted, Checker
  <2>3. k \in Checker
    BY DEF Faults
  <2> QED
    BY <2>1, <2>2, <2>3 DEF Accounted
<1> QED
  BY <1>1, PreCommitInvCorrect, PTL

\* A `files --fix` that ends leaves nothing but sizes to report, in files
\* without CRs that the developer left alone.
THEOREM FixIsThorough == TextAlgorithms(Seq(Byte)) => (Spec => []FixSettles)
<1>1. PreCommitInv => FixSettles
  BY DEF PreCommitInv, FixInv, FixSettles, Settled
<1> QED
  BY <1>1, PreCommitInvCorrect, PTL

\* The hook guards the commit: a file it adds or modifies, and that git lists,
\* is without faults if the working tree held what was staged and the developer
\* left it alone, but for the YAML errors a broken yamllint did not tell.
THEOREM HookGuardsCommits == TextAlgorithms(Seq(Byte)) => (Spec => CommitIsTidy)
<1> DEFINE Guarded == head' # head =>
              \A f \in File \ (touched \cup run.omitted) :
                  (head'[f] # Absent /\ head'[f] # head[f] /\ work[f] = index[f])
                      => Faults(f, head'[f]) \subseteq Unheard
<1>1. PreCommitInv /\ [Next]_vars => [Guarded]_vars
  <2> SUFFICES ASSUME PreCommitInv, [Next]_vars, head' # head,
                      NEW f \in File \ (touched \cup run.omitted),
                      head'[f] # Absent, head'[f] # head[f], work[f] = index[f]
               PROVE  Faults(f, head'[f]) \subseteq Unheard
    OBVIOUS
  <2>1. Commit
    BY Zenon DEF Next, Start, StartPreCommit, StartCheck, StartFix, CheckStep, FixStep, Dismiss,
           Developer, Stage, Edit, EditAndStage, vars
  <2>2. run.cmd = "hook" /\ outcome = "passed" /\ head' = index
    BY <2>1 DEF Commit
  <2>3. f \in run.targets
    BY <2>2 DEF PreCommitInv, TargetInv, StagedFiles
  <2>4. Faults(f, work[f]) \subseteq Unheard
    BY <2>2, <2>3, PassedIsTidy DEF PassMeansTidy, PreCommitRun
  <2> QED
    BY <2>2, <2>4
<1> QED
  BY <1>1, PreCommitInvCorrect, PTL DEF Spec, CommitIsTidy

=============================================================================
