------------------------------ MODULE PreCommit -----------------------------
(***************************************************************************)
(* `mmw check`: the checks a developer, or git's pre-commit hook, runs in  *)
(* a repository that the developer keeps editing.  A command resolves its  *)
(* targets with git, then runs its checkers one after another; each of     *)
(* them reads the working tree when its turn comes.  `--fix` rewrites one  *)
(* target after another.                                                   *)
(*                                                                         *)
(* The text of a file is a short sequence of bytes, of which the files     *)
(* check tells five kinds apart; what yamllint, go-toml, gofumpt and       *)
(* golangci-lint (external) say of it is part of its content.              *)
(***************************************************************************)
EXTENDS Naturals, Sequences, SequencesExt

CONSTANTS
    File,      \* the files
    KindOf,    \* "go", "yaml", "toml" or "text", by extension
    Exempt,    \* the lockfiles, which may have any size
    Content,   \* what the developer may write
    Commits,   \* the commits the developer may start from
    Args,      \* the file arguments a command may be given
    MaxSize,   \* maxFileSize
    SniffLen,  \* binarySniffLen
    MaxLine,   \* maxLineBufBytes
    Absent,    \* no such file
    MaxEdits   \* bound on the developer's steps

Byte == {"x", "blank", "CR", "NL", "NUL"}
Flaw == {"syntax", "format", "lint"}
Checker == {"files", "yaml", "toml", "format", "lint"}

ASSUME PreCommitAssumption ==
    /\ IsFiniteSet(File)
    /\ KindOf \in [File -> {"go", "yaml", "toml", "text"}]
    /\ Exempt \subseteq File
    /\ Content \subseteq [text : Seq(Byte), flaws : SUBSET Flaw, generated : BOOLEAN]
    /\ Absent \notin Content
    /\ Commits \subseteq [File -> Content \cup {Absent}]
    /\ Args \subseteq SUBSET File
    /\ MaxSize \in Nat /\ SniffLen \in Nat /\ MaxLine \in Nat \ {0} /\ MaxEdits \in Nat

VARIABLES
    head,     \* the last commit
    index,    \* what is staged
    work,     \* the working tree
    tools,    \* the programs on PATH
    run,      \* the command in progress, or the last one
    outcome,  \* how it ended
    touched,  \* the files the developer edited or staged since it started
    edits

vars == <<head, index, work, tools, run, outcome, touched, edits>>

\* found: the reports that name a file; failed: the checkers that failed without
\* naming one; cut: yamllint broke off.
NoRun == [cmd |-> "none", todo |-> <<>>, targets |-> {}, omitted |-> {}, failFast |-> FALSE,
          found |-> {}, failed |-> {}, cut |-> FALSE]
Version == [text : Seq(Byte), flaws : SUBSET Flaw, generated : BOOLEAN]

TypeOK ==
    /\ \A tree \in {head, index, work} :
          DOMAIN tree = File /\ \A f \in File : tree[f] = Absent \/ tree[f] \in Version
    /\ tools \subseteq {"yamllint", "golangci-lint"}
    /\ run.cmd \in {"none", "hook", "modified", "check", "fixFiles", "fixFormat"}
    /\ run.targets \subseteq File /\ run.found \subseteq Checker \X File
    /\ outcome \in {"none", "running", "passed", "violations", "error", "fixed"}
    /\ outcome = "running" => run.todo # <<>>
    /\ run.failed \subseteq {"yaml", "lint"} /\ run.cut \in BOOLEAN
    /\ touched \subseteq File /\ edits \in 0..MaxEdits

Init ==
    /\ head \in Commits /\ index = head /\ work = head
    /\ tools \in SUBSET {"yamllint", "golangci-lint"}
    /\ run = NoRun /\ outcome = "none" /\ touched = {} /\ edits = 0

-----------------------------------------------------------------------------
(* The files check: its text algorithms. *)

\* bufio.ScanLines: the lines without their newline and one CR before it; what
\* follows the last newline is a line when it is not empty.
DropCR(line) == IF line # <<>> /\ Last(line) = "CR" THEN Front(line) ELSE line
ScanLines(text) ==
    LET take(acc, b) == IF b = "NL" THEN [lines |-> Append(acc.lines, acc.rest), rest |-> <<>>]
                                    ELSE [acc EXCEPT !.rest = Append(@, b)]
        all == FoldLeft(take, [lines |-> <<>>, rest |-> <<>>], text)
        lines == IF all.rest = <<>> THEN all.lines ELSE Append(all.lines, all.rest)
    IN  [i \in DOMAIN lines |-> DropCR(lines[i])]

\* strings.TrimRight(line, " \t")
TrimRight(line) ==
    LET ends == {i \in 0..Len(line) : \A j \in (i + 1)..Len(line) : line[j] = "blank"}
    IN  SubSeq(line, 1, CHOOSE i \in ends : \A j \in ends : i <= j)

TooBig(f, text) == Len(text) > MaxSize /\ f \notin Exempt
IsBinary(text) == \E i \in DOMAIN text : i <= SniffLen /\ text[i] = "NUL"

\* The scanner gives up on a line that fills its buffer.
LongLine(text) == \E i \in DOMAIN text : /\ i + MaxLine - 1 <= Len(text)
                                         /\ \A j \in i..(i + MaxLine - 1) : text[j] # "NL"
ScanErrs(f, text) == ~TooBig(f, text) /\ ~IsBinary(text) /\ LongLine(text)

\* checkFileContent: the rules the file breaks.
CheckFileContent(f, text) ==
    IF TooBig(f, text) THEN {"size"}
    ELSE IF IsBinary(text) THEN {}
    ELSE {rule \in {"space", "eof"} :
             IF rule = "space" THEN \E i \in DOMAIN ScanLines(text) :
                                       TrimRight(ScanLines(text)[i]) # ScanLines(text)[i]
                               ELSE text # <<>> /\ Last(text) # "NL"}

\* fixFileContent: every line trimmed and ended with a newline.
FixFileContent(f, text) ==
    IF TooBig(f, text) \/ IsBinary(text) THEN text
    ELSE FlattenSeq([i \in DOMAIN ScanLines(text) |->
                        Append(TrimRight(ScanLines(text)[i]), "NL")])

-----------------------------------------------------------------------------
(* The checkers: what Check(targets) returns in the working tree as it is.  *)
(* An error stops the command, a violation does not.                        *)

Tracked == {f \in File : index[f] # Absent}

\* resolveTargets, resolveLintTargets, FilterByExt.  All Go files are one
\* package here, which any of them, its pattern or ./... stands for.
Those(T, kind) == {f \in T : KindOf[f] = kind}
Resolve(k, targets) ==
    IF targets # {} THEN targets ELSE IF k = "lint" THEN Those(File, "go") ELSE Tracked
Missing(T) == \E f \in T : work[f] = Absent
Flawed(T, flaw) == {f \in T : work[f] # Absent /\ flaw \in work[f].flaws}

\* gofumpt parses the files that are not marked as generated.
FormatErrs(T) ==
    Missing(T) \/ \E f \in Flawed(T, "syntax") : ~work[f].generated

\* Check of each checker returns an error.
Errs(k, T) ==
    CASE k = "files" -> {f \in T : work[f] = Absent \/ ScanErrs(f, work[f].text)} # {}
      [] k = "yaml" -> Those(T, "yaml") # {} /\ "yamllint" \notin tools
      [] k = "toml" -> Missing(Those(T, "toml"))
      [] k = "format" -> FormatErrs(Those(T, "go"))
      [] k = "lint" -> "golangci-lint" \notin tools

\* Mutant of LintFails: the exit status is not looked at.
LintIgnored(T) == FALSE

\* golangci-lint exits non-zero: a package is flawed, or it is given no Go file.
LintFails(T) ==
    \/ Those(T, "go") = {}
    \/ Flawed(Those(File, "go"), "lint") \cup Flawed(Those(File, "go"), "syntax") # {}

\* A Result: the files it names, failed, and whether yamllint broke off.
Result(named, failed, cut) == [named |-> named, failed |-> failed, cut |-> cut]

\* yamllint names the files with errors.  Killed, broken or faced with a missing
\* file, it ends early: it has named some of them, and its last words, if any,
\* are a violation without a file.  Its exit status is not looked at.
YamlResults(T) ==
    LET bad == Flawed(Those(T, "yaml"), "syntax")
    IN  {r \in {Result(named, failed, cut) : named \in SUBSET bad, failed, cut \in BOOLEAN} :
            /\ Those(T, "yaml") = {} => ~r.failed /\ ~r.cut
            /\ r.cut \/ (~r.failed /\ r.named = bad /\ ~Missing(Those(T, "yaml")))}

\* lint never names a file, and fails too when golangci-lint is killed.  A hook
\* that selects no Go file does not start it.
LintResults(T) ==
    IF run.cmd # "check" /\ Those(T, "go") = {} THEN {Result({}, FALSE, FALSE)}
    ELSE {Result({}, failed, FALSE) : failed \in {TRUE, LintFails(T)}}

\* What Check may return without an error.
Results(k, T) ==
    CASE k = "files" -> {Result({f \in T : CheckFileContent(f, work[f].text) # {}}, FALSE, FALSE)}
      [] k = "yaml" -> YamlResults(T)
      [] k = "toml" -> {Result(Flawed(Those(T, "toml"), "syntax"), FALSE, FALSE)}
      [] k = "format" -> {Result({f \in Flawed(Those(T, "go"), "format") : ~work[f].generated},
                                 FALSE, FALSE)}
      [] k = "lint" -> LintResults(T)
HasViolations(r) == r.named # {} \/ r.failed

-----------------------------------------------------------------------------
(* Starting a command. *)

\* The filter ACM leaves out what git classes as renamed (a new file it pairs
\* with one that is gone) or as retyped (a symbolic link became a file, or the
\* other way round): which files those are is git's affair.
MayBeRenamed == {f \in File : /\ head[f] = Absent
                              /\ \E g \in File : head[g] # Absent /\ index[g] = Absent}
MayBeRetyped(from, to) == {f \in File : from[f] # Absent /\ to[f] # Absent /\ from[f] # to[f]}

\* Mutant of StagedFiles: what is modified and not staged instead.
UnstagedFiles(omitted) == {f \in File \ omitted : index[f] # Absent /\ work[f] # index[f]}

\* git diff --cached --diff-filter=ACM, and without --cached.
StagedFiles(omitted) == {f \in File \ omitted : index[f] # Absent /\ index[f] # head[f]}
ModifiedFiles(omitted, retyped) ==
    StagedFiles(omitted) \cup
        {f \in File \ retyped : index[f] # Absent /\ work[f] # Absent /\ work[f] # index[f]}

\* SelectFiles
SelectFiles(cmd, omitted, retyped) ==
    IF cmd = "modified" THEN ModifiedFiles(omitted, retyped) ELSE StagedFiles(omitted)

\* Mutant of PreCommitOrder: no checker is registered.
NoCheckers == <<>>

\* The checkers of runPreCommit.
PreCommitOrder == <<"files", "yaml", "toml", "format", "lint">>

\* `check pre-commit`, as git's hook or with --modified.  An empty selection
\* passes: the checkers would take it for everything.
StartPreCommit(cmd, failFast, omitted, retyped) ==
    LET files == SelectFiles(cmd, omitted, retyped)
    IN  /\ outcome = "none"
        /\ run' = [NoRun EXCEPT !.cmd = cmd, !.failFast = failFast, !.targets = files,
                                !.omitted = omitted,
                                !.todo = IF files = {} THEN <<>> ELSE PreCommitOrder]
        /\ outcome' = IF files = {} THEN "passed" ELSE "running"
        /\ UNCHANGED <<head, index, work, tools, touched, edits>>

\* `check <name> [files...]`, `check lint [packages...]`
StartCheck(k, targets) ==
    /\ outcome = "none"
    /\ run' = [NoRun EXCEPT !.cmd = "check", !.targets = Resolve(k, targets), !.todo = <<k>>]
    /\ outcome' = "running"
    /\ UNCHANGED <<head, index, work, tools, touched, edits>>

\* `check files --fix` and `check format --fix`: the files in some order.
StartFix(k, targets) ==
    LET files == IF k = "files" THEN Resolve(k, targets) ELSE Those(Resolve(k, targets), "go")
    IN  /\ outcome = "none"
        /\ k \in {"files", "format"}
        /\ run' = [NoRun EXCEPT !.cmd = IF k = "files" THEN "fixFiles" ELSE "fixFormat", !.targets = files,
                                !.todo = [i \in 1..Len(SetToSeq(files)) |->
                                            <<k, SetToSeq(files)[i]>>]]
        /\ outcome' = IF files = {} THEN "fixed" ELSE "running"
        /\ UNCHANGED <<head, index, work, tools, touched, edits>>

-----------------------------------------------------------------------------
(* The steps of a command. *)

Fixing == run.cmd \in {"fixFiles", "fixFormat"}

\* An error ends the command; what was found before is then not printed.
CheckFails(k) ==
    /\ Errs(k, run.targets)
    /\ run' = [run EXCEPT !.todo = <<>>, !.found = {}, !.failed = {}]
    /\ outcome' = "error"

\* The verdict on what was found.
Verdict(found, failed) == IF found = {} /\ failed = {} THEN "passed" ELSE "violations"

\* The result r of checker k is kept; stop ends the command.
KeepResult(k, r, stop) ==
    LET found == run.found \cup ({k} \X r.named)
        failed == IF r.failed THEN run.failed \cup {k} ELSE run.failed
    IN  /\ run' = [run EXCEPT !.todo = IF stop THEN <<>> ELSE Tail(@), !.found = found,
                              !.failed = failed, !.cut = @ \/ r.cut]
        /\ outcome' = IF stop THEN Verdict(found, failed) ELSE "running"

\* Mutant of CheckStep: the first violations end the command.
CheckStepStops ==
    LET k == Head(run.todo)
    IN  /\ outcome = "running" /\ ~Fixing
        /\ \/ CheckFails(k)
           \/ /\ ~Errs(k, run.targets)
              /\ \E r \in Results(k, run.targets) :
                    KeepResult(k, r, Len(run.todo) = 1 \/ HasViolations(r))
        /\ UNCHANGED <<head, index, work, tools, touched, edits>>

\* RunPreCommit's loop, and the command's verdict after the last checker.
CheckStep ==
    LET k == Head(run.todo)
    IN  /\ outcome = "running" /\ ~Fixing
        /\ \/ CheckFails(k)
           \/ /\ ~Errs(k, run.targets)
              /\ \E r \in Results(k, run.targets) :
                    KeepResult(k, r, Len(run.todo) = 1 \/ (run.failFast /\ HasViolations(r)))
        /\ UNCHANGED <<head, index, work, tools, touched, edits>>

\* Mutant of FixStep: a file that ends with a newline is passed over.
FixStepSkips ==
    LET f == Head(run.todo)[2]
        text == work[f].text
    IN  /\ outcome = "running" /\ Fixing /\ work[f] # Absent
        /\ work' = IF Contains(text, "NL") /\ Last(text) = "NL" THEN work
                   ELSE [work EXCEPT ![f].text = FixFileContent(f, @)]
        /\ run' = [run EXCEPT !.todo = Tail(@)]
        /\ outcome' = IF Len(run.todo) = 1 THEN "fixed" ELSE "running"
        /\ UNCHANGED <<head, index, tools, touched, edits>>

\* The next file of a Fix: an error stops it, with the files before rewritten.
\* gofumpt may leave blanks at line ends or take them away.
FixStep ==
    LET k == Head(run.todo)[1]
        f == Head(run.todo)[2]
        c == work[f]
    IN  /\ outcome = "running" /\ Fixing
        /\ IF c = Absent \/ (IF k = "files" THEN ScanErrs(f, c.text) ELSE FormatErrs({f}))
           THEN UNCHANGED work /\ run' = [run EXCEPT !.todo = <<>>] /\ outcome' = "error"
           ELSE /\ \E text \in IF k = "files" THEN {FixFileContent(f, c.text)}
                               ELSE IF c.generated THEN {c.text}
                               ELSE {c.text, FixFileContent(f, c.text)} :
                     work' = [work EXCEPT ![f] =
                        [c EXCEPT !.text = text,
                                  !.flaws = IF k = "format" /\ ~c.generated THEN @ \ {"format"} ELSE @]]
                /\ run' = [run EXCEPT !.todo = Tail(@)]
                /\ outcome' = IF Len(run.todo) = 1 THEN "fixed" ELSE "running"
        /\ UNCHANGED <<head, index, tools, touched, edits>>

\* git commit, after the hook passed.
Commit ==
    /\ run.cmd = "hook" /\ outcome = "passed" /\ index # head
    /\ head' = index
    /\ run' = NoRun /\ outcome' = "none" /\ touched' = {}
    /\ UNCHANGED <<index, work, tools, edits>>

\* The developer reads the outcome.
Dismiss ==
    /\ outcome \notin {"none", "running"}
    /\ run' = NoRun /\ outcome' = "none" /\ touched' = {}
    /\ UNCHANGED <<head, index, work, tools, edits>>

-----------------------------------------------------------------------------
(* The developer, at any moment. *)

Touch(f) ==
    /\ edits < MaxEdits /\ edits' = edits + 1
    /\ touched' = IF outcome = "none" THEN {} ELSE touched \cup {f}

Edit(f, c) ==
    /\ Touch(f) /\ work[f] # c
    /\ work' = [work EXCEPT ![f] = c]
    /\ UNCHANGED <<head, index, tools, run, outcome>>

Stage(f) ==
    /\ Touch(f) /\ index[f] # work[f]
    /\ index' = [index EXCEPT ![f] = work[f]]
    /\ UNCHANGED <<head, work, tools, run, outcome>>

\* An edit and git add.
EditAndStage(f, c) ==
    /\ Touch(f) /\ index[f] # c
    /\ work' = [work EXCEPT ![f] = c] /\ index' = [index EXCEPT ![f] = c]
    /\ UNCHANGED <<head, tools, run, outcome>>

Developer ==
    \E f \in File : Stage(f) \/ \E c \in Content \cup {Absent} : Edit(f, c) \/ EditAndStage(f, c)

Start ==
    \/ \E cmd \in {"hook", "modified"}, failFast \in BOOLEAN,
          omitted \in SUBSET (MayBeRenamed \cup MayBeRetyped(head, index)),
          retyped \in SUBSET MayBeRetyped(index, work) :
             StartPreCommit(cmd, failFast, omitted, retyped)
    \/ \E k \in Checker, targets \in Args : StartCheck(k, targets) \/ StartFix(k, targets)

Next == Start \/ CheckStep \/ FixStep \/ Commit \/ Dismiss \/ Developer

Spec == Init /\ [][Next]_vars

-----------------------------------------------------------------------------
(* What the checks promise. *)

\* A line ends with blanks: before a newline, the CR of one, or the end.
BlankAtLineEnd(t) ==
    \E i \in DOMAIN t : /\ t[i] = "blank"
                        /\ \/ i = Len(t) \/ t[i + 1] = "NL"
                           \/ (t[i + 1] = "CR" /\ (i + 1 = Len(t) \/ t[i + 2] = "NL"))

\* The text algorithms on the texts T: the check finds the lines that end with
\* blanks, the fix writes a text, and after it only a size is left to report.
TextAlgorithms(T) ==
    \A f \in File, t \in T :
        /\ TooBig(f, t) \/ IsBinary(t) \/ ("space" \in CheckFileContent(f, t) <=> BlankAtLineEnd(t))
        /\ FixFileContent(f, t) \in Seq(Byte)
        /\ ~Contains(FixFileContent(f, t), "CR")
              => CheckFileContent(f, FixFileContent(f, t)) \subseteq {"size"}

\* The checkers that a file with content c should not pass.
Faults(f, c) ==
    {k \in Checker :
        \/ k = "files" /\ Len(c.text) > MaxSize /\ f \notin Exempt
        \/ k = "files" /\ ~IsBinary(c.text) /\ BlankAtLineEnd(c.text)
        \/ k = "files" /\ ~IsBinary(c.text) /\ c.text # <<>> /\ Last(c.text) # "NL"
        \/ k \in {"yaml", "toml"} /\ KindOf[f] = k /\ "syntax" \in c.flaws
        \/ k = "format" /\ KindOf[f] = "go" /\ "format" \in c.flaws /\ ~c.generated
        \/ k = "lint" /\ KindOf[f] = "go" /\ c.flaws \cap {"lint", "syntax"} # {}}

\* The one checker whose answer may be lost: yamllint, if it broke off.
Unheard == IF run.cut THEN {"yaml"} ELSE {}

PreCommitRun == run.cmd \in {"hook", "modified"}

\* A pre-commit run that passes: every selected file that the developer left
\* alone is there and without faults, whichever programs are installed and
\* whatever he did to the others, except for YAML errors if yamllint broke off.
PassMeansTidy ==
    (outcome = "passed" /\ PreCommitRun) =>
        \A f \in run.targets \ touched : work[f] # Absent /\ Faults(f, work[f]) \subseteq Unheard

\* A pre-commit run that ends with violations, without --fail-fast: each fault
\* of each selected file left alone is reported by its checker.  It is not said
\* of a run that ends with an error: there the checkers after the one that errs
\* do not run, and what the others found is not printed.
NothingHidden ==
    (outcome = "violations" /\ PreCommitRun /\ ~run.failFast) =>
        \A f \in run.targets \ touched : \A k \in Faults(f, work[f]) \ Unheard :
            <<k, f>> \in run.found \/ k \in run.failed

\* The hook guards the commit: every file it adds or modifies is without
\* faults if the working tree held what is staged (the checkers do not read the
\* index) and the developer left it alone, except those git takes for renamed or
\* retyped and YAML errors if yamllint broke off.
CommitIsTidy ==
    [][head' # head =>
          \A f \in File \ (touched \cup run.omitted) :
              (head'[f] # Absent /\ head'[f] # head[f] /\ work[f] = index[f])
                  => Faults(f, head'[f]) \subseteq Unheard]_vars

\* `files --fix` resolves what it can in one go: a file without CRs that it
\* rewrote has at most a size to complain about.  Of blank, CR, blank at the end
\* of a line the fix leaves blank, CR, and the next check reports the blank.
FixSettles ==
    (run.cmd = "fixFiles" /\ outcome = "fixed") =>
        \A f \in run.targets \ touched :
            ~Contains(work[f].text, "CR") => CheckFileContent(f, work[f].text) \subseteq {"size"}
=============================================================================
