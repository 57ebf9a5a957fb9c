------------------------------- MODULE Driver --------------------------------
(***************************************************************************)
(* main, compile() and what they do to files: compilations started in one  *)
(* directory, one after the other or at once, any of which may be killed.  *)
(* All of them write the same two files, output.o and output.              *)
(*                                                                         *)
(* What the passes do is in the other modules; here each accepts or throws *)
(* as the program's flaw says.  A file's content is the set of programs    *)
(* whose bytes are in it, with "torn" if a part of one is missing; {} is   *)
(* an empty file.                                                          *)
(***************************************************************************)
EXTENDS FiniteSets

CONSTANTS
    Procs,       \* the compilations, each of a source file of its own
    Flaws        \* what may be wrong with a program

VARIABLES
    flaw,        \* the first pass that objects to the program, or none
    stage,       \* what main does next
    flag,        \* --output-llvm
    printed,     \* something was reported although the compilation goes on
    outcome,     \* running, silent, message, usage, crashed
    ll,          \* <filename>.ll of each
    object,      \* output.o
    exe,         \* output
    clang,       \* the linker of each: idle, reading, writing, failed, linked
    input,       \* what it has read
    failed,      \* history: something outside the program went wrong
    touched,     \* history: who has changed output.o or output
    ruined       \* history: whose file another changed before it was used

files   == <<object, exe, ll>>
linking == <<clang, input>>
history == <<failed, touched, ruined>>
vars    == <<flaw, stage, flag, printed, outcome, files, linking, history>>

Passes == {"lex", "parse", "check", "generate"}

Stages == {"arguments", "read", "open_llvm", "print_llvm", "verify",
           "open_object", "emit", "link", "wait", "ended"} \cup Passes

ASSUME FlawsAssumption == Flaws \subseteq Passes \cup {"verify", "link", "none"}
ASSUME ProcsAssumption == Procs \cap {"absent", "old", "torn"} = {}

Absent == {"absent"}
Old    == {"old"}
Torn   == {"torn"}

Contents == {Absent} \cup SUBSET (Procs \cup Old \cup Torn)

Init ==
    /\ flaw \in [Procs -> Flaws]
    /\ stage = [p \in Procs |-> "arguments"]
    /\ flag \in [Procs -> BOOLEAN]
    /\ printed = {}
    /\ outcome = [p \in Procs |-> "running"]
    /\ ll = [p \in Procs |-> Absent]
    /\ object \in {Absent, Old, Old \cup Torn}
    /\ exe \in {Absent, Old}
    /\ clang = [p \in Procs |-> "idle"]
    /\ input = [p \in Procs |-> {}]
    /\ failed = {} /\ touched = {} /\ ruined = {}

(***************************************************************************)
(* Parts of steps.                                                         *)
(***************************************************************************)
At(p, s) == stage[p] = s
Go(p, s) == stage' = [stage EXCEPT ![p] = s]
End(p, o) == outcome' = [outcome EXCEPT ![p] = o] /\ Go(p, "ended")

\* The exception is printed, and main returns 0.
Throw(p) == End(p, "message")

Continue(p, s) == Go(p, s) /\ UNCHANGED outcome

Fails(p) == failed' = failed \cup {p}

\* Between a compilation's opening of output.o and its linker's reading, and
\* between its linker's writing and its return, a change is not its own.
UsesObject(p) == \/ stage[p] \in {"emit", "link"}
                 \/ stage[p] = "wait" /\ clang[p] = "reading"
UsesExe(p)    == stage[p] = "wait" /\ clang[p] = "linked"

SetObject(p, c) ==
    /\ object' = c
    /\ touched' = touched \cup {p}
    /\ ruined' = ruined \cup {q \in Procs \ {p} : UsesObject(q)}

SetExe(p, c) ==
    /\ exe' = c
    /\ touched' = touched \cup {p}
    /\ ruined' = ruined \cup {q \in Procs \ {p} : UsesExe(q)}

(***************************************************************************)
(* main.                                                                   *)
(***************************************************************************)
\* CLI11_PARSE returns a code of its own for arguments it cannot use.
parse_arguments(p) ==
    /\ At(p, "arguments")
    /\ Continue(p, "read") \/ End(p, "usage")
    /\ UNCHANGED <<flaw, flag, printed, files, linking, history>>

\* A file that cannot be read is reported, and the data that is not there used:
\* the process crashes or goes on with any text.
read_entire_file(p) ==
    /\ At(p, "read")
    /\ \/ Continue(p, "lex") /\ UNCHANGED <<flaw, printed, failed>>
       \/ /\ Fails(p)
          /\ printed' = printed \cup {p}
          /\ \/ End(p, "crashed") /\ UNCHANGED flaw
             \/ /\ Continue(p, "lex")
                /\ \E f \in Flaws : flaw' = [flaw EXCEPT ![p] = f]
    /\ UNCHANGED <<flag, files, linking, touched, ruined>>

After(s, p) == CASE s = "lex" -> "parse"
                 [] s = "parse" -> "check"
                 [] s = "check" -> "generate"
                 [] s = "generate" -> IF flag[p] THEN "open_llvm" ELSE "verify"

pass(p) ==
    /\ \E s \in Passes :
          /\ At(p, s)
          /\ IF flaw[p] = s THEN Throw(p) ELSE Continue(p, After(s, p))
    /\ UNCHANGED <<flaw, flag, printed, files, linking, history>>

(***************************************************************************)
(* CodegenVisitor::output_llvm and compile.                                *)
(***************************************************************************)
\* The file is opened twice; the first time it is emptied already.
open_llvm(p) ==
    /\ At(p, "open_llvm")
    /\ \/ /\ ll' = [ll EXCEPT ![p] = {}]
          /\ Continue(p, "print_llvm")
          /\ UNCHANGED <<printed, failed>>
       \/ /\ Fails(p)
          /\ printed' = printed \cup {p}
          /\ Continue(p, "verify")
          /\ UNCHANGED ll \/ ll' = [ll EXCEPT ![p] = {}]
    /\ UNCHANGED <<flaw, flag, object, exe, linking, touched, ruined>>

print_llvm(p) ==
    /\ At(p, "print_llvm")
    /\ ll' = [ll EXCEPT ![p] = {p}]
    /\ Continue(p, "verify")
    /\ UNCHANGED <<flaw, flag, printed, object, exe, linking, history>>

\* Mutant of verify: what the verifier finds is only reported.
verify_reporting(p) ==
    /\ At(p, "verify")
    /\ IF flaw[p] = "verify" THEN printed' = printed \cup {p} ELSE UNCHANGED printed
    /\ Continue(p, "open_object")
    /\ UNCHANGED <<flaw, flag, files, linking, history>>

verify(p) ==
    /\ At(p, "verify")
    /\ IF flaw[p] = "verify" THEN Throw(p) ELSE Continue(p, "open_object")
    /\ UNCHANGED <<flaw, flag, printed, files, linking, history>>

(***************************************************************************)
(* emit_object_file.                                                       *)
(***************************************************************************)
\* Mutant of open_object: an output.o that is there is not emptied.
open_object_kept(p) ==
    /\ At(p, "open_object")
    /\ \/ /\ SetObject(p, object \ Absent)
          /\ Continue(p, "emit")
          /\ UNCHANGED failed
       \/ Fails(p) /\ Throw(p) /\ UNCHANGED <<object, touched, ruined>>
    /\ UNCHANGED <<flaw, flag, printed, exe, ll, linking>>

\* Mutant of open_object: it is given the name of the executable.
open_object_output(p) ==
    /\ At(p, "open_object")
    /\ \/ SetExe(p, {}) /\ Continue(p, "emit") /\ UNCHANGED failed
       \/ Fails(p) /\ Throw(p) /\ UNCHANGED <<exe, touched, ruined>>
    /\ UNCHANGED <<flaw, flag, printed, object, ll, linking>>

\* No target, or the file cannot be opened; or it is, which empties it, and the
\* target cannot emit an object.
open_object(p) ==
    /\ At(p, "open_object")
    /\ \/ SetObject(p, {}) /\ Continue(p, "emit") /\ UNCHANGED failed
       \/ SetObject(p, {}) /\ Fails(p) /\ Throw(p)
       \/ Fails(p) /\ Throw(p) /\ UNCHANGED <<object, touched, ruined>>
    /\ UNCHANGED <<flaw, flag, printed, exe, ll, linking>>

\* Bytes another compilation wrote since the file was opened stay where they
\* are not written over.
emit(p) ==
    /\ At(p, "emit")
    /\ \/ SetObject(p, {p}) \/ SetObject(p, object \cup {p})
    /\ Continue(p, "link")
    /\ UNCHANGED <<flaw, flag, printed, exe, ll, linking, failed>>

(***************************************************************************)
(* link: std::system runs clang and waits for it.                          *)
(***************************************************************************)
start_clang(p) ==
    /\ At(p, "link")
    /\ \/ /\ clang' = [clang EXCEPT ![p] = "reading"]
          /\ Continue(p, "wait")
          /\ UNCHANGED failed
       \/ Fails(p) /\ Throw(p) /\ UNCHANGED clang
    /\ UNCHANGED <<flaw, flag, printed, files, input, touched, ruined>>

clang_reads(p) ==
    /\ clang[p] = "reading"
    /\ clang' = [clang EXCEPT ![p] = "writing"]
    /\ input' = [input EXCEPT ![p] = object]
    /\ UNCHANGED <<flaw, stage, flag, printed, outcome, files, history>>

\* A whole object with a main; of the bytes of several, it depends.
Linkable(c) == /\ c # {} /\ c # Absent /\ c \cap Torn = {}
               /\ \E q \in c : q \in Procs => flaw[q] # "link"

clang_writes(p) ==
    /\ clang[p] = "writing"
    /\ Linkable(input[p])
    /\ SetExe(p, input[p])
    /\ clang' = [clang EXCEPT ![p] = "linked"]
    /\ input' = [input EXCEPT ![p] = {}]
    /\ UNCHANGED <<flaw, stage, flag, printed, outcome, object, ll, failed>>

\* Because of the object or of anything else; an output that was there may be
\* gone.
clang_fails(p) ==
    /\ clang[p] = "writing"
    /\ IF Linkable(input[p]) THEN Fails(p) ELSE UNCHANGED failed
    /\ SetExe(p, Absent) \/ UNCHANGED <<exe, touched, ruined>>
    /\ clang' = [clang EXCEPT ![p] = "failed"]
    /\ input' = [input EXCEPT ![p] = {}]
    /\ UNCHANGED <<flaw, stage, flag, printed, outcome, object, ll>>

Finished(p) == End(p, IF p \in printed THEN "message" ELSE "silent")

\* Mutant of system_returns: the exit status of clang is not looked at.
system_returns_ok(p) ==
    /\ At(p, "wait")
    /\ clang[p] \in {"linked", "failed"}
    /\ Finished(p)
    /\ UNCHANGED <<flaw, flag, printed, files, linking, history>>

\* Mutant of system_returns: a linker that fails is run again.
system_retries(p) ==
    /\ At(p, "wait")
    /\ \/ clang[p] = "linked" /\ Finished(p)
       \/ clang[p] = "failed" /\ Continue(p, "link")
    /\ UNCHANGED <<flaw, flag, printed, files, linking, history>>

system_returns(p) ==
    /\ At(p, "wait")
    /\ \/ clang[p] = "linked" /\ Finished(p)
       \/ clang[p] = "failed" /\ Throw(p)
    /\ UNCHANGED <<flaw, flag, printed, files, linking, history>>

(***************************************************************************)
(* A compilation may be killed, or die: in a pass, or of a full disk in    *)
(* the destructor of raw_fd_ostream.  The file it was writing is torn; the *)
(* linker it was waiting for goes on.                                      *)
(***************************************************************************)
kill(p) ==
    /\ outcome[p] = "running"
    /\ End(p, "crashed")
    /\ \/ UNCHANGED <<object, ll, touched, ruined>>
       \/ /\ stage[p] = "print_llvm"
          /\ ll' = [ll EXCEPT ![p] = {p} \cup Torn]
          /\ UNCHANGED <<object, touched, ruined>>
       \/ /\ stage[p] = "emit"
          /\ SetObject(p, object \cup {p} \cup Torn)
          /\ UNCHANGED ll
    /\ UNCHANGED <<flaw, flag, printed, exe, linking, failed>>

Work(p) ==
    \/ parse_arguments(p)
    \/ read_entire_file(p)
    \/ pass(p)
    \/ open_llvm(p)
    \/ print_llvm(p)
    \/ verify(p)
    \/ open_object(p)
    \/ emit(p)
    \/ start_clang(p)
    \/ system_returns(p)

Clang(p) == clang_reads(p) \/ clang_writes(p) \/ clang_fails(p)

Stopped == /\ \A p \in Procs : outcome[p] # "running" /\ clang[p] \notin {"reading", "writing"}
           /\ UNCHANGED vars

Next == (\E p \in Procs : Work(p) \/ Clang(p) \/ kill(p)) \/ Stopped

\* Every process is scheduled, and clang comes to an end.  Nobody has to be
\* killed.
Spec == Init /\ [][Next]_vars /\ \A p \in Procs : WF_vars(Work(p)) /\ WF_vars(Clang(p))

-----------------------------------------------------------------------------
TypeOK ==
    /\ flaw \in [Procs -> Flaws]
    /\ stage \in [Procs -> Stages]
    /\ flag \in [Procs -> BOOLEAN]
    /\ printed \subseteq Procs
    /\ outcome \in [Procs -> {"running", "silent", "message", "usage", "crashed"}]
    /\ ll \in [Procs -> Contents]
    /\ object \in Contents /\ exe \in Contents \ {{}}
    /\ clang \in [Procs -> {"idle", "reading", "writing", "failed", "linked"}]
    /\ input \in [Procs -> Contents]

EndsWith(p, o) == outcome[p] = "running" /\ outcome'[p] = o

\* The exit status says nothing, since main returns 0 either way; a compilation
\* that prints nothing has left its own program in output, unless another one
\* wrote output.o before the linker had read it, or output after it; and the
\* .ll file it was asked for, which is its own.
SilentMeansBuilt ==
    [][\A p \in Procs : EndsWith(p, "silent") => /\ exe' = {p} \/ p \in ruined
                                                 /\ flag[p] => ll'[p] = {p}]_vars

\* A program that a pass or the verifier objects to changes neither file.
RejectedLeavesNoTrace ==
    \A p \in touched : flaw[p] \in {"link", "none"}

\* What an earlier compilation left behind, a torn output.o of a killed one too,
\* does not get in the way: with nothing wrong in the program and nothing going
\* wrong around it, a compilation nobody disturbs never ends with a message.
LeftoversHarmless ==
    \A p \in Procs : outcome[p] = "message" =>
        flaw[p] # "none" \/ p \in failed \cup ruined

\* Every compilation comes to an end.
CompilationsEnd == \A p \in Procs : <>(outcome[p] # "running")
==============================================================================
