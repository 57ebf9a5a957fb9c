---------------------------- MODULE DriverProofs -----------------------------
(***************************************************************************)
(* Any number of compilations, started, interleaved and killed anyhow: a   *)
(* rejected program leaves no trace, and a compilation that prints nothing *)
(* has built its program unless it was disturbed.                          *)
(***************************************************************************)
EXTENDS Driver, TLAPS

\* What a process has got through by its stage, its program does not have.
Behind(s) ==
    CASE s = "parse"    -> {"lex"}
      [] s = "check"    -> {"lex", "parse"}
      [] s = "generate" -> {"lex", "parse", "check"}
      [] s \in {"open_llvm", "print_llvm", "verify"}      -> Passes
      [] s \in {"open_object", "emit", "link", "wait"}    -> Passes \cup {"verify"}
      [] OTHER          -> {}

Passed == \A p \in Procs : flaw[p] \notin Behind(stage[p])

\* Who has changed a file, or has a linker, is that far, and past changing what
\* its program is.
Sound(p) == /\ stage[p] \in {"emit", "link", "wait", "ended"}
            /\ flaw[p] \in {"link", "none"}

Traced ==
    /\ touched \subseteq Procs
    /\ \A p \in touched : Sound(p)
    /\ \A p \in Procs : clang[p] # "idle" => stage[p] \in {"wait", "ended"} /\ Sound(p)
    /\ \A p \in Procs : stage[p] = "wait" => clang[p] # "idle"

\* An undisturbed compilation finds its own bytes wherever it looks.
Own(p) ==
    /\ stage[p] = "emit" => object = {}
    /\ stage[p] = "link" => object = {p}
    /\ stage[p] = "wait" =>
          /\ clang[p] = "reading" => object = {p}
          /\ clang[p] = "writing" => input[p] = {p}
          /\ clang[p] = "linked"  => exe = {p}

Undisturbed == \A p \in Procs : p \notin ruined => Own(p)

\* Where output.o has been opened it exists.
Opened == \A p \in Procs : stage[p] = "emit" => object # Absent

\* A compilation that has reported nothing has written its .ll file.
Logged ==
    \A p \in Procs :
        /\ stage[p] \in {"verify", "open_object", "emit", "link", "wait"}
        /\ flag[p] /\ p \notin printed
        => ll[p] = {p}

\* A message has a reason: the program's flaw, a failure, or another compilation.
Reason(p) == flaw[p] # "none" \/ p \in failed \cup ruined

Blamed ==
    /\ printed \subseteq failed
    /\ \A p \in Procs :
          /\ stage[p] = "ended" <=> outcome[p] # "running"
          /\ stage[p] = "wait" /\ clang[p] = "failed" => Reason(p)
          /\ outcome[p] = "message" => Reason(p)

IInv == TypeOK /\ Passed /\ Traced /\ Undisturbed /\ Opened /\ Logged /\ Blamed

Step(q) == Work(q) \/ Clang(q) \/ kill(q)

(***************************************************************************)
(* Processes only act on their own behalf.                                 *)
(***************************************************************************)
LEMMA Locality ==
    ASSUME TypeOK, NEW q \in Procs, Step(q)
    PROVE  \A p \in Procs \ {q} :
              /\ flaw'[p] = flaw[p] /\ stage'[p] = stage[p] /\ outcome'[p] = outcome[p]
              /\ ll'[p] = ll[p] /\ clang'[p] = clang[p] /\ input'[p] = input[p]
<1> USE DEF TypeOK, Go, End, Throw, Continue, Finished, files, linking, history
<1>1. CASE parse_arguments(q) \/ pass(q) \/ verify(q)
  BY <1>1 DEF parse_arguments, pass, verify, At
<1>2. CASE read_entire_file(q)
  BY <1>2 DEF read_entire_file
<1>3. CASE open_llvm(q) \/ print_llvm(q)
  BY <1>3 DEF open_llvm, print_llvm
<1>4. CASE open_object(q) \/ emit(q) \/ start_clang(q)
  BY <1>4 DEF open_object, emit, start_clang, SetObject
<1>5. CASE clang_reads(q)
  BY <1>5 DEF clang_reads
<1>6. CASE clang_writes(q) \/ clang_fails(q)
  BY <1>6 DEF clang_writes, clang_fails, SetExe
<1>7. CASE system_returns(q)
  BY <1>7 DEF system_returns
<1>8. CASE kill(q)
  BY <1>8 DEF kill, SetObject
<1>9. QED
  BY <1>1, <1>2, <1>3, <1>4, <1>5, <1>6, <1>7, <1>8 DEF Step, Work, Clang

\* flag never changes.
LEMMA FlagKept ==
    ASSUME NEW q \in Procs, Step(q)
    PROVE  flag' = flag
BY DEF Step, Work, Clang, kill, parse_arguments, read_entire_file, pass, open_llvm,
       print_llvm, verify, open_object, emit, start_clang, system_returns,
       clang_reads, clang_writes, clang_fails

-----------------------------------------------------------------------------
(***************************************************************************)
(* The invariant, part by part.                                            *)
(***************************************************************************)
LEMMA InitSound == Init => IInv
<1> SUFFICES ASSUME Init PROVE IInv
  OBVIOUS
<1> USE DEF Init
<1>1. TypeOK
  <2>1. object \in Contents /\ exe \in Contents \ {{}}
    BY DEF Contents, Absent, Old, Torn
  <2>2. ll \in [Procs -> Contents] /\ input \in [Procs -> Contents]
    BY DEF Contents, Absent
  <2>3. QED
    BY <2>1, <2>2 DEF TypeOK, Stages
<1>2. Passed
  BY DEF Passed, Behind
<1>3. Traced
  BY DEF Traced, Sound
<1>4. Undisturbed /\ Opened /\ Logged
  BY DEF Undisturbed, Own, Opened, Logged
<1>5. Blamed
  BY DEF Blamed, Reason
<1>6. QED
  BY <1>1, <1>2, <1>3, <1>4, <1>5 DEF IInv

LEMMA TypeKept ==
    ASSUME TypeOK, Opened, NEW q \in Procs, Step(q)
    PROVE  TypeOK'
<1> USE DEF TypeOK, Go, End, Throw, Continue, Finished, files, linking, history,
            Stages, Passes
<1>1. CASE parse_arguments(q)
  BY <1>1 DEF parse_arguments, At
<1>2. CASE read_entire_file(q)
  BY <1>2 DEF read_entire_file, At
<1>3. CASE pass(q)
  BY <1>3 DEF pass, At, After
<1>4. CASE open_llvm(q) \/ print_llvm(q)
  <2>1. {} \in Contents /\ {q} \in Contents
    BY DEF Contents
  <2>2. ll' \in [Procs -> Contents]
    BY <1>4, <2>1 DEF open_llvm, print_llvm
  <2>3. QED
    BY <1>4, <2>2 DEF open_llvm, print_llvm, At
<1>5. CASE verify(q)
  BY <1>5 DEF verify, At
<1>6. CASE open_object(q)
  BY <1>6 DEF open_object, SetObject, Contents, Absent
<1>7. CASE emit(q)
  BY <1>7 DEF emit, At, SetObject, Contents, Opened
<1>8. CASE start_clang(q) \/ system_returns(q)
  BY <1>8 DEF start_clang, system_returns
<1>9. CASE clang_reads(q)
  BY <1>9 DEF clang_reads
<1>10. CASE clang_writes(q) \/ clang_fails(q)
  <2>1. exe' \in Contents \ {{}}
    BY <1>10 DEF clang_writes, clang_fails, SetExe, Linkable, Contents, Absent
  <2>2. input' \in [Procs -> Contents]
    BY <1>10, {} \in Contents DEF clang_writes, clang_fails, Contents
  <2>3. QED
    BY <1>10, <2>1, <2>2 DEF clang_writes, clang_fails
<1>11. CASE kill(q)
  <2>1. {q} \cup Torn \in Contents
    BY DEF Contents
  <2>2. ll' \in [Procs -> Contents]
    BY <1>11, <2>1 DEF kill
  <2>3. object' \in Contents
    BY <1>11 DEF kill, SetObject, Contents, Opened
  <2>4. QED
    BY <1>11, <2>2, <2>3 DEF kill
<1>12. QED
  BY <1>1, <1>2, <1>3, <1>4, <1>5, <1>6, <1>7, <1>8, <1>9, <1>10, <1>11
     DEF Step, Work, Clang

LEMMA PassedKept ==
    ASSUME TypeOK, Passed, NEW q \in Procs, Step(q)
    PROVE  Passed'
<1>1. flaw'[q] \notin Behind(stage'[q])
  <2> USE DEF TypeOK, Passed, Behind, Go, End, Throw, Continue, Finished, Passes
  <2>1. CASE parse_arguments(q) \/ read_entire_file(q)
    BY <2>1 DEF parse_arguments, read_entire_file, At
  <2>2. CASE pass(q)
    BY <2>2 DEF pass, At, After
  <2>3. CASE open_llvm(q) \/ print_llvm(q) \/ verify(q)
    BY <2>3 DEF open_llvm, print_llvm, verify, At
  <2>4. CASE open_object(q) \/ emit(q) \/ start_clang(q)
    BY <2>4 DEF open_object, emit, start_clang, At
  <2>5. CASE system_returns(q) \/ kill(q)
    BY <2>5 DEF system_returns, kill
  <2>6. CASE Clang(q)
    BY <2>6 DEF Clang, clang_reads, clang_writes, clang_fails
  <2>7. QED
    BY <2>1, <2>2, <2>3, <2>4, <2>5, <2>6 DEF Step, Work
<1>2. \A p \in Procs \ {q} : flaw'[p] \notin Behind(stage'[p])
  BY Locality DEF Passed
<1>3. QED
  BY <1>1, <1>2 DEF Passed

LEMMA TracedKept ==
    ASSUME TypeOK, Passed, Traced, NEW q \in Procs, Step(q)
    PROVE  Traced'
<1> DEFINE Clean(p) == clang[p] # "idle" => stage[p] \in {"wait", "ended"} /\ Sound(p)
           Waits(p) == stage[p] = "wait" => clang[p] # "idle"
<1>1. touched' \subseteq touched \cup {q}
  BY DEF Step, Work, Clang, parse_arguments, read_entire_file, pass, open_llvm,
         print_llvm, verify, open_object, emit, start_clang, system_returns, kill,
         clang_reads, clang_writes, clang_fails, SetObject, SetExe, files, linking,
         history
<1>2. (q \in touched' => Sound(q)') /\ Clean(q)' /\ Waits(q)'
  <2> USE FlawsAssumption
      DEF TypeOK, Passed, Behind, Traced, Sound, Go, End, Throw, Continue,
          Finished, Passes, files, linking, history
  <2>1. CASE parse_arguments(q) \/ read_entire_file(q)
    BY <2>1 DEF parse_arguments, read_entire_file, At
  <2>2. CASE pass(q)
    BY <2>2 DEF pass, At, After
  <2>3. CASE open_llvm(q) \/ print_llvm(q) \/ verify(q)
    BY <2>3 DEF open_llvm, print_llvm, verify, At
  <2>4. CASE open_object(q)
    BY <2>4 DEF open_object, SetObject, At
  <2>5. CASE emit(q)
    BY <2>5 DEF emit, SetObject, At
  <2>6. CASE start_clang(q)
    BY <2>6 DEF start_clang, At
  <2>7. CASE system_returns(q)
    BY <2>7 DEF system_returns, At
  <2>8. CASE kill(q)
    BY <2>8 DEF kill, SetObject
  <2>9. CASE Clang(q)
    BY <2>9 DEF Clang, clang_reads, clang_writes, clang_fails, SetExe
  <2>10. QED
    BY <2>1, <2>2, <2>3, <2>4, <2>5, <2>6, <2>7, <2>8, <2>9 DEF Step, Work
<1>3. ASSUME NEW p \in Procs \ {q}
      PROVE  (p \in touched' => Sound(p)') /\ Clean(p)' /\ Waits(p)'
  BY <1>1, Locality DEF Traced, Sound
<1>4. QED
  BY <1>1, <1>2, <1>3 DEF Traced

LEMMA OpenedKept ==
    ASSUME TypeOK, Opened, NEW q \in Procs, Step(q)
    PROVE  Opened'
<1> USE DEF TypeOK, Opened, Go, End, Throw, Continue, Finished, Absent, files
<1>1. object' = object \/ object' # Absent
  <2>1. CASE open_object(q)
    BY <2>1 DEF open_object, SetObject
  <2>2. CASE emit(q)
    BY <2>2, ProcsAssumption DEF emit, SetObject
  <2>3. CASE kill(q)
    BY <2>3, ProcsAssumption DEF kill, SetObject
  <2>4. QED
    BY <2>1, <2>2, <2>3
       DEF Step, Work, Clang, parse_arguments, read_entire_file, pass, open_llvm,
           print_llvm, verify, start_clang, system_returns, clang_reads,
           clang_writes, clang_fails
<1>2. stage'[q] = "emit" => object' # Absent
  <2>1. CASE parse_arguments(q) \/ read_entire_file(q) \/ pass(q)
    BY <2>1 DEF parse_arguments, read_entire_file, pass, After, Passes
  <2>2. CASE open_llvm(q) \/ print_llvm(q) \/ verify(q)
    BY <2>2 DEF open_llvm, print_llvm, verify
  <2>3. CASE open_object(q) \/ emit(q) \/ start_clang(q)
    BY <2>3 DEF open_object, emit, start_clang, SetObject
  <2>4. CASE system_returns(q) \/ kill(q)
    BY <2>4 DEF system_returns, kill
  <2>5. CASE Clang(q)
    BY <2>5 DEF Clang, clang_reads, clang_writes, clang_fails
  <2>6. QED
    BY <2>1, <2>2, <2>3, <2>4, <2>5 DEF Step, Work
<1>3. QED
  BY <1>1, <1>2, Locality

LEMMA LoggedKept ==
    ASSUME TypeOK, Logged, NEW q \in Procs, Step(q)
    PROVE  Logged'
<1> DEFINE Past(p) == stage[p] \in {"verify", "open_object", "emit", "link", "wait"}
           Log(p)  == Past(p) /\ flag[p] /\ p \notin printed => ll[p] = {p}
<1>1. printed \subseteq printed'
  BY DEF Step, Work, Clang, parse_arguments, read_entire_file, pass, open_llvm,
         print_llvm, verify, open_object, emit, start_clang, system_returns, kill,
         clang_reads, clang_writes, clang_fails
<1>2. Log(q)'
  <2> USE DEF TypeOK, Logged, Go, End, Throw, Continue, Finished, files, Passes
  <2>1. CASE parse_arguments(q) \/ read_entire_file(q)
    BY <2>1 DEF parse_arguments, read_entire_file, At
  <2>2. CASE pass(q)
    BY <2>2 DEF pass, At, After
  <2>3. CASE open_llvm(q) \/ print_llvm(q) \/ verify(q)
    BY <2>3 DEF open_llvm, print_llvm, verify, At
  <2>4. CASE open_object(q) \/ emit(q) \/ start_clang(q)
    BY <2>4 DEF open_object, emit, start_clang, At
  <2>5. CASE system_returns(q) \/ kill(q)
    BY <2>5 DEF system_returns, kill
  <2>6. CASE Clang(q)
    BY <2>6 DEF Clang, clang_reads, clang_writes, clang_fails
  <2>7. QED
    BY <2>1, <2>2, <2>3, <2>4, <2>5, <2>6 DEF Step, Work
<1>3. ASSUME NEW p \in Procs \ {q} PROVE Log(p)'
  BY <1>1, Locality, FlagKept DEF Logged
<1>4. QED
  BY <1>2, <1>3 DEF Logged

(***************************************************************************)
(* A change of output.o or output is either invisible to another           *)
(* compilation, or ruins it.                                               *)
(***************************************************************************)
LEMMA FilesOfOthers ==
    ASSUME NEW q \in Procs, Step(q), NEW p \in Procs \ {q}
    PROVE  /\ ruined \subseteq ruined'
           /\ object' # object /\ UsesObject(p) => p \in ruined'
           /\ exe' # exe /\ UsesExe(p) => p \in ruined'
<1> USE DEF files, linking, history, Throw, End, Go
<1>1. CASE open_object(q) \/ emit(q)
  BY <1>1 DEF open_object, emit, SetObject
<1>2. CASE kill(q)
  BY <1>2 DEF kill, SetObject
<1>3. CASE clang_writes(q) \/ clang_fails(q)
  BY <1>3 DEF clang_writes, clang_fails, SetExe
<1>4. QED
  BY <1>1, <1>2, <1>3
     DEF Step, Work, Clang, parse_arguments, read_entire_file, pass, open_llvm,
         print_llvm, verify, start_clang, system_returns, clang_reads

LEMMA UndisturbedKept ==
    ASSUME TypeOK, Traced, Undisturbed, NEW q \in Procs, Step(q)
    PROVE  Undisturbed'
<1>1. ASSUME q \notin ruined' PROVE Own(q)'
  <2>1. q \notin ruined
    BY <1>1 DEF Step, Work, Clang, parse_arguments, read_entire_file, pass, open_llvm,
                print_llvm, verify, open_object, emit, start_clang, system_returns,
                kill, clang_reads, clang_writes, clang_fails, SetObject, SetExe, history
  <2> USE <2>1 DEF TypeOK, Traced, Undisturbed, Own, Go, End, Throw, Continue, Finished,
                   files, linking, history, Passes
  <2>2. CASE parse_arguments(q) \/ read_entire_file(q) \/ pass(q)
    BY <2>2 DEF parse_arguments, read_entire_file, pass, After, At
  <2>3. CASE open_llvm(q) \/ print_llvm(q) \/ verify(q)
    BY <2>3 DEF open_llvm, print_llvm, verify, At
  <2>4. CASE open_object(q)
    BY <2>4 DEF open_object, SetObject, At
  <2>5. CASE emit(q)
    BY <2>5 DEF emit, SetObject, At
  <2>6. CASE start_clang(q)
    BY <2>6 DEF start_clang, At
  <2>7. CASE system_returns(q) \/ kill(q)
    BY <2>7 DEF system_returns, kill
  <2>8. CASE clang_reads(q)
    BY <2>8 DEF clang_reads
  <2>9. CASE clang_writes(q)
    BY <2>9 DEF clang_writes, SetExe
  <2>10. CASE clang_fails(q)
    BY <2>10 DEF clang_fails
  <2>11. QED
    BY <2>2, <2>3, <2>4, <2>5, <2>6, <2>7, <2>8, <2>9, <2>10 DEF Step, Work, Clang
<1>2. ASSUME NEW p \in Procs \ {q}, p \notin ruined' PROVE Own(p)'
  <2>1. Own(p)
    BY <1>2, FilesOfOthers DEF Undisturbed
  <2>2. /\ stage'[p] = stage[p] /\ clang'[p] = clang[p] /\ input'[p] = input[p]
    BY Locality
  <2>3. UsesObject(p) => object' = object
    BY <1>2, FilesOfOthers
  <2>4. UsesExe(p) => exe' = exe
    BY <1>2, FilesOfOthers
  <2>5. QED
    BY <2>1, <2>2, <2>3, <2>4 DEF Own, UsesObject, UsesExe
<1>3. QED
  BY <1>1, <1>2 DEF Undisturbed

\* An undisturbed linker whose program has nothing wrong finds a linkable file.
LEMMA OwnLinkable ==
    ASSUME NEW q \in Procs, flaw[q] = "none"
    PROVE  Linkable({q})
BY ProcsAssumption DEF Linkable, Absent, Torn

LEMMA BlamedKept ==
    ASSUME TypeOK, Traced, Undisturbed, Blamed, NEW q \in Procs, Step(q)
    PROVE  Blamed'
<1> DEFINE Blame(p) == /\ stage[p] = "ended" <=> outcome[p] # "running"
                       /\ stage[p] = "wait" /\ clang[p] = "failed" => Reason(p)
                       /\ outcome[p] = "message" => Reason(p)
<1>1. failed \subseteq failed' /\ ruined \subseteq ruined'
  BY DEF Step, Work, Clang, parse_arguments, read_entire_file, pass, open_llvm,
         print_llvm, verify, open_object, emit, start_clang, system_returns, kill,
         clang_reads, clang_writes, clang_fails, SetObject, SetExe, history, Fails
<1>2. printed' \subseteq failed'
  BY <1>1
     DEF Blamed, Step, Work, Clang, parse_arguments, read_entire_file, pass, open_llvm,
         print_llvm, verify, open_object, emit, start_clang, system_returns, kill,
         clang_reads, clang_writes, clang_fails, Fails, history
<1>3. Blame(q)'
  <2> USE DEF TypeOK, Traced, Blamed, Reason, Go, End, Throw, Continue, Finished,
              files, linking, history, Fails, Passes
  <2>1. CASE parse_arguments(q)
    BY <2>1 DEF parse_arguments, At
  <2>2. CASE read_entire_file(q)
    BY <2>2 DEF read_entire_file, At
  <2>3. CASE pass(q)
    BY <2>3 DEF pass, After, At
  <2>4. CASE open_llvm(q) \/ print_llvm(q)
    BY <2>4 DEF open_llvm, print_llvm, At
  <2>5. CASE verify(q)
    BY <2>5 DEF verify, At
  <2>6. CASE open_object(q) \/ emit(q)
    BY <2>6 DEF open_object, emit, At
  <2>7. CASE start_clang(q)
    BY <2>7 DEF start_clang, At
  <2>8. CASE system_returns(q)
    BY <2>8 DEF system_returns, At
  <2>9. CASE kill(q)
    BY <2>9 DEF kill, SetObject
  <2>10. CASE clang_reads(q) \/ clang_writes(q)
    BY <2>10 DEF clang_reads, clang_writes, SetExe
  <2>11. CASE clang_fails(q)
    <3>1. stage[q] = "wait" /\ q \notin ruined => input[q] = {q}
      BY <2>11 DEF clang_fails, Undisturbed, Own
    <3>2. stage[q] = "wait" => Reason(q)'
      BY <2>11, <3>1, <1>1, OwnLinkable DEF clang_fails
    <3>3. QED
      BY <2>11, <3>2, <1>1 DEF clang_fails
  <2>12. QED
    BY <2>1, <2>2, <2>3, <2>4, <2>5, <2>6, <2>7, <2>8, <2>9, <2>10, <2>11
       DEF Step, Work, Clang
<1>4. ASSUME NEW p \in Procs \ {q} PROVE Blame(p)'
  BY <1>1, Locality DEF Blamed, Reason
<1>5. QED
  BY <1>2, <1>3, <1>4 DEF Blamed

-----------------------------------------------------------------------------
LEMMA StepSound == IInv /\ [Next]_vars => IInv'
<1> SUFFICES ASSUME IInv, [Next]_vars PROVE IInv'
  OBVIOUS
<1>1. ASSUME NEW q \in Procs, Step(q) PROVE IInv'
  BY <1>1, TypeKept, PassedKept, TracedKept, UndisturbedKept, OpenedKept, LoggedKept,
     BlamedKept DEF IInv
<1>2. CASE UNCHANGED vars
  <2> USE <1>2 DEF vars, files, linking, history, IInv
  <2>1. TypeOK' /\ Passed' /\ Traced'
    BY DEF TypeOK, Passed, Traced, Sound
  <2>2. Undisturbed' /\ Opened' /\ Logged' /\ Blamed'
    BY DEF Undisturbed, Own, Opened, Logged, Blamed, Reason
  <2>3. QED
    BY <2>1, <2>2
<1>3. QED
  BY <1>1, <1>2 DEF Next, Stopped, Step

LEMMA Invariance == Spec => []IInv
BY InitSound, StepSound, PTL DEF Spec

\* Every variable keeps its type; output never is an empty file.
THEOREM TypeCorrect == Spec => []TypeOK
<1>1. IInv => TypeOK
  BY DEF IInv
<1>2. QED
  BY <1>1, Invariance, PTL

\* A program that a pass or the verifier objects to changes neither output.o nor
\* output, whatever else goes on in the directory.
THEOREM NoTrace == Spec => []RejectedLeavesNoTrace
<1>1. IInv => RejectedLeavesNoTrace
  BY DEF IInv, Traced, Sound, RejectedLeavesNoTrace
<1>2. QED
  BY <1>1, Invariance, PTL

\* What earlier compilations left behind never is the reason of a message.
THEOREM LeftoversDoNotMatter == Spec => []LeftoversHarmless
<1>1. IInv => LeftoversHarmless
  BY DEF IInv, Blamed, Reason, LeftoversHarmless
<1>2. QED
  BY <1>1, Invariance, PTL

\* A compilation that says nothing has left its program in output and in the .ll
\* file it was asked for, unless another one wrote in between.
THEOREM SilenceIsSuccess == Spec => SilentMeansBuilt
<1> DEFINE Built(p) == EndsWith(p, "silent") => /\ exe' = {p} \/ p \in ruined
                                                /\ flag[p] => ll'[p] = {p}
<1>1. IInv /\ [Next]_vars => [\A p \in Procs : Built(p)]_vars
  <2> SUFFICES ASSUME IInv, Next, NEW p \in Procs, EndsWith(p, "silent")
               PROVE  /\ exe' = {p} \/ p \in ruined
                      /\ flag[p] => ll'[p] = {p}
    BY DEF EndsWith
  <2> USE DEF EndsWith, IInv, TypeOK
  <2>1. system_returns(p)
    <3>1. PICK q \in Procs : Step(q)
      BY DEF Next, Stopped, Step, vars
    <3>2. q = p
      BY <3>1, Locality
    <3>3. ~ kill(p) /\ ~ Clang(p)
      BY DEF kill, End, Clang, clang_reads, clang_writes, clang_fails
    <3>4. QED
      BY <3>1, <3>2, <3>3
         DEF Step, Work, parse_arguments, read_entire_file, pass, open_llvm, print_llvm,
             verify, open_object, emit, start_clang, End, Throw, Continue
  <2>2. stage[p] = "wait" /\ clang[p] = "linked" /\ p \notin printed
    BY <2>1 DEF system_returns, Finished, Throw, End, At
  <2>3. exe' = exe /\ ll' = ll
    BY <2>1 DEF system_returns, files
  <2>4. QED
    BY <2>2, <2>3 DEF Undisturbed, Own, Logged
<1>2. QED
  BY <1>1, Invariance, PTL DEF Spec, SilentMeansBuilt
==============================================================================
