-------------------------- MODULE EnvFiles_proofs --------------------------
(***************************************************************************)
(* What the recipes keep, for any number of shells, environments and       *)
(* texts: plaintext files are absent or whole, a ciphertext that was there *)
(* is never destroyed, and no container starts without its variables.      *)
(* The invariant ties what a shell holds to the command it is at: a file   *)
(* that is about to be moved is whole, a file that is about to be made was *)
(* not there.                                                              *)
(***************************************************************************)
EXTENDS EnvFiles, TLAPS

\* What a shell holds at a command.
JobInv(job) ==
  /\ job.at \in {"decrypt_mv", "env_file_mv"} => job.tmp.is = "whole"
  /\ job.at \in {"encrypt_new", "new_redirect"} => job.saw = Missing
  /\ job.at = "container" => job.given.ok

ShellInv == shell = [p \in Shell |-> shell[p]] /\ \A p \in Shell : JobInv(shell[p])

DecInv == dec = [n \in Env |-> dec[n]] /\ DecIsWhole

EncInv == enc = [n \in Env |-> enc[n]]

IInv == ShellInv /\ DecInv /\ EncInv

-----------------------------------------------------------------------------
\* A shell may go to any command with what that command needs.
LEMMA GotoKeeps ==
  ASSUME ShellInv, NEW p \in Shell, NEW job, JobInv(job), Goto(p, job)
  PROVE  ShellInv'
<1>1. \A q \in Shell : shell'[q] = IF q = p THEN job ELSE shell[q]
  BY DEF ShellInv, Goto
<1>2. shell' = [q \in Shell |-> shell'[q]]
  BY DEF ShellInv, Goto
<1>3. ASSUME NEW q \in Shell PROVE JobInv(shell'[q])
  BY <1>1 DEF ShellInv
<1> QED
  BY <1>2, <1>3 DEF ShellInv, JobInv

\* Commands that hold nothing the invariant speaks of.
Free == {"idle", "decrypt", "decrypt_sops", "env_file", "env_file_sops", "encrypt", "encrypt_edit",
         "encrypt_sops", "new", "new_sops", "run", "command", "docker_run", "clean", "clean_zero", "clean_rm"}

LEMMA FreeJob ==
  ASSUME NEW job, job.at \in Free
  PROVE  JobInv(job)
BY DEF JobInv, Free

LEMMA EndsKeep ==
  ASSUME ShellInv, NEW p \in Shell, NEW label \in Free
  PROVE  /\ Exit(p) => ShellInv'
         /\ Abandon(p) => ShellInv'
         /\ NextName(p, label) => ShellInv'
         /\ \A todo : Goto(p, At(label, todo)) => ShellInv'
<1>1. Idle.at = "idle" /\ \A todo : At(label, todo).at = label
  BY DEF Idle, At
<1>2. JobInv(Idle) /\ \A todo : JobInv(At(label, todo))
  BY <1>1, FreeJob DEF Free
<1>3. \A job : JobInv(job) /\ Goto(p, job) => ShellInv'
  BY GotoKeeps
<1> QED
  BY <1>2, <1>3 DEF Exit, Abandon, NextName

\* A plaintext changes to a whole one, goes away, or has been begun to be wiped.
LEMMA DecStep ==
  ASSUME DecInv, NEW n, NEW file, dec' = [dec EXCEPT ![n] = file],
         \/ (file = Missing \/ file.is = "whole") /\ wiped' \in {wiped, wiped \ {n}}
         \/ n \in wiped' /\ wiped \subseteq wiped'
  PROVE  DecInv'
<1>1. dec' = [m \in Env |-> dec'[m]] /\ \A m \in Env : dec'[m] = IF m = n THEN file ELSE dec[m]
  BY DEF DecInv
<1>2. ASSUME NEW m \in Env \ wiped' PROVE dec'[m] = Missing \/ dec'[m].is = "whole"
  <2>1. CASE m = n
    BY <2>1, <1>1, <1>2
  <2>2. CASE m # n
    BY <2>2, <1>1, <1>2 DEF DecInv, DecIsWhole
  <2> QED
    BY <2>1, <2>2
<1> QED
  BY <1>1, <1>2 DEF DecInv, DecIsWhole

LEMMA DecFrame == DecInv /\ UNCHANGED <<dec, wiped>> => DecInv'
BY DEF DecInv, DecIsWhole

LEMMA EncStep ==
  ASSUME EncInv
  PROVE  /\ UNCHANGED enc => EncInv'
         /\ \A n, file : enc' = [enc EXCEPT ![n] = file] => EncInv'
BY DEF EncInv

-----------------------------------------------------------------------------
LEMMA InitEstablishes == Init => IInv
<1> SUFFICES ASSUME Init PROVE IInv
  OBVIOUS
<1>1. JobInv(Idle)
  BY FreeJob DEF Idle, Free
<1> QED
  BY <1>1 DEF Init, IInv, ShellInv, DecInv, EncInv, DecIsWhole

\* The first command of a recipe.
LEMMA StartStep ==
  ASSUME IInv, NEW p \in Shell, NEW label \in Free, NEW todos, Start(p, label, todos)
  PROVE  IInv'
BY EndsKeep, DecFrame, EncStep DEF Start, IInv

\* Through a temporary file: it is moved only when it is whole.
LEMMA TempStep ==
  ASSUME IInv, NEW p \in Shell,
         \/ DecryptTemp(p) \/ DecryptFill(p) \/ DecryptMove(p)
         \/ EnvFileTemp(p) \/ EnvFileFill(p) \/ EnvFileMove(p)
  PROVE  IInv'
<1>1. ASSUME NEW label, NEW next \in Free, MakeTemp(p, label, next) PROVE IInv'
  <2>1. PICK job : job.at = next /\ (Goto(p, job) \/ Exit(p))
    BY <1>1 DEF MakeTemp
  <2>2. ShellInv'
    BY <2>1, FreeJob, GotoKeeps, EndsKeep DEF IInv
  <2> QED
    BY <1>1, <2>2, DecFrame, EncStep DEF MakeTemp, IInv
<1>2. ASSUME NEW text, NEW next \in {"decrypt_mv", "env_file_mv"}, FillTemp(p, text, next) PROVE IInv'
  <2>1. PICK job : Goto(p, job) /\ job = [at |-> next, todo |-> shell[p].todo, tmp |-> Whole(text)]
    BY <1>2 DEF FillTemp
  <2>2. JobInv(job)
    BY <2>1 DEF Whole, JobInv
  <2>3. ShellInv'
    BY <2>1, <2>2, GotoKeeps DEF IInv
  <2> QED
    BY <1>2, <2>3, DecFrame, EncStep DEF FillTemp, IInv
<1>3. ASSUME NEW label \in {"decrypt_mv", "env_file_mv"}, NEW next \in Free, MoveTemp(p, label, next) PROVE IInv'
  <2>1. shell[p].tmp.is = "whole"
    BY <1>3 DEF IInv, ShellInv, JobInv, MoveTemp
  <2>2. DecInv'
    BY <1>3, <2>1, DecStep DEF MoveTemp, IInv
  <2>3. ShellInv'
    BY <1>3, EndsKeep DEF MoveTemp, IInv
  <2> QED
    BY <1>3, <2>2, <2>3, EncStep DEF MoveTemp, IInv
<1>4. Abandon(p) => IInv'
  BY EndsKeep, DecFrame, EncStep DEF Abandon, IInv, Free
<1>5. CASE DecryptTemp(p) \/ EnvFileTemp(p)
  BY <1>1, <1>5 DEF DecryptTemp, EnvFileTemp, Free
<1>6. CASE DecryptFill(p) \/ EnvFileFill(p)
  BY <1>2, <1>4, <1>6 DEF DecryptFill, EnvFileFill
<1>7. CASE DecryptMove(p) \/ EnvFileMove(p)
  BY <1>3, <1>7 DEF DecryptMove, EnvFileMove, Free
<1> QED
  BY <1>5, <1>6, <1>7

\* A ciphertext is redirected to by shells that saw none.
LEMMA TestStep ==
  ASSUME IInv, NEW p \in Shell, EncryptChoose(p) \/ NewCheck(p)
  PROVE  IInv'
<1>1. Exit(p) \/ \E job : Goto(p, job) /\ JobInv(job)
  <2>1. CASE EncryptChoose(p)
    BY <2>1 DEF EncryptChoose, Tested, JobInv
  <2>2. CASE NewCheck(p)
    BY <2>2 DEF NewCheck, Tested, JobInv
  <2> QED
    BY <2>1, <2>2
<1>2. ShellInv'
  BY <1>1, GotoKeeps, EndsKeep DEF IInv, Free
<1> QED
  BY <1>2, DecFrame, EncStep DEF EncryptChoose, NewCheck, IInv

\* Writing a ciphertext leaves the plaintexts alone.
LEMMA CiphertextStep ==
  ASSUME IInv, NEW p \in Shell,
         EncryptEdit(p) \/ EncryptRedirect(p) \/ EncryptWrite(p) \/ NewRedirect(p) \/ NewWrite(p)
  PROVE  IInv'
<1>1. Abandon(p) => IInv'
  BY EndsKeep, DecFrame, EncStep DEF Abandon, IInv, Free
<1>2. ASSUME NEW label, NEW next \in Free, Redirect(p, label, next) PROVE IInv'
  BY <1>2, EndsKeep, DecFrame, EncStep DEF Redirect, IInv
<1>3. CASE EncryptRedirect(p) \/ NewRedirect(p)
  BY <1>2, <1>3 DEF EncryptRedirect, NewRedirect, Free
<1>4. CASE EncryptEdit(p)
  BY <1>1, <1>4, EndsKeep, DecFrame, EncStep DEF EncryptEdit, IInv, Free
<1>5. CASE EncryptWrite(p)
  BY <1>1, <1>5, EndsKeep, DecFrame, EncStep DEF EncryptWrite, IInv, Free
<1>6. CASE NewWrite(p)
  BY <1>1, <1>6, EndsKeep, DecFrame, EncStep DEF NewWrite, IInv, Free
<1> QED
  BY <1>3, <1>4, <1>5, <1>6

\* A container needs what the pipeline printed; a command takes anything.
LEMMA RunStep ==
  ASSUME IInv, NEW p \in Shell, Run(p) \/ DockerRun(p) \/ CommandEnds(p)
  PROVE  IInv'
<1>1. Exit(p) \/ \E job : Goto(p, job) /\ JobInv(job)
  <2>1. CASE Run(p)
    BY <2>1 DEF Run, JobInv
  <2>2. CASE DockerRun(p)
    BY <2>2 DEF DockerRun, JobInv
  <2>3. CASE CommandEnds(p)
    BY <2>3 DEF CommandEnds
  <2> QED
    BY <2>1, <2>2, <2>3
<1>2. ShellInv'
  BY <1>1, GotoKeeps, EndsKeep DEF IInv, Free
<1> QED
  BY <1>2, DecFrame, EncStep DEF Run, DockerRun, CommandEnds, IInv

\* What env-clean has truncated is marked as wiped until it is written again.
LEMMA CleanStep ==
  ASSUME IInv, NEW p \in Shell, CleanTruncate(p) \/ CleanZero(p) \/ CleanRemove(p)
  PROVE  IInv'
<1>1. CASE CleanTruncate(p)
  <2>1. DecInv'
    BY <1>1, DecStep DEF CleanTruncate, IInv
  <2> QED
    BY <1>1, <2>1, EndsKeep, EncStep DEF CleanTruncate, IInv, Free
<1>2. CASE CleanZero(p)
  <2>1. PICK n : dec' = [dec EXCEPT ![n] = IF dec[n] = Truncated THEN Zeros ELSE dec[n]] /\ UNCHANGED wiped
    BY <1>2 DEF CleanZero
  <2>2. DecInv'
    <3>1. CASE n \in Env /\ dec[n] = Truncated
      <4>1. dec[n].is = "truncated" /\ dec[n] # Missing
        BY <3>1 DEF Truncated, Missing
      <4>2. n \in wiped
        BY <3>1, <4>1 DEF IInv, DecInv, DecIsWhole
      <4>3. dec' = [dec EXCEPT ![n] = Zeros]
        BY <2>1, <3>1
      <4> QED
        BY <2>1, <4>2, <4>3, DecStep DEF IInv
    <3>2. CASE n \notin Env \/ dec[n] # Truncated
      <4>1. /\ dec = [m \in Env |-> dec[m]] /\ dec' = [m \in Env |-> dec'[m]]
            /\ \A m \in Env : dec'[m] = dec[m]
        BY <2>1, <3>2 DEF IInv, DecInv
      <4>2. dec' = dec
        BY <4>1
      <4> QED
        BY <2>1, <4>2, DecFrame DEF IInv
    <3> QED
      BY <3>1, <3>2
  <2> QED
    BY <1>2, <2>2, EndsKeep, EncStep DEF CleanZero, IInv, Free
<1>3. CASE CleanRemove(p)
  <2>1. DecInv'
    BY <1>3, DecStep DEF CleanRemove, IInv
  <2> QED
    BY <1>3, <2>1, EndsKeep, EncStep DEF CleanRemove, IInv, Free
<1> QED
  BY <1>1, <1>2, <1>3

\* What the user does to the files by hand.
LEMMA EditStep ==
  ASSUME IInv, NEW n \in Env, EditCiphertext(n) \/ EditPlaintext(n)
  PROVE  IInv'
<1>1. UNCHANGED shell => ShellInv'
  BY DEF IInv, ShellInv, JobInv
<1>2. CASE EditCiphertext(n)
  BY <1>1, <1>2, DecFrame, EncStep DEF EditCiphertext, IInv
<1>3. CASE EditPlaintext(n)
  <2>1. PICK text \in Texts : dec' = [dec EXCEPT ![n] = Whole(text)]
    BY <1>3 DEF EditPlaintext
  <2>2. Whole(text).is = "whole"
    BY DEF Whole
  <2>3. DecInv'
    BY <1>3, <2>1, <2>2, DecStep DEF EditPlaintext, IInv
  <2> QED
    BY <1>1, <1>3, <2>3, EncStep DEF EditPlaintext, IInv
<1> QED
  BY <1>2, <1>3

LEMMA NextKeeps == IInv /\ [Next]_vars => IInv'
<1> SUFFICES ASSUME IInv, [Next]_vars PROVE IInv'
  OBVIOUS
<1>1. CASE UNCHANGED vars
  BY <1>1, DecFrame, EncStep DEF vars, IInv, ShellInv, JobInv
<1>2. ASSUME NEW p \in Shell, Recipe(p) PROVE IInv'
  BY <1>2, StartStep, TempStep, TestStep, CiphertextStep, RunStep, CleanStep DEF Recipe, Free
<1>3. ASSUME NEW p \in Shell, Interrupt(p) PROVE IInv'
  BY <1>3, EndsKeep, DecFrame, EncStep DEF Interrupt, Abandon, IInv, Free
<1>4. ASSUME NEW n \in Env, EditCiphertext(n) \/ EditPlaintext(n) PROVE IInv'
  BY <1>4, EditStep
<1> QED
  BY <1>1, <1>2, <1>3, <1>4 DEF Next

LEMMA Inductive == Spec => []IInv
BY InitEstablishes, NextKeeps, PTL DEF Spec

-----------------------------------------------------------------------------
\* Whatever fails or is interrupted between two commands, and however many shells
\* write it, a plaintext file that env-clean has not begun to wipe is absent or whole.
THEOREM PlaintextsAreWhole == Spec => []DecIsWhole
<1>1. IInv => DecIsWhole
  BY DEF IInv, DecInv
<1> QED
  BY Inductive, <1>1, PTL

\* No container is started without the variables of its environment.
THEOREM ContainersAreGiven == Spec => []ContainerHasVariables
<1>1. IInv => ContainerHasVariables
  BY DEF IInv, ShellInv, JobInv, ContainerHasVariables
<1> QED
  BY Inductive, <1>1, PTL

\* The action of CiphertextSurvives.
Survives ==
  \A n \in Env :
    (enc[n].is = "whole" /\ enc'[n].is # "whole") =>
      \E p \in Shell : /\ shell[p].at \in {"encrypt_new", "new_redirect"} /\ Name1(p) = n
                       /\ shell[p].saw = Missing

\* Nothing but a redirection truncates a ciphertext, and it finds one there only
\* when another shell made it since the recipe looked.
LEMMA StepSurvives == IInv /\ [Next]_vars => Survives
<1> SUFFICES ASSUME IInv, [Next]_vars, NEW n \in Env, enc[n].is = "whole", enc'[n].is # "whole"
             PROVE  \E p \in Shell : /\ shell[p].at \in {"encrypt_new", "new_redirect"} /\ Name1(p) = n
                                     /\ shell[p].saw = Missing
  BY DEF Survives
<1>1. enc' # enc
  OBVIOUS
<1>2. ASSUME NEW m, NEW text PROVE enc' # [enc EXCEPT ![m] = Whole(text)]
  BY DEF IInv, EncInv, Whole
<1>3. PICK p \in Shell : EncryptRedirect(p) \/ NewRedirect(p)
  <2>1. ~ \E m \in Env : EditCiphertext(m) \/ EditPlaintext(m)
    BY <1>1, <1>2 DEF EditCiphertext, EditPlaintext
  <2>2. PICK p \in Shell : Recipe(p) \/ Interrupt(p)
    BY <1>1, <2>1 DEF Next, vars
  <2>3. /\ \A label, todos : ~Start(p, label, todos)
        /\ ~Interrupt(p) /\ ~Abandon(p)
    BY <1>1 DEF Start, Interrupt, Abandon
  <2>4. /\ \A label, next : ~MakeTemp(p, label, next) /\ ~MoveTemp(p, label, next)
        /\ \A text, next : ~FillTemp(p, text, next)
    BY <1>1 DEF MakeTemp, MoveTemp, FillTemp
  <2>5. /\ ~DecryptTemp(p) /\ ~DecryptFill(p) /\ ~DecryptMove(p)
        /\ ~EnvFileTemp(p) /\ ~EnvFileFill(p) /\ ~EnvFileMove(p)
    BY <2>3, <2>4 DEF DecryptTemp, DecryptFill, DecryptMove, EnvFileTemp, EnvFileFill, EnvFileMove
  <2>6. ~EncryptEdit(p) /\ ~EncryptWrite(p) /\ ~NewWrite(p)
    BY <1>2, <2>3 DEF EncryptEdit, EncryptWrite, NewWrite
  <2>7. ~EncryptChoose(p) /\ ~NewCheck(p) /\ ~Run(p) /\ ~DockerRun(p) /\ ~CommandEnds(p)
    BY <1>1 DEF EncryptChoose, NewCheck, Run, DockerRun, CommandEnds
  <2>8. ~CleanTruncate(p) /\ ~CleanZero(p) /\ ~CleanRemove(p)
    BY <1>1 DEF CleanTruncate, CleanZero, CleanRemove
  <2> QED
    BY <2>2, <2>3, <2>5, <2>6, <2>7, <2>8 DEF Recipe
<1>4. shell[p].at \in {"encrypt_new", "new_redirect"} /\ enc' = [enc EXCEPT ![Name1(p)] = Truncated]
  BY <1>3 DEF EncryptRedirect, NewRedirect, Redirect
<1>5. Name1(p) = n
  BY <1>4 DEF IInv, EncInv
<1>6. shell[p].saw = Missing
  BY <1>4 DEF IInv, ShellInv, JobInv
<1> QED
  BY <1>4, <1>5, <1>6

\* A recipe that fails or is interrupted never destroys a ciphertext that was there
\* when it looked.
THEOREM CiphertextsSurvive == Spec => CiphertextSurvives
<1>1. IInv /\ [Next]_vars => [Survives]_vars
  BY StepSurvives
<1> QED
  BY Inductive, <1>1, PTL DEF Spec, CiphertextSurvives, Survives
=============================================================================
