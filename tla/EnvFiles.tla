------------------------------ MODULE EnvFiles ------------------------------
(***************************************************************************)
(* The recipes of .just/env.just over env/enc and env/dec.  A recipe runs  *)
(* a command at a time; each command may fail, which ends the recipe where *)
(* set -e sees it, and the recipe may be interrupted between two commands. *)
(* Several shells may run recipes at once.  sops, mktemp, mv and docker    *)
(* are external: sops needs a key that may be missing, mv replaces its     *)
(* target in one step, a redirection truncates its target before the       *)
(* command it belongs to has run.                                          *)
(***************************************************************************)
EXTENDS Dotenv

CONSTANTS Env,    \* environment names
          Shell,  \* shells that run recipes
          Texts   \* the plaintexts written by hand

ASSUME TextsAssumption == Texts \subseteq Stream

\* A file: absent, truncated, overwritten with zeros, or holding a text (the
\* plaintext in env/dec, sops' encryption of it in env/enc).
Missing     == [is |-> "missing"]
Truncated   == [is |-> "truncated"]
Zeros       == [is |-> "zeros"]
Whole(text) == [is |-> "whole", text |-> text]

VARIABLES enc,        \* env/enc/<name>.env.enc
          dec,        \* env/dec/<name>.env
          shell,      \* what each shell is doing
          wiped       \* names env-clean has begun to wipe since they were written

vars == <<enc, dec, shell, wiped>>

Idle == [at |-> "idle"]

At(label, todo) == [at |-> label, todo |-> todo]

Init ==
  /\ enc \in [Env -> {Missing} \union {Whole(text) : text \in Texts}]
  /\ dec = [n \in Env |-> Missing]
  /\ shell = [p \in Shell |-> Idle]
  /\ wiped = {}

Goto(p, job) == shell' = [shell EXCEPT ![p] = job]

Exit(p) == Goto(p, Idle)

\* A recipe goes on with the next name, or ends.
NextName(p, label) ==
  LET todo == Tail(shell[p].todo) IN Goto(p, IF todo = << >> THEN Idle ELSE At(label, todo))

Name1(p) == Head(shell[p].todo)

\* The names a glob over a directory finds, in an order.
Found(files) ==
  LET names == {n \in Env : files[n] # Missing}
  IN {order \in [1 .. Cardinality(names) -> names] : \A n \in names : \E k \in DOMAIN order : order[k] = n}

\* The names given to a recipe, or all a glob finds.
Selected(files) == {<<n>> : n \in Env} \union (Found(files) \ {<< >>})

Start(p, label, todos) ==
  /\ shell[p] = Idle
  /\ \E todo \in todos : Goto(p, At(label, todo))
  /\ UNCHANGED <<enc, dec, wiped>>

\* A recipe that stops here leaves the files as they are; its temporary file has
\* a name no recipe looks for.
Abandon(p) ==
  /\ Exit(p)
  /\ UNCHANGED <<enc, dec, wiped>>

-----------------------------------------------------------------------------
(* env-decrypt and env-docker-env-file: into a temporary file, then mv.    *)

MakeTemp(p, label, next) ==
  /\ shell[p].at = label
  /\ IF enc[Name1(p)] = Missing THEN Exit(p)
     ELSE Goto(p, [at |-> next, todo |-> shell[p].todo, tmp |-> Truncated])
  /\ UNCHANGED <<enc, dec, wiped>>

FillTemp(p, text, next) ==
  /\ Goto(p, [at |-> next, todo |-> shell[p].todo, tmp |-> Whole(text)])
  /\ UNCHANGED <<enc, dec, wiped>>

MoveTemp(p, label, next) ==
  /\ shell[p].at = label
  /\ dec' = [dec EXCEPT ![Name1(p)] = shell[p].tmp]
  /\ wiped' = wiped \ {Name1(p)}
  /\ NextName(p, next)
  /\ UNCHANGED enc

Decryptable(n) == enc[n].is = "whole"

DecryptTemp(p)  == MakeTemp(p, "decrypt", "decrypt_sops")
DecryptFill(p)  == /\ shell[p].at = "decrypt_sops"
                   /\ \/ Abandon(p)
                      \/ Decryptable(Name1(p)) /\ FillTemp(p, enc[Name1(p)].text, "decrypt_mv")
DecryptMove(p)  == MoveTemp(p, "decrypt_mv", "decrypt")

\* The lines K=V as parse will read them again: a value between apostrophes
\* reads as a quoted one.
RawOf(v) ==
  LET items == [j \in DOMAIN v |-> [char |-> v[j]]]
  IN IF Enclosed(items) THEN [quote |-> "single", items |-> SubSeq(items, 2, Len(items) - 1)]
     ELSE [quote |-> "none", items |-> items]

Rendered(stream) ==
  LET pairs == parse(stream)
  IN [j \in DOMAIN pairs |-> [key |-> pairs[j].key, value |-> RawOf(pairs[j].value)]]

EnvFileTemp(p) == MakeTemp(p, "env_file", "env_file_sops")
\* Mutant of EnvFileFill: without pipefail the failure of sops goes unseen.
EnvFileFill_no_pipefail(p) ==
  /\ shell[p].at = "env_file_sops"
  /\ \/ Goto(p, [shell[p] EXCEPT !.at = "env_file_mv"])
        /\ UNCHANGED <<enc, dec, wiped>>
     \/ Decryptable(Name1(p)) /\ FillTemp(p, Rendered(enc[Name1(p)].text), "env_file_mv")

\* sops | dotenv.py envfile > tmp: pipefail sees either fail.
EnvFileFill(p) ==
  /\ shell[p].at = "env_file_sops"
  /\ \/ Abandon(p)
     \/ /\ Decryptable(Name1(p)) /\ Consumer("envfile", enc[Name1(p)].text).ok
        /\ FillTemp(p, Rendered(enc[Name1(p)].text), "env_file_mv")
EnvFileMove(p) == MoveTemp(p, "env_file_mv", "env_file")

-----------------------------------------------------------------------------
(* env-encrypt and env-new.                                                *)

\* What sops reads from a plaintext file; an empty one is an empty environment.
Readable(file) == file.is \in {"whole", "truncated"}
TextOf(file)   == IF file.is = "whole" THEN file.text ELSE << >>

\* The recipe goes on with what its test of the ciphertext saw.
Tested(p, label) == [at |-> label, todo |-> shell[p].todo, saw |-> enc[Name1(p)]]

\* Mutant of EncryptChoose: an existing ciphertext is encrypted over as well.
EncryptChoose_always_new(p) ==
  /\ shell[p].at = "encrypt"
  /\ IF dec[Name1(p)] = Missing THEN Exit(p) ELSE Goto(p, Tested(p, "encrypt_new"))
  /\ UNCHANGED <<enc, dec, wiped>>

EncryptChoose(p) ==
  /\ shell[p].at = "encrypt"
  /\ IF dec[Name1(p)] = Missing THEN Exit(p)
     ELSE Goto(p, Tested(p, IF enc[Name1(p)] # Missing THEN "encrypt_edit" ELSE "encrypt_new"))
  /\ UNCHANGED <<enc, dec, wiped>>

\* sops edit with cp as its editor: it decrypts what is there, and writes the
\* file when the copy succeeded and differs.
EncryptEdit(p) ==
  /\ shell[p].at = "encrypt_edit"
  /\ \/ Abandon(p)
     \/ /\ Decryptable(Name1(p)) /\ Readable(dec[Name1(p)])
        /\ enc' = [enc EXCEPT ![Name1(p)] = Whole(TextOf(dec[Name1(p)]))]
        /\ NextName(p, "encrypt")
        /\ UNCHANGED <<dec, wiped>>

\* sops encrypt ... > "$dst": the redirection first, then sops.
Redirect(p, label, next) ==
  /\ shell[p].at = label
  /\ enc' = [enc EXCEPT ![Name1(p)] = Truncated]
  /\ Goto(p, At(next, shell[p].todo))
  /\ UNCHANGED <<dec, wiped>>

EncryptRedirect(p) == Redirect(p, "encrypt_new", "encrypt_sops")
EncryptWrite(p) ==
  /\ shell[p].at = "encrypt_sops"
  /\ \/ Abandon(p)
     \/ /\ Readable(dec[Name1(p)])
        /\ enc' = [enc EXCEPT ![Name1(p)] = Whole(TextOf(dec[Name1(p)]))]
        /\ NextName(p, "encrypt")
        /\ UNCHANGED <<dec, wiped>>

NewCheck(p) ==
  /\ shell[p].at = "new"
  /\ IF enc[Name1(p)] # Missing THEN Exit(p) ELSE Goto(p, Tested(p, "new_redirect"))
  /\ UNCHANGED <<enc, dec, wiped>>
NewRedirect(p) == Redirect(p, "new_redirect", "new_sops")
NewWrite(p) ==
  /\ shell[p].at = "new_sops"
  /\ \/ Abandon(p)
     \/ /\ enc' = [enc EXCEPT ![Name1(p)] = Whole(<<[skipped |-> TRUE]>>)]
        /\ Exit(p)
        /\ UNCHANGED <<dec, wiped>>

\* sops edit in the user's editor.
EditCiphertext(n) ==
  /\ Decryptable(n)
  /\ \E text \in Texts : enc' = [enc EXCEPT ![n] = Whole(text)]
  /\ UNCHANGED <<dec, shell, wiped>>

\* The user writes env/dec/<name>.env.
EditPlaintext(n) ==
  /\ \E text \in Texts : dec' = [dec EXCEPT ![n] = Whole(text)]
  /\ wiped' = wiped \ {n}
  /\ UNCHANGED <<enc, shell>>

-----------------------------------------------------------------------------
(* env-run and env-docker-run.                                             *)

Nothing == [ok |-> FALSE]

\* eval "$(sops ... | dotenv.py shell)": what the pipeline printed is evaluated,
\* whether or not it failed.
Run(p) ==
  /\ shell[p].at = "run"
  /\ IF enc[Name1(p)] = Missing THEN Exit(p)
     ELSE \/ Goto(p, [at |-> "command", todo |-> shell[p].todo, given |-> Nothing])
          \/ /\ Decryptable(Name1(p))
             /\ Goto(p, [at |-> "command", todo |-> shell[p].todo,
                         given |-> Consumer("shell", enc[Name1(p)].text)])
  /\ UNCHANGED <<enc, dec, wiped>>

\* Mutant of DockerRun: the pipeline stands in a process substitution.
DockerRun_inlined(p) ==
  /\ shell[p].at = "docker_run"
  /\ IF enc[Name1(p)] = Missing THEN Exit(p)
     ELSE \/ Goto(p, [at |-> "container", todo |-> shell[p].todo, given |-> Nothing])
          \/ /\ Decryptable(Name1(p))
             /\ Goto(p, [at |-> "container", todo |-> shell[p].todo,
                         given |-> Consumer("envfile", enc[Name1(p)].text)])
  /\ UNCHANGED <<enc, dec, wiped>>

\* envdata=$(...) first: set -e ends the recipe when the pipeline failed.
DockerRun(p) ==
  /\ shell[p].at = "docker_run"
  /\ \/ Exit(p)
     \/ /\ Decryptable(Name1(p)) /\ Consumer("envfile", enc[Name1(p)].text).ok
        /\ Goto(p, [at |-> "container", todo |-> shell[p].todo,
                    given |-> Consumer("envfile", enc[Name1(p)].text)])
  /\ UNCHANGED <<enc, dec, wiped>>

CommandEnds(p) ==
  /\ shell[p].at \in {"command", "container"}
  /\ Exit(p)
  /\ UNCHANGED <<enc, dec, wiped>>

-----------------------------------------------------------------------------
(* env-clean: head -c SIZE /dev/zero > file; rm -f file.                   *)

CleanTruncate(p) ==
  /\ shell[p].at = "clean"
  /\ dec' = [dec EXCEPT ![Name1(p)] = Truncated]
  /\ wiped' = wiped \union {Name1(p)}
  /\ Goto(p, At("clean_zero", shell[p].todo))
  /\ UNCHANGED enc

\* The zeros go to the file that was truncated, which mv may have replaced.
CleanZero(p) ==
  /\ shell[p].at = "clean_zero"
  /\ dec' = [dec EXCEPT ![Name1(p)] = IF @ = Truncated THEN Zeros ELSE @]
  /\ Goto(p, At("clean_rm", shell[p].todo))
  /\ UNCHANGED <<enc, wiped>>

CleanRemove(p) ==
  /\ shell[p].at = "clean_rm"
  /\ dec' = [dec EXCEPT ![Name1(p)] = Missing]
  /\ NextName(p, "clean")
  /\ UNCHANGED <<enc, wiped>>

-----------------------------------------------------------------------------
Interrupt(p) == shell[p] # Idle /\ Abandon(p)

Recipe(p) ==
  \/ Start(p, "decrypt", Selected(enc)) \/ DecryptTemp(p) \/ DecryptFill(p) \/ DecryptMove(p)
  \/ Start(p, "env_file", {<<n>> : n \in Env}) \/ EnvFileTemp(p) \/ EnvFileFill(p) \/ EnvFileMove(p)
  \/ Start(p, "encrypt", Selected(dec)) \/ EncryptChoose(p) \/ EncryptEdit(p)
  \/ EncryptRedirect(p) \/ EncryptWrite(p)
  \/ Start(p, "new", {<<n>> : n \in Env}) \/ NewCheck(p) \/ NewRedirect(p) \/ NewWrite(p)
  \/ Start(p, "run", {<<n>> : n \in Env}) \/ Run(p)
  \/ Start(p, "docker_run", {<<n>> : n \in Env}) \/ DockerRun(p) \/ CommandEnds(p)
  \/ Start(p, "clean", Found(dec) \ {<< >>}) \/ CleanTruncate(p) \/ CleanZero(p) \/ CleanRemove(p)

Next ==
  \/ \E p \in Shell : Recipe(p) \/ Interrupt(p)
  \/ \E n \in Env : EditCiphertext(n) \/ EditPlaintext(n)

Spec == Init /\ [][Next]_vars

-----------------------------------------------------------------------------
\* A file of env/dec that env-clean has not begun to wipe is never part of a
\* plaintext: whatever failed or was interrupted, and however many recipes write
\* it, it is absent or whole ("Write via a 0600 temp file", env.just:76).
DecIsWhole ==
  \A n \in Env \ wiped : dec[n] = Missing \/ dec[n].is = "whole"

\* A recipe that fails or is interrupted never destroys a ciphertext that decrypts
\* and that was there when the recipe looked; only a file that came between the
\* look and the redirection, from another shell, can be truncated.
CiphertextSurvives ==
  [][\A n \in Env :
       (enc[n].is = "whole" /\ enc'[n].is # "whole") =>
         \E p \in Shell : /\ shell[p].at \in {"encrypt_new", "new_redirect"} /\ Name1(p) = n
                          /\ shell[p].saw = Missing]_vars

\* A container is started only with all variables of its environment ("set -e on
\* the assignment turns that into a hard stop", env.just:368).
ContainerHasVariables ==
  \A p \in Shell : shell[p].at = "container" => shell[p].given.ok

\* "Run a command with <name>'s variables exported" (env.just:136).
CommandHasVariables ==
  \A p \in Shell : shell[p].at = "command" => shell[p].given.ok
=============================================================================
