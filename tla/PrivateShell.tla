---------------------------- MODULE PrivateShell ----------------------------
(***************************************************************************)
(* Commands in a sandbox over the private web shell: one socket and one    *)
(* nonce per try, an answer between markers or none, and retries only of   *)
(* commands that may be repeated.  A file is written as a truncation and   *)
(* one command per chunk at its offset, and read back as a whole.          *)
(*                                                                         *)
(* A chunk is its version and its place.  A command whose try was given up *)
(* may have run, may run later or never.  The output of a command is its   *)
(* exit.  FileVersions are the writes of the file, one after the other;    *)
(* MaxTries is the three tries of execPrivateIdempotent.                   *)
(***************************************************************************)
EXTENDS Naturals, Sequences, FiniteSets, SequencesExt

CONSTANTS
  FileVersions,  \* how often the file is written
  Chunks,        \* chunks of the file
  MaxTries

ASSUME PrivateShellAssumption ==
  {FileVersions, Chunks, MaxTries} \subseteq Nat \ {0}

VARIABLES
  file,        \* the cells of the file: the version each holds, 0 for a hole
  shell,       \* the worker: what it runs, which try, how far it is
  stray,       \* commands of abandoned tries that may still run
  strayRan,    \* one of them has run after its try was given up
  ran          \* times the run's own command has run

shellVars == <<file, shell, stray, strayRan, ran>>

\* Step 0 truncates, step k writes chunk k; after the last version the file is
\* read, and then comes the run's own command, once.
ShellIdle ==
  [pc |-> "next", version |-> 1, at |-> 0, try |-> 0, did |-> FALSE, seen |-> <<>>]
ReadCommand == [kind |-> "read"]
OwnCommand == [kind |-> "own"]

PrivateShellInit ==
  /\ file = <<>>
  /\ shell = ShellIdle
  /\ stray = {}
  /\ strayRan = FALSE
  /\ ran = 0
-----------------------------------------------------------------------------
(* What a command does in the sandbox *)

\* Faulty variant: a chunk is appended.
AppendChunk(f, k, v) == Append(f, v)

\* dd seek=offset conv=notrunc: the cells before it that do not exist are holes.
PutChunk(f, k, v) ==
  [i \in 1..(IF Len(f) < k THEN k ELSE Len(f)) |->
     IF i = k THEN v ELSE IF i <= Len(f) THEN f[i] ELSE 0]

Effect(c, f) ==
  IF c.kind # "write" THEN f
  ELSE IF c.at = 0 THEN <<>>
  ELSE PutChunk(f, c.at, c.version)

Command ==
  IF shell.version > FileVersions
  THEN IF shell.at = 0 THEN ReadCommand ELSE OwnCommand
  ELSE [kind |-> "write", at |-> shell.at, version |-> shell.version]
-----------------------------------------------------------------------------
(* One try: runPrivateWebshellCommand *)

Throws == shell' = [shell EXCEPT !.pc = "threw"]

\* GenWebshellEndpoint fails, or gives no endpoint: not retried.
EndpointFails ==
  /\ shell.pc = "next"
  /\ Throws
  /\ UNCHANGED <<file, stray, strayRan, ran>>

\* The command, its directory, a bound or the endpoint is not acceptable.
CommandIsInvalid ==
  /\ shell.pc = "next"
  /\ Throws
  /\ UNCHANGED <<file, stray, strayRan, ran>>

\* The socket, and the command sent as one frame.
Send ==
  /\ shell.pc = "next"
  /\ shell' = [shell EXCEPT !.pc = "sent", !.try = @ + 1, !.did = FALSE]
  /\ UNCHANGED <<file, stray, strayRan, ran>>

\* The shell in the sandbox runs it.
RunSent ==
  /\ shell.pc = "sent" /\ ~shell.did
  /\ file' = Effect(Command, file)
  /\ ran' = IF Command.kind = "own" THEN ran + 1 ELSE ran
  /\ shell' = [shell EXCEPT !.did = TRUE,
                            !.seen = IF Command.kind = "read" THEN file ELSE @]
  /\ UNCHANGED <<stray, strayRan>>

Succeeded ==
  IF Command.kind = "own" THEN [shell EXCEPT !.pc = "finished"]
  ELSE IF Command.kind = "read" THEN [shell EXCEPT !.pc = "next", !.at = 1, !.try = 0]
  ELSE IF shell.at < Chunks THEN [shell EXCEPT !.pc = "next", !.at = @ + 1, !.try = 0]
  ELSE [shell EXCEPT !.pc = "next", !.version = @ + 1, !.at = 0, !.try = 0]

\* The end marker of this try's nonce arrives, after the command has ended; the
\* exit may be a failure, which throws in writeFile and is the answer otherwise.
AnswerArrives ==
  /\ shell.pc = "sent" /\ shell.did
  /\ \/ shell' = Succeeded
     \/ Throws
  /\ UNCHANGED <<file, stray, strayRan, ran>>

\* The result between the markers cannot be decoded or is too long
\* (parseCommandResult, decodeCommandOutput): never retried.
OutputIsRefused ==
  /\ shell.pc = "sent" /\ shell.did
  /\ Throws
  /\ UNCHANGED <<file, stray, strayRan, ran>>

\* The connection fails, closes before the result or the timer fires: the parts
\* of a file and its read are tried again, another command is not.
TryIsLost ==
  /\ shell.pc = "sent"
  /\ shell' = [shell EXCEPT !.pc =
       IF Command.kind # "own" /\ shell.try < MaxTries THEN "next" ELSE "threw"]
  /\ stray' = IF shell.did THEN stray ELSE stray \cup {Command}
  /\ UNCHANGED <<file, strayRan, ran>>

\* An invalid frame, a changed contract, too many frames: never retried.
TryIsRefused ==
  /\ shell.pc = "sent"
  /\ Throws
  /\ stray' = IF shell.did THEN stray ELSE stray \cup {Command}
  /\ UNCHANGED <<file, strayRan, ran>>

\* A command whose socket is gone gets its turn.
StrayRuns ==
  /\ \E c \in stray :
       /\ stray' = stray \ {c}
       /\ file' = Effect(c, file)
       /\ ran' = IF c.kind = "own" THEN ran + 1 ELSE ran
       /\ strayRan' = (strayRan \/ (c.kind = "write" /\ (shell.pc = "finished" \/ c # Command)))
  /\ UNCHANGED shell

StrayNeverRuns ==
  /\ \E c \in stray : stray' = stray \ {c}
  /\ UNCHANGED <<file, shell, strayRan, ran>>

PrivateShellNext ==
  \/ EndpointFails \/ CommandIsInvalid \/ Send \/ RunSent \/ AnswerArrives
  \/ OutputIsRefused \/ TryIsLost \/ TryIsRefused
  \/ StrayRuns \/ StrayNeverRuns

PrivateShellSpec == PrivateShellInit /\ [][PrivateShellNext]_shellVars
-----------------------------------------------------------------------------
(* Properties *)

\* The type of the state.  A command the model asked for runs at most once: a
\* lost answer is no reason to run it again (vefaasSandbox.ts:401-415,
\* execPrivateIdempotent, is for mkdir, files and reads only).
PrivateShellTypeOK ==
  /\ {file, shell.seen} \subseteq Seq(0..FileVersions)
  /\ shell.pc \in {"next", "sent", "finished", "threw"}
  /\ shell.version \in 1..FileVersions + 1 /\ shell.at \in 0..Chunks
  /\ shell.try \in 0..MaxTries
  /\ ran \in 0..1

Whole(v) == [i \in 1..Chunks |-> v]

\* When writeFile returns, the file is what was written last, and so is what
\* readFile returns, however many tries of their parts were lost after they had
\* run; only a part that runs after the worker has gone on to the next one can
\* spoil it (vefaasSandbox.ts:279-345).
WrittenFileIsWhole ==
  ~strayRan =>
    /\ shell.pc \in {"next", "sent", "finished"} /\ shell.version > 1
         /\ (shell.version > FileVersions \/ (shell.at = 0 /\ shell.try = 0))
       => file = Whole(shell.version - 1)
    /\ Command = OwnCommand => shell.seen = Whole(FileVersions)
=============================================================================
