------------------------------ MODULE RemoteShell ------------------------------
(***************************************************************************)
(* Executors and what their plugins do on one host: run a command (shell), *)
(* copy a file, copy a script and run it, fetch a file.  Several executors *)
(* may be at work on the same files: of the steps and tasks that name the  *)
(* same place, of a run that was retried while the first went on.          *)
(***************************************************************************)
EXTENDS RemoteControl

CONSTANTS
  Dest,       \* where files are to go
  Elsewhere,  \* where a file goes whose path was misread
  Source,     \* contents of local files
  Mixes       \* bound: what the executors are to do, and how often sessions end

Place == Dest \cup {Elsewhere} \cup Executor  \* a script goes to a place of its own

\* "retry" stands for a caller of cmd_with_backoff_retry; no plugin is one.
Job == [plugin : {"shell", "retry", "copy", "script", "fetch"}, src : Source, dest : Dest,
        tilde : BOOLEAN, overwrite : BOOLEAN, at : {"new", "ready"}, breaks : Nat]

ASSUME MixesAssumption ==
  \A mix \in Mixes : DOMAIN mix \subseteq Executor /\ \A x \in DOMAIN mix : mix[x] \in Job

ASSUME ResultAssumption == None \notin {"unconnected", "SUCCESS", "ERROR", "FAILED"}

VARIABLES
  job,    \* what the executors that there are have to do
  run,    \* how far it is
  files,  \* the host's file at each place
  dirs    \* the places whose directory exists

shell_vars == <<con, job, run, files, dirs>>

Executors == DOMAIN job

ShellInit ==
  /\ job \in Mixes
  /\ con = [x \in Executors |->
              [NewConnection(job[x].breaks) EXCEPT !.at = job[x].at, !.up = job[x].at = "ready",
                                                   !.sftp = job[x].at = "ready"]]
  /\ run = [x \in Executors |->
              [pc |-> "start", place |-> job[x].dest, node |-> None, exit |-> FALSE, got |-> None,
               result |-> None,
               code |-> None,         \* history: how the command of a shell ended
               touched |-> FALSE]]    \* history: others changed the file since its digest was taken
  /\ \E older \in BOOLEAN :
       files = [p \in Place |-> IF older /\ p \in Dest
                                THEN [node |-> "older", by |-> None, whole |-> FALSE, others |-> {}]
                                ELSE None]
  /\ dirs \in SUBSET Dest

-----------------------------------------------------------------------------
\* A file is written by the executor that opened, and so emptied, it last; others
\* may still write to it.  Its content is a source's if only that was written.
ContentOf(f) ==
  IF f # None /\ f.whole /\ f.others \subseteq {job[f.by].src} THEN job[f.by].src ELSE None

Turns(x, r) == run' = [run EXCEPT ![x] = r]
To(x, pc) == [run EXCEPT ![x] = [run[x] EXCEPT !.pc = pc]]
At(x, pc) == run[x].pc = pc /\ run[x].result = None
Answered(x, pc) == At(x, pc) /\ con[x].at = "ready"

\* The result; the channel for files is closed.
Result(x, result) ==
  /\ Turns(x, [run[x] EXCEPT !.result = result])
  /\ Becomes(x, [con[x] EXCEPT !.sftp = FALSE])

\* The file at p was changed, and with it what others took the digest of.
Changes(x, p, r) ==
  run' = [y \in Executors |->
            IF y = x THEN r ELSE [run[y] EXCEPT !.touched = @ \/ run[y].place = p]]

\* Of what was read the first line, with the echo or a prompt that was left, is
\* dropped, and so is the last, the prompt.
Lines(x) == LET r == con[x].reply IN IF r # <<>> /\ r[1] = Prompt THEN Tail(r) ELSE r

-----------------------------------------------------------------------------
\* The executor calls its plugin.
Begin(x) ==
  LET plugin == job[x].plugin IN
  /\ Answered(x, "start")
  /\ \/ plugin \in {"shell", "retry"} /\ run' = To(x, "ran")
        /\ Calls(x, "run", IF plugin = "retry" THEN "retry" ELSE "cmd")
     \/ plugin = "copy" /\ job[x].tilde /\ Calls(x, "home", "cmd") /\ run' = To(x, "home")
     \/ plugin = "copy" /\ ~job[x].tilde /\ run' = To(x, "source") /\ UNCHANGED con
     \/ plugin \in {"script", "fetch"} /\ run' = To(x, plugin) /\ UNCHANGED con
  /\ UNCHANGED <<job, files, dirs>>

\* What is raised ends the plugin, except that a shell notes it down.
Raised(x) ==
  /\ con[x].at = "raised" /\ run[x].result = None
  /\ Result(x, IF run[x].pc = "start" THEN "unconnected" ELSE "FAILED")
  /\ UNCHANGED <<job, files, dirs>>

-----------------------------------------------------------------------------
\* Shell, with the log of the two plugins made from it.

Asks(x) == Calls(x, "status", "cmd")

Ran(x) ==
  /\ Answered(x, "ran") /\ job[x].plugin = "shell"
  /\ Asks(x) /\ run' = To(x, "status")
  /\ UNCHANGED <<job, files, dirs>>

\* get_last_result takes the last number of the reply.
LastNumber(s) ==
  LET numbers == {i \in DOMAIN s : s[i][2] \in {0, 1}} IN
  IF numbers = {} THEN None ELSE s[CHOOSE i \in numbers : \A j \in numbers : j <= i][2]

\* The result does not depend on it.  A log that cannot be written is raised.
Status(x) ==
  /\ Answered(x, "status")
  /\ \E result \in {"SUCCESS", "FAILED"} :
       Turns(x, [run[x] EXCEPT !.exit = LastNumber(con[x].reply) = 0, !.result = result])
  /\ Becomes(x, [con[x] EXCEPT !.sftp = FALSE])
  /\ UNCHANGED <<job, files, dirs>>

-----------------------------------------------------------------------------
\* Copy.

\* handle_tilde: what was read is taken to be the path.
Home(x) ==
  LET understood == Lines(x) \in { << <<"home", None>>, Prompt >>, << <<"home", None>> >> } IN
  /\ Answered(x, "home")
  /\ Turns(x, [run[x] EXCEPT !.pc = "source", !.place = IF understood THEN @ ELSE Elsewhere])
  /\ UNCHANGED <<con, job, files, dirs>>

LocalFile(x) ==
  /\ At(x, "source")
  /\ \/ run' = To(x, "folder") /\ UNCHANGED con
     \/ Result(x, "ERROR")     \* it is not there
  /\ UNCHANGED <<job, files, dirs>>

\* mkdirs recurs until a directory is found: without the file channel none is.
Folder(x) ==
  LET p == run[x].place IN
  /\ At(x, "folder")
  /\ \/ /\ con[x].sftp /\ run' = To(x, "remove")
        /\ dirs' \in {dirs, dirs \cup {p}}
        /\ UNCHANGED con
     \/ ~con[x].sftp /\ Result(x, "FAILED") /\ UNCHANGED dirs
  /\ UNCHANGED <<job, files>>

\* FileMgr reports nothing that goes wrong by an exception.
Remove(x) ==
  LET p == run[x].place IN
  /\ At(x, "remove")
  /\ \/ /\ con[x].sftp /\ files[p] # None
        /\ files' = [files EXCEPT ![p] = None]
        /\ Changes(x, p, [run[x] EXCEPT !.pc = "put"])
     \/ run' = To(x, "put") /\ UNCHANGED files
  /\ UNCHANGED <<con, job, dirs>>

\* PutBinFile opens the file, or makes it, and empties it.
PutOpen(x) ==
  LET p == run[x].place
      node == IF files[p] = None THEN x ELSE files[p].node IN
  /\ At(x, "put")
  /\ \/ /\ con[x].sftp /\ (p \in dirs \/ job[x].plugin = "script")
        /\ files' = [files EXCEPT ![p] = [node |-> node, by |-> x, whole |-> FALSE, others |-> {}]]
        /\ Changes(x, p, [run[x] EXCEPT !.pc = "write", !.node = node])
     \/ run' = To(x, "check") /\ UNCHANGED files
  /\ UNCHANGED <<con, job, dirs>>

\* It is written to the end, or not, if it is still the file that was opened.
PutEnd(x) ==
  LET p == run[x].place  f == files[p]
      same == f # None /\ f.node = run[x].node
      written == IF f.by = x THEN {f, [f EXCEPT !.whole = TRUE]}
                 ELSE {f, [f EXCEPT !.others = @ \cup {job[x].src}]} IN
  /\ At(x, "write")
  /\ IF same
     THEN \E g \in written :
            /\ g # f => con[x].sftp
            /\ files' = [files EXCEPT ![p] = g]
            /\ IF g = f THEN run' = To(x, "check")
               ELSE Changes(x, p, [run[x] EXCEPT !.pc = "check"])
     ELSE run' = To(x, "check") /\ UNCHANGED files
  /\ UNCHANGED <<con, job, dirs>>

\* A script's file is not looked for.
CheckFile(x) ==
  LET found == con[x].sftp /\ files[run[x].place] # None IN
  /\ At(x, "check")
  /\ IF found \/ job[x].plugin = "script" THEN Calls(x, "sum", "cmd") /\ run' = To(x, "sum")
     ELSE Result(x, "ERROR")
  /\ UNCHANGED <<job, files, dirs>>

\* Seeded defect: that there is a digest is enough.
Same_Any(x) == Lines(x) # <<>> /\ Lines(x)[1][1] = "sum"

\* compare_remote_and_local_file: the first word that was read is the digest.
Same(x) == Lines(x) # <<>> /\ Lines(x)[1] = <<"sum", job[x].src>>

\* Owner and mode are set, or not, when the two are the same.
Compare(x) ==
  /\ Answered(x, "sum")
  /\ \/ ~Same(x) /\ Result(x, "ERROR")
     \/ Same(x) /\ job[x].plugin = "copy" /\ Result(x, "SUCCESS")
     \/ Same(x) /\ job[x].plugin = "script" /\ Calls(x, "run", "cmd") /\ run' = To(x, "ran")
  /\ UNCHANGED <<job, files, dirs>>

-----------------------------------------------------------------------------
\* Script: a directory of its own is made before the script is looked for.

Script(x) ==
  /\ At(x, "script")
  /\ \/ Turns(x, [run[x] EXCEPT !.pc = "put", !.place = x]) /\ UNCHANGED con
     \/ Result(x, "ERROR")
  /\ UNCHANGED <<job, files, dirs>>

ScriptRan(x) ==
  /\ Answered(x, "ran") /\ job[x].plugin \in {"script", "retry"}
  /\ Result(x, "SUCCESS")
  /\ UNCHANGED <<job, files, dirs>>

-----------------------------------------------------------------------------
\* Fetch.

Taken == {run[y].got : y \in Executors}
Names == 0..Cardinality(Executor)

\* The first name that is not there, unless the file may be overwritten.
LocalName(overwrite) ==
  IF overwrite THEN 0
  ELSE CHOOSE n \in Names : n \notin Taken /\ \A m \in Names : m < n => m \in Taken

Fetch(x) ==
  /\ At(x, "fetch")
  /\ \/ /\ con[x].sftp /\ files[run[x].place] # None
        /\ Turns(x, [run[x] EXCEPT !.pc = "get", !.got = LocalName(job[x].overwrite)])
        /\ UNCHANGED con
     \/ Result(x, "ERROR")
  /\ UNCHANGED <<job, files, dirs>>

\* GetBinFile ends, and reports no failure.
Fetched(x) ==
  /\ At(x, "get") /\ Result(x, "SUCCESS")
  /\ UNCHANGED <<job, files, dirs>>

-----------------------------------------------------------------------------
\* What commands do on the host.
Prints(x, text) ==
  CASE text = "sum" -> {ContentOf(files[run[x].place])}
    [] text = "status" -> {con[x].code}
    [] text = "run" -> {0, 1}
    [] OTHER -> {None}

Answer(x) ==
  /\ con[x].coming # <<>>
  /\ LET text == Head(con[x].coming)[1] IN
     \E prints \in Prints(x, text), code \in IF text = "run" THEN {0, 1} ELSE {0} :
       /\ Arrive(x, prints, code)
       /\ Turns(x, [run[x] EXCEPT !.code = IF text = "run" THEN code ELSE @,
                                  !.touched = @ /\ text # "sum"])
  /\ UNCHANGED <<job, files, dirs>>

Plugin(x) ==
  \/ Begin(x) \/ Raised(x) \/ Ran(x) \/ Status(x)
  \/ Home(x) \/ LocalFile(x) \/ Folder(x) \/ Remove(x) \/ PutOpen(x) \/ PutEnd(x) \/ CheckFile(x)
  \/ Compare(x) \/ Script(x) \/ ScriptRan(x) \/ Fetch(x) \/ Fetched(x)

Connection(x) == run[x].result = None /\ ConnectionStep(x) /\ UNCHANGED <<job, run, files, dirs>>
SessionEnds(x) == Break(x) /\ UNCHANGED <<job, run, files, dirs>>

Step(x) == x \in Executors /\ (Plugin(x) \/ Connection(x))

ShellNext == \E x \in Executors : Step(x) \/ Answer(x) \/ SessionEnds(x)

\* The thread waits for the host and nothing limits the time: an operation on files,
\* or the opening of a shell or a file channel once the host is connected.
Unlimited(x) ==
  \/ con[x].at = "ready" /\ con[x].sftp
       /\ run[x].pc \in {"folder", "remove", "put", "write", "check", "sum", "fetch", "get"}
  \/ con[x].at \in {"new", "again", "relogin"}

\* The executor's thread goes on: connections, logins and the reads of the terminal
\* have a time limit.  Where there is none, the host need not answer.
ShellSpec ==
  /\ ShellInit /\ [][ShellNext]_shell_vars
  /\ \A x \in Executor : WF_shell_vars(Step(x) /\ ~Unlimited(x))

-----------------------------------------------------------------------------
ShellTypeOK ==
  /\ job \in Mixes /\ dirs \subseteq Place
  /\ \A x \in Executors :
       /\ con[x].at \in {"new", "again", "ask", "hear", "hear more", "ask again", "settle",
                         "settle second", "settle last", "ready", "send", "reply", "relogin",
                         "resend", "raised"}
       /\ con[x].sftp => con[x].up
       /\ con[x].tried \in 0..Tries /\ con[x].breaks \in 0..job[x].breaks
       /\ con[x].cmd \in Command \cup {None}
       /\ con[x].marks \subseteq {"unread", "late", "anew", "repeated"}
       /\ run[x].place \in Place /\ run[x].got \in Names \cup {None}
       /\ run[x].result \in {None, "unconnected", "SUCCESS", "ERROR", "FAILED"}
  /\ \A p \in Place : files[p] = None \/ files[p].others \subseteq Source

\* A reply is the command's own and whole, however the session began and whether it
\* was begun anew: unless a login left a part of its dialogue unread, or a reply was
\* not awaited to its end.  Then every later command is answered by an earlier one.
\* And a command a plugin calls successful did run once, and ended with code 0:
\* unless moreover the session was begun anew before its code was asked for.
ReplyIsOwn ==
  \A x \in Executors :
    /\ con[x].at = "ready" /\ con[x].cmd # None /\ con[x].marks \cap {"unread", "late"} = {} =>
         Len(con[x].reply) = 2 /\ con[x].reply[1][1] = con[x].cmd /\ con[x].reply[2] = Prompt
    /\ job[x].plugin = "shell" /\ run[x].exit /\ con[x].marks = {} =>
         run[x].code = 0 /\ con[x].ran["run"] = 1

\* A command is run once at most, also when a session ends while it is sent: only
\* cmd_with_backoff_retry runs one again.
RunAtMostOnce ==
  \A x \in Executors : "repeated" \notin con[x].marks => \A t \in Command : con[x].ran[t] <= 1

\* What is reported as copied, or run as a script, is the whole source, whatever the
\* connection was like: until someone else changes the file.
CopyHolds ==
  \A x \in Executors :
    job[x].plugin \in {"copy", "script"} /\ run[x].result = "SUCCESS" /\ ~run[x].touched =>
      ContentOf(files[run[x].place]) = job[x].src

\* Every executor ends, with whatever result, however often commands hang, sessions
\* end and logins are repeated: a host that hangs holds it for the time limit of its
\* reads, and for ever only where nothing limits the wait.
EveryExecutorEnds ==
  \A x \in Executor :
    <>[](x \in Executors /\ run[x].result = None => Unlimited(x))

=============================================================================
