----------------------------- MODULE RemoteControl -----------------------------
(***************************************************************************)
(* The SSH connection of an executor: login with retries, the dialogue     *)
(* that sets a prompt of its own, commands whose replies are read up to    *)
(* that prompt or until the time is up, and the login anew when a command  *)
(* cannot be sent.  The other side is an interactive shell: what it has    *)
(* still to write is "coming", what it wrote and nobody read yet is on the *)
(* "screen".                                                               *)
(***************************************************************************)
EXTENDS Integers, Sequences, FiniteSets

CONSTANTS
  Executor,
  Tries,    \* bound: attempts to connect, to log in anew, to repeat a command
  None

ASSUME TriesAssumption == Tries \in Nat \ {0}

VARIABLE con  \* the connection of each executor

\* What the shell writes: its own prompt, the echo of the line that sets the
\* prompt (which contains it), that prompt, and what commands print.
Shell == <<"#", None>>
Echo == <<"PS1", None>>
Prompt == <<"prompt", None>>
Own == {"PS1", "prompt"}

Command == {"home", "sum", "run", "status"}

ASSUME NoneAssumption == None \notin Command \cup Own \cup {"#"} /\ None \notin {0, 1}

NewConnection(breaks) ==
  [at |-> "new", then |-> "ready", tried |-> 0, sftp |-> FALSE, up |-> FALSE, breaks |-> breaks,
   coming |-> <<>>, screen |-> <<>>, cmd |-> None, how |-> "cmd", reply |-> <<>>,
   code |-> 0,                            \* exit code of the shell's last command
   ran |-> [t \in Command |-> 0],         \* history: how often each command was run
   marks |-> {}]                          \* history: "unread", "late", "anew", "repeated"

Becomes(x, c) == con' = [con EXCEPT ![x] = c]
Goes(x, at) == Becomes(x, [con[x] EXCEPT !.at = at])

-----------------------------------------------------------------------------
\* Login.

Opens(c, then) ==
  [c EXCEPT !.at = "ask", !.then = then, !.up = TRUE, !.coming = <<Shell>>, !.screen = <<>>,
            !.code = 0]

\* A refused authentication, and what is not expected, is raised at once.
FirstConnect(x) ==
  /\ con[x].at = "new"
  /\ \/ Becomes(x, [Opens(con[x], "ready") EXCEPT !.sftp = TRUE])
     \/ Becomes(x, [con[x] EXCEPT !.at = "again", !.tried = 1])
     \/ Goes(x, "raised")

\* The attempts after the first do not open the file channel.
Reconnect(x) ==
  /\ con[x].at = "again"
  /\ \/ con[x].tried < Tries /\ Becomes(x, Opens(con[x], "ready"))
     \/ con[x].tried < Tries /\ Becomes(x, [con[x] EXCEPT !.tried = @ + 1])
     \/ Goes(x, "raised")

-----------------------------------------------------------------------------
\* Reading.

Count(s, names) == Cardinality({i \in DOMAIN s : s[i][1] \in names})
Heard(c, names) == Count(c.screen, names) > 0

\* Seeded defect: a read does not look at the clock.
Timely_Never == {TRUE}

\* A read ends in time, or the time is up.
Timely == BOOLEAN

ReadUntil(c, names) == [c EXCEPT !.reply = c.screen, !.screen = <<>>]
ReadEnds(c, names, timely) == timely \in Timely /\ timely = Heard(c, names)

-----------------------------------------------------------------------------
\* set_prompt: what is read decides whether to read on.

\* A line that comes before its turn is echoed twice.
Types(c) ==
  IF ~c.up THEN c
  ELSE [c EXCEPT !.coming = (IF @ = <<>> THEN @ ELSE <<Echo>> \o @) \o <<Echo, Prompt>>]

Ask(x) ==
  /\ con[x].at \in {"ask", "ask again"}
  /\ \/ Becomes(x, [Types(con[x]) EXCEPT !.at = IF @ = "ask" THEN "hear" ELSE "settle"])
     \/ ~con[x].up /\ Goes(x, IF con[x].then = "resend" THEN "relogin" ELSE "raised")

LoggedIn(c) ==
  [c EXCEPT !.at = c.then, !.marks = IF c.coming = <<>> THEN @ ELSE @ \cup {"unread"}]

Hear(x) ==
  LET any == Own \cup {"#"}  c == ReadUntil(con[x], any) IN
  /\ con[x].at \in {"hear", "hear more"} /\ \E timely \in BOOLEAN : ReadEnds(con[x], any, timely)
  /\ Becomes(x, [c EXCEPT !.at = IF @ = "hear" /\ Count(c.reply, Own) # 2 THEN "hear more"
                                 ELSE "ask again"])

Settle(x) ==
  LET c == ReadUntil(con[x], Own)
      more == CASE c.at = "settle" /\ Count(c.reply, Own) < 2 -> "settle second"
                [] c.at = "settle" /\ Count(c.reply, {"PS1"}) > 1 -> "settle last"
                [] c.at = "settle second" /\ Count(c.reply, {"PS1"}) > 0 -> "settle last"
                [] OTHER -> None IN
  /\ con[x].at \in {"settle", "settle second", "settle last"}
  /\ \E timely \in BOOLEAN : ReadEnds(con[x], Own, timely)
  /\ Becomes(x, IF more = None THEN LoggedIn(c) ELSE [c EXCEPT !.at = more])

-----------------------------------------------------------------------------
\* Commands.

\* cmd, or cmd_with_backoff_retry, is called.
Calls(x, text, how) ==
  Becomes(x, [con[x] EXCEPT !.at = "send", !.cmd = text, !.how = how, !.tried = 0])

\* What is sent to a channel that is known to be closed is raised.  cmd logs in anew
\* once, cmd_with_backoff_retry until its time is up.
Closed(c) ==
  LET onceMore == IF c.how = "cmd" THEN c.at = "send" ELSE c.tried < Tries IN
  [c EXCEPT !.at = IF onceMore THEN "relogin" ELSE "raised",
            !.tried = IF onceMore THEN @ + 1 ELSE @]

\* A session that has ended takes a line silently until that is noticed.
Send(x) ==
  LET c == con[x] IN
  /\ c.at \in {"send", "resend"}
  /\ \/ Becomes(x, [c EXCEPT !.at = "reply",
                             !.coming = IF c.up THEN @ \o << <<c.cmd, None>>, Prompt >> ELSE @])
     \/ ~c.up /\ Becomes(x, Closed(c))

\* Seeded defect: the reply is taken to end with the command's output.
Awaited_Output(c) == {"prompt", c.cmd}

Awaited(c) == {"prompt"}

\* Seeded defect: a command that timed out is sent again.
Repeats_Timeout(c) == ~Heard(c, Awaited(c)) /\ c.tried < Tries

\* Only cmd_with_backoff_retry sends a command again that timed out.
Repeats(c) == c.how = "retry" /\ ~Heard(c, Awaited(c)) /\ c.tried < Tries

Reply(x) ==
  LET c == ReadUntil(con[x], Awaited(con[x]))
      late == IF Heard(con[x], Awaited(con[x])) THEN {} ELSE {"late"} IN
  /\ con[x].at = "reply" /\ \E timely \in BOOLEAN : ReadEnds(con[x], Awaited(con[x]), timely)
  /\ Becomes(x, IF Repeats(con[x])
                THEN [c EXCEPT !.at = "relogin", !.tried = @ + 1, !.marks = @ \cup late]
                ELSE [c EXCEPT !.at = IF c.how = "retry" /\ late # {} THEN "raised" ELSE "ready",
                               !.marks = @ \cup late])

\* A session ends: of what was sent, "done" was run, or goes on running.
Outstanding(c) == {c.coming[i][1] : i \in DOMAIN c.coming} \cap Command
Lost(c, done) ==
  [c EXCEPT !.up = FALSE, !.sftp = FALSE, !.coming = <<>>,
            !.ran = [t \in Command |-> IF t \in done THEN @[t] + 1 ELSE @[t]]]

\* relogin returns also when no attempt succeeded: the channel is still the one that
\* is closed.  Files are not opened again.
Relogin(x) ==
  LET c == con[x]  marks == {"anew"} \cup (IF c.how = "retry" THEN {"repeated"} ELSE {}) IN
  /\ c.at = "relogin"
  /\ \E done \in SUBSET Outstanding(c) :
       \/ Becomes(x, [Opens(Lost(c, done), "resend") EXCEPT !.marks = @ \cup marks])
       \/ Becomes(x, Closed(Lost(c, done)))

-----------------------------------------------------------------------------
\* The other side.

\* The next of what is coming is written; a command is run by then, prints
\* what "prints" says and ends with "code".
Arrive(x, prints, code) ==
  LET c == con[x]  t == Head(c.coming)[1]  isCommand == t \in Command IN
  /\ c.coming # <<>>
  /\ Becomes(x, [c EXCEPT !.coming = Tail(@),
                          !.screen = Append(@, IF isCommand THEN <<t, prints>> ELSE Head(c.coming)),
                          !.code = IF isCommand THEN code ELSE @,
                          !.ran = IF isCommand THEN [c.ran EXCEPT ![t] = @ + 1] ELSE @])

\* The session ends; a command that was sent may have been run.
Break(x) ==
  /\ con[x].up /\ con[x].breaks > 0
  /\ \E done \in SUBSET Outstanding(con[x]) :
       Becomes(x, [Lost(con[x], done) EXCEPT !.breaks = @ - 1])

ConnectionStep(x) ==
  \/ FirstConnect(x) \/ Reconnect(x) \/ Ask(x) \/ Hear(x) \/ Settle(x) \/ Send(x) \/ Reply(x) \/ Relogin(x)

=============================================================================
