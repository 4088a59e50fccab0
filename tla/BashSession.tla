----------------------------- MODULE BashSession -----------------------------
(***************************************************************************)
(* The shell of the sandbox: BashSession of openhands/runtime/utils/       *)
(* bash.py, which types commands into a tmux pane and reads the pane back. *)
(*                                                                         *)
(* The pane is the sequence of what it shows: prompts, which carry the     *)
(* exit code of the command they follow and so stand for that command, the *)
(* echo of what was typed, and pieces of output.  Commands are numbered by *)
(* the call of execute that typed them.                                    *)
(***************************************************************************)
EXTENDS Integers, SequencesExt, Places

CONSTANTS
    HistoryLimit,  \* what the pane can hold, HISTORY_LIMIT
    MaxExec,       \* bound: calls of execute
    MaxOutput      \* bound: pieces of output of all the commands

ASSUME BashAssumption ==
    HistoryLimit \in Nat \ {0} /\ MaxExec \in Nat /\ MaxOutput \in Nat

VARIABLES
    pane,        \* what tmux shows
    keys,        \* what was typed and not yet read by the terminal
    running,     \* the command the shell runs, 0 if none
    prevStatus,  \* prev_status
    prevOutput,  \* prev_output
    exec,        \* the call of execute
    execs,       \* number of calls so far
    produced,    \* number of pieces of output so far; they are numbered in order
    reported,    \* the output the observations contained
    last,        \* the last observation of a completed command
    begun,       \* the command the shell read last
    hasty,       \* whether a poll ended a call before the terminal had read what was typed
    stray,       \* whether input was read by the shell, its program being gone
    truncated    \* whether the pane has lost its beginning

bashVars == <<pane, keys, running, prevStatus, prevOutput, exec, execs, produced, reported,
              last, begun, hasty, stray, truncated>>

Prompt(c) == [kind |-> "prompt", of |-> c]
Echo(c) == [kind |-> "echo", of |-> c]
Output(n) == [kind |-> "output", of |-> n]

NotRunning == [pc |-> "idle"]
TimedOut == {"no_change_timeout", "hard_timeout"}

(* matches_ps1_metadata: the places of the prompts. *)
Matches(p) == {i \in 1 .. Len(p) : p[i].kind = "prompt"}
EndsWithPrompt(p) == p # <<>> /\ Last(p).kind = "prompt"

(* The items of some kinds only. *)
Only(kinds, p) == Pick(p, {i \in 1 .. Len(p) : p[i].kind \in kinds})

(* _combine_outputs_between_matches: what follows the first prompt, or all *)
(* there is without one; if beforeLast and there is only one, what         *)
(* precedes it.                                                            *)
CombineOutputs(p, beforeLast) ==
    IF Matches(p) = {} THEN p
    ELSE LET first == Min(Matches(p))
         IN IF beforeLast /\ Matches(p) = {first} THEN SubSeq(p, 1, first - 1)
            ELSE Only({"echo", "output"}, SubSeq(p, first + 1, Len(p)))

(* Faulty variant: what was reported before is not removed. *)
WholeOutput(raw) == raw

(* _get_command_output: less what was reported before. *)
CommandOutput(raw) ==
    IF IsPrefix(prevOutput, raw) THEN SubSeq(raw, Len(prevOutput) + 1, Len(raw)) ELSE raw

Report(raw) == reported' = reported \o Only({"output"}, CommandOutput(raw))

(* The pane with one more item; beyond the limit it loses the first. *)
Show(x) ==
    /\ pane' = IF Len(pane) < HistoryLimit THEN Append(pane, x) ELSE Append(Tail(pane), x)
    /\ truncated' = (truncated \/ Len(pane) >= HistoryLimit)

-----------------------------------------------------------------------------
(* execute *)

(* No previous command to read from or to interact with. *)
RefuseWithoutCommand(kind) ==
    /\ kind # "command" /\ prevStatus \notin TimedOut
    /\ UNCHANGED <<keys, prevOutput, exec, reported>>

(* The previous command is still running. *)
StillRunning == prevStatus \in TimedOut /\ ~EndsWithPrompt(pane)

RefuseCommand(kind) ==
    /\ kind = "command" /\ StillRunning
    /\ Report(CombineOutputs(pane, FALSE))
    /\ prevOutput' = CombineOutputs(pane, FALSE)
    /\ UNCHANGED <<keys, exec>>

(* The command, or the input, is typed; an empty one only reads on. *)
TypeKeys(kind) ==
    /\ kind = "command" => ~StillRunning
    /\ kind # "command" => prevStatus \in TimedOut
    /\ keys' = IF kind = "empty" THEN keys
               ELSE Append(keys, [kind |-> kind, id |-> execs + 1])
    /\ exec' = [pc |-> "poll", kind |-> kind, count |-> Cardinality(Matches(pane)), seen |-> pane]
    /\ UNCHANGED <<prevOutput, reported>>

Execute(kind) ==
    /\ exec = NotRunning
    /\ execs < MaxExec /\ execs' = execs + 1
    /\ RefuseWithoutCommand(kind) \/ RefuseCommand(kind) \/ TypeKeys(kind)
    /\ UNCHANGED <<pane, running, prevStatus, produced, last, begun, hasty, stray, truncated>>

(* _clear_screen: a shell that waits for a command shows its prompt again. *)
ClearScreen == pane' = IF running = 0 /\ EndsWithPrompt(pane) THEN <<Last(pane)>> ELSE pane

IsCompleted == Cardinality(Matches(pane)) > exec.count \/ EndsWithPrompt(pane)

(* The metadata is that of the last prompt. *)
MetadataMatch(p) == Max(Matches(p))

(* _handle_completed_command.  Nothing is awaited between typing and the   *)
(* first poll: it may still see the old prompt, and the call then reports  *)
(* the exit code of the previous command as that of its own.               *)
PollCompleted ==
    /\ exec.pc = "poll" /\ IsCompleted
    /\ last' = pane[MetadataMatch(pane)].of
    /\ Report(CombineOutputs(pane, TRUE))
    /\ prevStatus' = "completed" /\ prevOutput' = <<>>
    /\ ClearScreen
    /\ hasty' = (hasty \/ keys # <<>>)
    /\ exec' = NotRunning
    /\ UNCHANGED <<keys, running, execs, produced, begun, stray, truncated>>

(* _handle_nochange_timeout_command, _handle_hard_timeout_command: the     *)
(* former only if the pane has not changed.                                *)
PollTimesOut(status) ==
    /\ exec.pc = "poll" /\ ~IsCompleted
    /\ status = "no_change_timeout" => pane = exec.seen
    /\ prevStatus' = status
    /\ Report(CombineOutputs(pane, FALSE))
    /\ prevOutput' = CombineOutputs(pane, FALSE)
    /\ exec' = NotRunning
    /\ UNCHANGED <<pane, keys, running, execs, produced, last, begun, hasty, stray, truncated>>

PollAgain ==
    /\ exec.pc = "poll" /\ ~IsCompleted /\ pane # exec.seen
    /\ exec' = [exec EXCEPT !.seen = pane]
    /\ UNCHANGED <<pane, keys, running, prevStatus, prevOutput, execs, produced, reported,
                   last, begun, hasty, stray, truncated>>

-----------------------------------------------------------------------------
(* The shell and the program it runs. *)

(* The shell reads a line and runs it: input too, if the program it was    *)
(* meant for is gone.                                                      *)
ShellReads ==
    /\ running = 0 /\ keys # <<>>
    /\ Show(Echo(Head(keys).id))
    /\ running' = Head(keys).id /\ begun' = Head(keys).id
    /\ keys' = Tail(keys)
    /\ stray' = (stray \/ Head(keys).kind = "input")
    /\ UNCHANGED <<prevStatus, prevOutput, exec, execs, produced, reported, last, hasty>>

ProgramReads ==
    /\ running # 0 /\ keys # <<>>
    /\ Show(Echo(Head(keys).id))
    /\ keys' = Tail(keys)
    /\ UNCHANGED <<running, prevStatus, prevOutput, exec, execs, produced, reported, last,
                   begun, hasty, stray>>

ProgramWrites ==
    /\ running # 0 /\ produced < MaxOutput
    /\ Show(Output(produced + 1))
    /\ produced' = produced + 1
    /\ UNCHANGED <<keys, running, prevStatus, prevOutput, exec, execs, reported, last, begun,
                   hasty, stray>>

ProgramEnds ==
    /\ running # 0
    /\ Show(Prompt(running))
    /\ running' = 0
    /\ UNCHANGED <<keys, prevStatus, prevOutput, exec, execs, produced, reported, last, begun,
                   hasty, stray>>

-----------------------------------------------------------------------------
(* initialize: the prompt of the shell, in a cleared pane. *)
BashInit ==
    /\ pane = <<Prompt(0)>> /\ keys = <<>> /\ running = 0
    /\ prevStatus = "none" /\ prevOutput = <<>>
    /\ exec = NotRunning /\ execs = 0
    /\ produced = 0 /\ reported = <<>> /\ last = 0 /\ begun = 0
    /\ hasty = FALSE /\ stray = FALSE /\ truncated = FALSE

BashNext ==
    \/ \E kind \in {"command", "input", "empty"} : Execute(kind)
    \/ PollCompleted \/ PollAgain \/ \E s \in TimedOut : PollTimesOut(s)
    \/ ShellReads \/ ProgramReads \/ ProgramWrites \/ ProgramEnds

BashSpec == BashInit /\ [][BashNext]_bashVars

-----------------------------------------------------------------------------
(* Properties.                                                             *)

Items == [kind : {"prompt", "echo"}, of : 0 .. MaxExec] \cup
         [kind : {"output"}, of : 1 .. MaxOutput]

(* The type invariant.  Between the calls a shell whose last command timed *)
(* out and one whose last command completed are told apart.                *)
BashTypeOK ==
    /\ pane \in Seq(Items) /\ Len(pane) \in 1 .. HistoryLimit
    /\ execs \in 0 .. MaxExec /\ produced \in 0 .. MaxOutput
    /\ hasty \in BOOLEAN /\ stray \in BOOLEAN /\ truncated \in BOOLEAN
    /\ keys \in Seq([kind : {"command", "input"}, id : 1 .. execs])
    /\ running \in 0 .. execs /\ begun \in 0 .. execs /\ last \in 0 .. execs
    /\ prevStatus \in {"none", "completed"} \cup TimedOut
    /\ prevOutput \in Seq(Items)
    /\ exec = NotRunning \/ exec \in
          [pc : {"poll"}, kind : {"command", "input", "empty"}, count : 0 .. HistoryLimit,
           seen : Seq(Items)]
    /\ reported \in Seq(Items)
    /\ exec = NotRunning /\ prevStatus \in {"none", "completed"} /\ ~hasty /\ ~stray =>
          running = 0 /\ keys = <<>>

(* "You CANNOT send new commands until the previous command is completed": *)
(* nothing but input is typed while a command is running, whatever the     *)
(* timeouts of the calls before and whatever has scrolled out of the pane. *)
(* Two races are excepted here and below, once they have happened: a first *)
(* poll that saw the old prompt (hasty: the call is over, its command      *)
(* still to be read), and input the shell read as a command (stray).       *)
OneCommandAtATime ==
    ~hasty /\ ~stray /\ running # 0 => \A i \in 1 .. Len(keys) : keys[i].kind = "input"

(* The exit code an observation carries is that of the command it is       *)
(* about: after a completed call it is the last one the shell ran.  Not so *)
(* after a hasty poll, which reports the exit code of the command before.  *)
ExitCodeIsOwn ==
    ~hasty /\ ~stray /\ exec = NotRunning /\ prevStatus = "completed" => last = begun

(* Every piece of output is reported once and in order, over any number of *)
(* calls that time out, are refused, or only read on; and all of it once a *)
(* command has completed.                                                  *)
OutputReportedOnce ==
    ~hasty /\ ~stray /\ ~truncated =>
       /\ \A i \in 1 .. Len(reported) : reported[i] = Output(i)
       /\ exec = NotRunning /\ prevStatus = "completed" => Len(reported) = produced

(* What the session reports of a command is its own: one command runs at a *)
(* time, and output and exit code are attributed to it, once, as long as   *)
(* every poll came after the terminal had read what was typed and no input *)
(* was left to the shell.                                                  *)
ReportsAreOwn == OneCommandAtATime /\ ExitCodeIsOwn /\ OutputReportedOnce
=============================================================================
